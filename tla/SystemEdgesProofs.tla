-------------------------- MODULE SystemEdgesProofs --------------------------
(***************************************************************************)
(* The limits of the gateway hold for any number of sockets, productions   *)
(* and messages; the model guard neither loses nor invents a slot, for any *)
(* number of calls; a rate limiter keeps its quota, for any number of keys; *)
(* calls are admitted as they should be, however many overlap; and the     *)
(* console stays about one production and one job.                         *)
(*                                                                         *)
(* The gateway's argument: the address is counted in the turn in which the *)
(* socket joins Counted and leaves it (CountIsHeld); of a connection's     *)
(* chain at most one subscribe is being authorized, and when it was begun  *)
(* there was room for it (OneAtATime).  The guard's: whoever waits is in   *)
(* the queue, and a slot is given back to the head of the queue.  A        *)
(* limiter's: a running window counts what was served since it began, and  *)
(* what was served in the time of a window before it is at most the limit  *)
(* (KeyOK).  Admission's: where a call is tells what its gates found out   *)
(* (CallIsSound), and each limiter has served the calls that pay (PaidInv). *)
(* The console's: at most one call is being sent and one production read,  *)
(* both for what is open (CalmInv), and a job behind the view has a read   *)
(* on its way (ReadIsDue).                                                 *)
(***************************************************************************)
EXTENDS SystemEdges, FiniteSetTheorems, SequenceTheorems, TLAPS

SocketStates == {"NONE", "AUTHENTICATING", "REFUSED", "OPEN", "CLOSING", "ENDING", "CLOSED"}

SocketRecords ==
    [state : SocketStates, chain : Seq(Messages), authorizing : SUBSET Productions,
     followed : SUBSET Productions, told : SUBSET Productions, tokens : Nat, alive : BOOLEAN]

\* The subscribe being authorized, if any, has room.
OneAtATime(socket) ==
    \/ socket.authorizing = {}
    \/ /\ \E on \in Productions : socket.authorizing = {on} /\ on \notin socket.followed
       /\ Cardinality(socket.followed) < MaxSubscriptions

SocketInv(socket) ==
    /\ socket \in SocketRecords
    /\ socket.followed \subseteq Allowed /\ IsFiniteSet(socket.followed)
    /\ Cardinality(socket.followed) <= MaxSubscriptions
    /\ OneAtATime(socket)
    /\ socket.state \in {"NONE", "AUTHENTICATING", "OPEN"} => socket.followed = socket.told
    /\ socket.state \in {"NONE", "AUTHENTICATING"} => socket.chain = <<>> /\ socket.authorizing = {}

IsCounted(socket) == socket.state \in {"OPEN", "CLOSING", "ENDING"}

CountIsHeld == IsFiniteSet(Counted) /\ held = Cardinality(Counted) /\ held <= MaxPerAddress

GatewayInv ==
    /\ sockets \in [Sockets -> SocketRecords]
    /\ \A s \in Sockets : SocketInv(sockets[s])
    /\ CountIsHeld

LEMMA CountedMeans == Counted = {s \in Sockets : IsCounted(sockets[s])}
  BY DEF Counted, Connected, IsCounted

LEMMA LimitsAreNatural ==
    MaxPerAddress \in Nat \ {0} /\ MaxSubscriptions \in Nat \ {0} /\ MessageRate \in Nat \ {0}
  BY GatewayAssumption

LEMMA NewSocketRecord == NewSocket \in SocketRecords /\ SocketInv(NewSocket)
<1>1. <<>> \in Seq(Messages) /\ MessageRate \in Nat
  BY EmptySeq, LimitsAreNatural
<1>2. NewSocket \in SocketRecords
  BY <1>1 DEF NewSocket, SocketRecords, SocketStates
<1>3. IsFiniteSet(NewSocket.followed) /\ Cardinality(NewSocket.followed) = 0
  BY FS_EmptySet DEF NewSocket
<1>4. /\ NewSocket.followed = {} /\ NewSocket.told = {} /\ NewSocket.authorizing = {}
      /\ NewSocket.chain = <<>>
  BY DEF NewSocket
<1> QED
  BY <1>2, <1>3, <1>4, LimitsAreNatural DEF SocketInv, OneAtATime

LEMMA ClosedSocket ==
    ASSUME NEW new, new = [NewSocket EXCEPT !.state = "CLOSED"]
    PROVE  SocketInv(new) /\ new.state = "CLOSED"
<1>1. /\ new \in SocketRecords /\ new.state = "CLOSED"
      /\ new.followed = NewSocket.followed /\ new.told = NewSocket.told
      /\ new.authorizing = NewSocket.authorizing
  BY NewSocketRecord DEF SocketRecords, SocketStates
<1> QED
  BY <1>1, NewSocketRecord DEF SocketInv, OneAtATime

LEMMA GatewayInitInv == GatewayInit => GatewayInv
<1> SUFFICES ASSUME GatewayInit PROVE GatewayInv
  OBVIOUS
<1>1. NewSocket.state = "NONE"
  BY DEF NewSocket
<1>3. \A s \in Sockets : sockets[s] = NewSocket
  BY DEF GatewayInit
<1>4. Counted = {}
  BY <1>1, <1>3, CountedMeans DEF IsCounted
<1>5. CountIsHeld
  BY <1>4, FS_EmptySet, LimitsAreNatural DEF CountIsHeld, GatewayInit
<1> QED
  BY <1>3, <1>5, NewSocketRecord DEF GatewayInv, GatewayInit

\* A step of one socket, which joins or leaves the counted ones as held says.
LEMMA SocketStep ==
    ASSUME GatewayInv, NEW s \in Sockets, NEW new, SocketInv(new), Set(s, new),
           \/ (IsCounted(new) <=> IsCounted(sockets[s])) /\ held' = held
           \/ IsCounted(new) /\ ~IsCounted(sockets[s]) /\ held' = held + 1 /\ held < MaxPerAddress
           \/ ~IsCounted(new) /\ IsCounted(sockets[s]) /\ held' = held - 1
    PROVE  GatewayInv'
<1>1. /\ sockets' = [sockets EXCEPT ![s] = new] /\ new \in SocketRecords
      /\ sockets \in [Sockets -> SocketRecords]
  BY DEF Set, GatewayInv, SocketInv
<1>2. sockets' \in [Sockets -> SocketRecords]
  BY <1>1
<1>3. ASSUME NEW t \in Sockets PROVE SocketInv(sockets'[t])
  BY <1>1 DEF GatewayInv
<1>4. Counted' = {t \in Sockets : IsCounted(sockets'[t])}
  BY DEF Counted, Connected, IsCounted
<1>5. IsFiniteSet(Counted) /\ held = Cardinality(Counted) /\ held \in Nat /\ held <= MaxPerAddress
  BY FS_CardinalityType DEF GatewayInv, CountIsHeld
<1>6. CountIsHeld'
  <2>1. CASE (IsCounted(new) <=> IsCounted(sockets[s])) /\ held' = held
    <3>1. Counted' = Counted
      BY <1>1, <1>4, <2>1, CountedMeans
    <3> QED
      BY <1>5, <2>1, <3>1 DEF CountIsHeld
  <2>2. CASE IsCounted(new) /\ ~IsCounted(sockets[s]) /\ held' = held + 1 /\ held < MaxPerAddress
    <3>1. Counted' = Counted \cup {s} /\ s \notin Counted
      BY <1>1, <1>4, <2>2, CountedMeans
    <3>2. IsFiniteSet(Counted \cup {s}) /\ Cardinality(Counted \cup {s}) = held + 1
      BY <1>5, <3>1, FS_AddElement
    <3> QED
      BY <1>5, <2>2, <3>1, <3>2, LimitsAreNatural DEF CountIsHeld
  <2>3. CASE ~IsCounted(new) /\ IsCounted(sockets[s]) /\ held' = held - 1
    <3>1. Counted' = Counted \ {s} /\ s \in Counted
      BY <1>1, <1>4, <2>3, CountedMeans
    <3>2. IsFiniteSet(Counted \ {s}) /\ Cardinality(Counted \ {s}) = held - 1
      BY <1>5, <3>1, FS_RemoveElement
    <3> QED
      BY <1>5, <2>3, <3>1, <3>2, LimitsAreNatural DEF CountIsHeld
  <2> QED
    BY <2>1, <2>2, <2>3
<1>7. ASSUME NEW t \in Sockets PROVE SocketInv(sockets[t])'
  BY <1>3 DEF SocketInv, OneAtATime
<1> QED
  BY <1>2, <1>6, <1>7 DEF GatewayInv

\* A step of many sockets, none of which becomes or ceases to be counted, or
\* opens, and which follow what they followed.
LEMMA SweepStep ==
    ASSUME GatewayInv, sockets' \in [Sockets -> SocketRecords], held' = held,
           \A s \in Sockets :
              /\ sockets'[s].chain = sockets[s].chain
              /\ sockets'[s].authorizing = sockets[s].authorizing
              /\ sockets'[s].followed = sockets[s].followed
              /\ sockets'[s].told = sockets[s].told
              /\ IsCounted(sockets'[s]) <=> IsCounted(sockets[s])
              /\ sockets'[s].state \in {sockets[s].state, "CLOSING"}
    PROVE  GatewayInv'
<1>1. Counted' = {s \in Sockets : IsCounted(sockets'[s])}
  BY DEF Counted, Connected, IsCounted
<1>2. Counted' = Counted
  BY <1>1, CountedMeans
<1>3. ASSUME NEW s \in Sockets PROVE SocketInv(sockets[s])'
  BY DEF GatewayInv, SocketInv, OneAtATime
<1> QED
  BY <1>2, <1>3 DEF GatewayInv, CountIsHeld

-----------------------------------------------------------------------------
(* One lemma per action.                                                   *)

\* Only the fields a step names change.
LEMMA SocketFields ==
    ASSUME GatewayInv, NEW s \in Sockets
    PROVE  /\ SocketInv(sockets[s]) /\ sockets[s] \in SocketRecords
           /\ held \in Nat
  BY FS_CardinalityType DEF GatewayInv, CountIsHeld

LEMMA RequestUpgradeInv ==
    ASSUME GatewayInv, NEW s \in Sockets, RequestUpgrade(s) PROVE GatewayInv'
<1>a. SUFFICES ASSUME NEW new, new = [sockets[s] EXCEPT !.state = "AUTHENTICATING"] PROVE GatewayInv'
  OBVIOUS
<1>1. new \in SocketRecords /\ new.state = "AUTHENTICATING" /\ sockets[s].state = "NONE"
  BY <1>a, SocketFields DEF SocketRecords, SocketStates, RequestUpgrade
<1>2. SocketInv(new)
  BY <1>a, <1>1, SocketFields DEF SocketInv, OneAtATime, SocketRecords
<1> QED
  BY <1>a, <1>1, <1>2, SocketStep DEF RequestUpgrade, IsCounted

LEMMA FinishUpgradeInv ==
    ASSUME GatewayInv, NEW s \in Sockets, FinishUpgrade(s) PROVE GatewayInv'
<1>1. CASE Set(s, [sockets[s] EXCEPT !.state = "REFUSED"]) /\ UNCHANGED held
  <2>a. SUFFICES ASSUME NEW new, new = [sockets[s] EXCEPT !.state = "REFUSED"] PROVE GatewayInv'
    OBVIOUS
  <2>1. new \in SocketRecords /\ new.state = "REFUSED" /\ sockets[s].state = "AUTHENTICATING"
    BY <2>a, SocketFields DEF SocketRecords, SocketStates, FinishUpgrade
  <2>2. SocketInv(new)
    BY <2>a, <2>1, SocketFields DEF SocketInv, OneAtATime, SocketRecords
  <2> QED
    BY <1>1, <2>a, <2>1, <2>2, SocketStep DEF IsCounted
<1>2. CASE /\ HasRoom(held) /\ held' = held + 1
           /\ Set(s, [sockets[s] EXCEPT !.state = IF closing THEN "ENDING" ELSE "OPEN"])
  <2>a. SUFFICES ASSUME NEW opening, opening = (IF closing THEN "ENDING" ELSE "OPEN"),
                        NEW new, new = [sockets[s] EXCEPT !.state = opening]
                 PROVE  GatewayInv'
    OBVIOUS
  <2>1. /\ new \in SocketRecords /\ new.state = opening /\ opening \in {"ENDING", "OPEN"}
        /\ sockets[s].state = "AUTHENTICATING"
    BY <2>a, SocketFields DEF SocketRecords, SocketStates, FinishUpgrade
  <2>2. SocketInv(new)
    BY <2>a, <2>1, SocketFields DEF SocketInv, OneAtATime, SocketRecords
  <2> QED
    BY <1>2, <2>a, <2>1, <2>2, SocketStep DEF IsCounted, HasRoom
<1> QED
  BY <1>1, <1>2 DEF FinishUpgrade

LEMMA ReceiveInv ==
    ASSUME GatewayInv, NEW s \in Sockets, NEW message \in Messages, Receive(s, message)
    PROVE  GatewayInv'
<1>1. sockets[s].state \in {"OPEN", "CLOSING"}
  BY DEF Receive, Connected
<1>2. CASE sockets[s].tokens = 0
  <2>a. SUFFICES ASSUME NEW new, new = [sockets[s] EXCEPT !.state = "CLOSING"] PROVE GatewayInv'
    OBVIOUS
  <2>1. new \in SocketRecords /\ new.state = "CLOSING"
    BY <2>a, SocketFields DEF SocketRecords, SocketStates
  <2>2. SocketInv(new)
    BY <1>1, <2>a, <2>1, SocketFields DEF SocketInv, OneAtATime, SocketRecords
  <2>3. Set(s, new) /\ held' = held
    BY <1>2, <2>a DEF Receive
  <2> QED
    BY <1>1, <2>1, <2>2, <2>3, SocketStep DEF IsCounted
<1>3. CASE sockets[s].tokens # 0
  <2>a. SUFFICES ASSUME NEW chain, chain = Append(sockets[s].chain, message),
                        NEW tokens, tokens = sockets[s].tokens - 1,
                        NEW new, new = [sockets[s] EXCEPT !.tokens = tokens, !.chain = chain]
                 PROVE  GatewayInv'
    OBVIOUS
  <2>0. chain \in Seq(Messages) /\ tokens \in Nat
    BY <1>3, <2>a, SocketFields, AppendProperties DEF SocketRecords
  <2>1. /\ new \in SocketRecords /\ new.state = sockets[s].state
    BY <2>a, <2>0, SocketFields DEF SocketRecords
  <2>2. SocketInv(new)
    BY <1>1, <2>a, <2>1, SocketFields DEF SocketInv, OneAtATime, SocketRecords
  <2>3. Set(s, new) /\ held' = held
    BY <1>3, <2>a DEF Receive
  <2> QED
    BY <1>1, <2>1, <2>2, <2>3, SocketStep DEF IsCounted
<1> QED
  BY <1>2, <1>3

LEMMA RefillTokenInv ==
    ASSUME GatewayInv, NEW s \in Sockets, RefillToken(s) PROVE GatewayInv'
<1>a. SUFFICES ASSUME NEW tokens, tokens = sockets[s].tokens + 1,
                      NEW new, new = [sockets[s] EXCEPT !.tokens = tokens]
               PROVE  GatewayInv'
  OBVIOUS
<1>1. new \in SocketRecords /\ new.state = sockets[s].state /\ new.state = "OPEN"
  BY <1>a, SocketFields DEF SocketRecords, RefillToken
<1>2. SocketInv(new)
  BY <1>a, <1>1, SocketFields DEF SocketInv, OneAtATime, SocketRecords
<1>3. Set(s, new) /\ held' = held
  BY <1>a DEF RefillToken
<1> QED
  BY <1>1, <1>2, <1>3, SocketStep DEF IsCounted

LEMMA PongInv ==
    ASSUME GatewayInv, NEW s \in Sockets, Pong(s) PROVE GatewayInv'
<1>a. SUFFICES ASSUME NEW new, new = [sockets[s] EXCEPT !.alive = TRUE] PROVE GatewayInv'
  OBVIOUS
<1>1. new \in SocketRecords /\ new.state = sockets[s].state /\ new.state \in {"OPEN", "CLOSING"}
  BY <1>a, SocketFields DEF SocketRecords, Pong, Connected
<1>2. SocketInv(new)
  BY <1>a, <1>1, SocketFields DEF SocketInv, OneAtATime, SocketRecords
<1>3. Set(s, new) /\ held' = held
  BY <1>a DEF Pong
<1> QED
  BY <1>1, <1>2, <1>3, SocketStep DEF IsCounted

LEMMA SocketClosesInv ==
    ASSUME GatewayInv, NEW s \in Sockets, SocketCloses(s) PROVE GatewayInv'
<1>a. SUFFICES ASSUME NEW new, new = [NewSocket EXCEPT !.state = "CLOSED"] PROVE GatewayInv'
  OBVIOUS
<1>1. SocketInv(new) /\ new.state = "CLOSED"
  BY <1>a, ClosedSocket
<1>2. Set(s, new) /\ held' = held - 1 /\ IsCounted(sockets[s])
  BY <1>a, CountedMeans DEF SocketCloses
<1> QED
  BY <1>1, <1>2, SocketStep DEF IsCounted

\* A handler moves its socket, which stays as open as it is.
LEMMA HandlerStep ==
    ASSUME GatewayInv, NEW s \in Sockets, sockets[s].state \notin {"NONE", "AUTHENTICATING"},
           NEW new \in SocketRecords, Set(s, new), held' = held, new.state = sockets[s].state,
           new.followed \subseteq Allowed, IsFiniteSet(new.followed),
           Cardinality(new.followed) <= MaxSubscriptions, OneAtATime(new),
           new.state = "OPEN" => new.followed = new.told
    PROVE  GatewayInv'
<1>1. SocketInv(new)
  BY DEF SocketInv
<1> QED
  BY <1>1, SocketStep DEF IsCounted

LEMMA HandleInv ==
    ASSUME GatewayInv, NEW s \in Sockets, Handle(s) PROVE GatewayInv'
<1>1. /\ sockets[s] \in SocketRecords /\ SocketInv(sockets[s])
      /\ sockets[s].chain # <<>> /\ sockets[s].authorizing = {}
      /\ sockets[s].state \notin {"NONE", "AUTHENTICATING"} /\ held' = held
  BY SocketFields DEF Handle, MayHandle, SocketInv
<1>a. SUFFICES ASSUME NEW message, message = Head(sockets[s].chain),
                      NEW on, on = message.on,
                      NEW chain, chain = Tail(sockets[s].chain),
                      NEW rest, rest = [sockets[s] EXCEPT !.chain = chain]
               PROVE  GatewayInv'
  OBVIOUS
<1>2. message \in Messages /\ on \in Productions /\ chain \in Seq(Messages)
  <2>1. sockets[s].chain \in Seq(Messages)
    BY <1>1 DEF SocketRecords
  <2>2. message \in Messages /\ chain \in Seq(Messages)
    BY <1>1, <1>a, <2>1, HeadTailProperties
  <2> QED
    BY <1>a, <2>2 DEF Messages
<1>3. /\ rest \in SocketRecords /\ rest.state = sockets[s].state /\ rest.told = sockets[s].told
      /\ rest.followed = sockets[s].followed /\ rest.authorizing = {}
  BY <1>1, <1>a, <1>2 DEF SocketRecords
<1>4. /\ rest.followed \subseteq Allowed /\ IsFiniteSet(rest.followed)
      /\ Cardinality(rest.followed) <= MaxSubscriptions
      /\ rest.state = "OPEN" => rest.followed = rest.told
  BY <1>1, <1>3 DEF SocketInv
<1>5. CASE message.type = "unsubscribe"
  <2>a. SUFFICES ASSUME NEW follows, follows = rest.followed \ {on},
                        NEW left, left = [rest EXCEPT !.followed = follows],
                        NEW new, new = SayOther(left, on)
                 PROVE  GatewayInv'
    OBVIOUS
  <2>1. Set(s, new)
    BY <1>5, <1>a, <2>a DEF Handle
  <2>2. IsFiniteSet(follows) /\ Cardinality(follows) <= Cardinality(rest.followed)
    BY <1>4, <2>a, FS_Subset
  <2>3. /\ left \in SocketRecords /\ left.state = rest.state /\ left.told = rest.told
        /\ left.followed = follows /\ left.authorizing = {}
    BY <1>3, <2>a DEF SocketRecords
  <2>4. /\ new \in SocketRecords /\ new.state = rest.state
        /\ new.followed = follows /\ new.authorizing = {}
        /\ rest.state = "OPEN" => new.told = rest.told \ {on}
    BY <2>3, <2>a DEF SayOther, SocketRecords
  <2>5. Cardinality(follows) <= MaxSubscriptions
    BY <1>4, <2>2, FS_CardinalityType, LimitsAreNatural
  <2> QED
    BY <1>1, <1>3, <1>4, <2>a, <2>1, <2>2, <2>4, <2>5, HandlerStep DEF OneAtATime
<1>6. CASE message.type # "unsubscribe" /\ on \in rest.followed
  <2>a. SUFFICES ASSUME NEW new, new = SaySubscribed(rest, on) PROVE GatewayInv'
    OBVIOUS
  <2>1. Set(s, new)
    BY <1>6, <1>a, <2>a DEF Handle
  <2>2. /\ new \in SocketRecords /\ new.state = rest.state
        /\ new.followed = rest.followed /\ new.authorizing = {}
        /\ rest.state = "OPEN" => new.told = rest.told \cup {on}
    BY <1>2, <1>3, <2>a DEF SaySubscribed, SocketRecords
  <2> QED
    BY <1>1, <1>3, <1>4, <1>6, <2>1, <2>2, HandlerStep DEF OneAtATime
<1>7. CASE /\ message.type # "unsubscribe" /\ on \notin rest.followed
           /\ Cardinality(rest.followed) >= MaxSubscriptions
  <2>a. SUFFICES ASSUME NEW new, new = SayOther(rest, on) PROVE GatewayInv'
    OBVIOUS
  <2>1. Set(s, new)
    BY <1>7, <1>a, <2>a DEF Handle
  <2>2. /\ new \in SocketRecords /\ new.state = rest.state
        /\ new.followed = rest.followed /\ new.authorizing = {}
        /\ rest.state = "OPEN" => new.told = rest.told \ {on}
    BY <1>2, <1>3, <2>a DEF SayOther, SocketRecords
  <2> QED
    BY <1>1, <1>3, <1>4, <1>7, <2>1, <2>2, HandlerStep DEF OneAtATime
<1>8. CASE /\ message.type # "unsubscribe" /\ on \notin rest.followed
           /\ ~(Cardinality(rest.followed) >= MaxSubscriptions)
  <2>a. SUFFICES ASSUME NEW asked, asked = rest.authorizing \cup {on},
                        NEW new, new = [rest EXCEPT !.authorizing = asked]
                 PROVE  GatewayInv'
    OBVIOUS
  <2>1. Set(s, new)
    BY <1>8, <1>a, <2>a DEF Handle
  <2>2. /\ new \in SocketRecords /\ new.state = rest.state /\ new.told = rest.told
        /\ new.followed = rest.followed /\ new.authorizing = {on}
    BY <1>2, <1>3, <2>a DEF SocketRecords
  <2>3. OneAtATime(new)
    BY <1>2, <1>4, <1>8, <2>2, FS_CardinalityType, LimitsAreNatural DEF OneAtATime
  <2> QED
    BY <1>1, <1>3, <1>4, <2>1, <2>2, <2>3, HandlerStep
<1> QED
  BY <1>5, <1>6, <1>7, <1>8

LEMMA AuthorizedInv ==
    ASSUME GatewayInv, NEW s \in Sockets, Authorized(s) PROVE GatewayInv'
<1>1. PICK on \in sockets[s].authorizing :
        LET done == [sockets[s] EXCEPT !.authorizing = @ \ {on}]
        IN  \/ Set(s, IF on \in Allowed
                      THEN SaySubscribed([done EXCEPT !.followed = @ \cup {on}], on)
                      ELSE SayOther(done, on))
            \/ Set(s, done)
  BY DEF Authorized
<1>2. /\ sockets[s] \in SocketRecords /\ SocketInv(sockets[s]) /\ held' = held
      /\ sockets[s].state \notin {"NONE", "AUTHENTICATING"}
  BY <1>1, SocketFields DEF SocketInv, Authorized
<1>3. /\ sockets[s].authorizing = {on} /\ on \in Productions /\ on \notin sockets[s].followed
      /\ Cardinality(sockets[s].followed) < MaxSubscriptions
  BY <1>1, <1>2 DEF SocketInv, OneAtATime
<1>a. SUFFICES ASSUME NEW asked, asked = sockets[s].authorizing \ {on},
                      NEW done, done = [sockets[s] EXCEPT !.authorizing = asked]
               PROVE  GatewayInv'
  OBVIOUS
<1>4. /\ done \in SocketRecords /\ done.state = sockets[s].state /\ done.told = sockets[s].told
      /\ done.followed = sockets[s].followed /\ done.authorizing = {}
  BY <1>2, <1>3, <1>a DEF SocketRecords
<1>5. /\ done.followed \subseteq Allowed /\ IsFiniteSet(done.followed)
      /\ Cardinality(done.followed) < MaxSubscriptions /\ Cardinality(done.followed) \in Nat
      /\ done.state = "OPEN" => done.followed = done.told
  BY <1>2, <1>3, <1>4, FS_CardinalityType DEF SocketInv
<1>6. CASE Set(s, done)
  BY <1>2, <1>4, <1>5, <1>6, LimitsAreNatural, HandlerStep DEF OneAtATime
<1>7. CASE on \in Allowed /\ Set(s, SaySubscribed([done EXCEPT !.followed = @ \cup {on}], on))
  <2>a. SUFFICES ASSUME NEW follows, follows = done.followed \cup {on},
                        NEW granted, granted = [done EXCEPT !.followed = follows],
                        NEW new, new = SaySubscribed(granted, on)
                 PROVE  GatewayInv'
    OBVIOUS
  <2>1. Set(s, new)
    BY <1>7, <2>a
  <2>2. IsFiniteSet(follows) /\ Cardinality(follows) = Cardinality(done.followed) + 1
    BY <1>3, <1>4, <1>5, <2>a, FS_AddElement
  <2>3. /\ granted \in SocketRecords /\ granted.state = done.state /\ granted.told = done.told
        /\ granted.followed = follows /\ granted.authorizing = {}
    BY <1>3, <1>4, <2>a DEF SocketRecords
  <2>4. /\ new \in SocketRecords /\ new.state = done.state
        /\ new.followed = follows /\ new.authorizing = {}
        /\ done.state = "OPEN" => new.told = done.told \cup {on}
    BY <1>3, <2>3, <2>a DEF SaySubscribed, SocketRecords
  <2>5. Cardinality(follows) <= MaxSubscriptions
    BY <1>5, <2>2, LimitsAreNatural
  <2> QED
    BY <1>2, <1>4, <1>5, <1>7, <2>a, <2>1, <2>2, <2>4, <2>5, HandlerStep DEF OneAtATime
<1>8. CASE on \notin Allowed /\ Set(s, SayOther(done, on))
  <2>a. SUFFICES ASSUME NEW new, new = SayOther(done, on) PROVE GatewayInv'
    OBVIOUS
  <2>2. /\ new \in SocketRecords /\ new.state = done.state
        /\ new.followed = done.followed /\ new.authorizing = {}
        /\ done.state = "OPEN" => new.told = done.told \ {on}
    BY <1>3, <1>4, <2>a DEF SayOther, SocketRecords
  <2>3. Set(s, new)
    BY <1>8, <2>a
  <2>4. new.state = "OPEN" => new.followed = new.told
    BY <1>3, <1>4, <1>5, <2>2
  <2>5. Cardinality(new.followed) <= MaxSubscriptions /\ OneAtATime(new)
    BY <1>5, <2>2, LimitsAreNatural DEF OneAtATime
  <2> QED
    BY <1>2, <1>4, <1>5, <2>2, <2>3, <2>4, <2>5, HandlerStep
<1> QED
  BY <1>1, <1>6, <1>7, <1>8, <1>a

LEMMA BeatInv == ASSUME GatewayInv, Beat PROVE GatewayInv'
<1>1. ASSUME NEW s \in Sockets
      PROVE  /\ sockets'[s] \in SocketRecords
             /\ sockets'[s].chain = sockets[s].chain
             /\ sockets'[s].authorizing = sockets[s].authorizing
             /\ sockets'[s].followed = sockets[s].followed
             /\ sockets'[s].told = sockets[s].told
             /\ IsCounted(sockets'[s]) <=> IsCounted(sockets[s])
             /\ sockets'[s].state \in {sockets[s].state, "CLOSING"}
  <2>1. sockets[s] \in SocketRecords
    BY SocketFields
  <2>2. CASE s \notin Connected
    BY <2>1, <2>2 DEF Beat
  <2>3. CASE s \in Connected /\ sockets[s].alive
    <3>1. sockets'[s] = [sockets[s] EXCEPT !.alive = FALSE]
      BY <2>3 DEF Beat
    <3> QED
      BY <2>1, <3>1 DEF SocketRecords, IsCounted
  <2>4. CASE s \in Connected /\ ~sockets[s].alive
    <3>1. /\ sockets'[s] = [sockets[s] EXCEPT !.state = "CLOSING"]
          /\ sockets[s].state \in {"OPEN", "CLOSING"}
      BY <2>4 DEF Beat, Connected
    <3> QED
      BY <2>1, <3>1 DEF SocketRecords, SocketStates, IsCounted
  <2> QED
    BY <2>2, <2>3, <2>4
<1>2. sockets' \in [Sockets -> SocketRecords] /\ held' = held
  BY <1>1 DEF Beat
<1> QED
  BY <1>1, <1>2, SweepStep

LEMMA CloseGatewayInv == ASSUME GatewayInv, CloseGateway PROVE GatewayInv'
<1>1. ASSUME NEW s \in Sockets
      PROVE  /\ sockets'[s] \in SocketRecords
             /\ sockets'[s].chain = sockets[s].chain
             /\ sockets'[s].authorizing = sockets[s].authorizing
             /\ sockets'[s].followed = sockets[s].followed
             /\ sockets'[s].told = sockets[s].told
             /\ IsCounted(sockets'[s]) <=> IsCounted(sockets[s])
             /\ sockets'[s].state \in {sockets[s].state, "CLOSING"}
  <2>1. sockets[s] \in SocketRecords
    BY SocketFields
  <2>2. CASE sockets[s].state = "OPEN"
    <3>1. sockets'[s] = [sockets[s] EXCEPT !.state = "CLOSING"]
      BY <2>2 DEF CloseGateway
    <3> QED
      BY <2>1, <2>2, <3>1 DEF SocketRecords, SocketStates, IsCounted
  <2>3. CASE sockets[s].state # "OPEN"
    BY <2>1, <2>3 DEF CloseGateway
  <2> QED
    BY <2>2, <2>3
<1>2. sockets' \in [Sockets -> SocketRecords] /\ held' = held
  BY <1>1 DEF CloseGateway
<1> QED
  BY <1>1, <1>2, SweepStep

-----------------------------------------------------------------------------
LEMMA GatewayInvSuffices == GatewayInv => GatewayKeepsItsLimits
  BY DEF GatewayInv, CountIsHeld, SocketInv, GatewayKeepsItsLimits, ConnectionsAreCounted,
         SubscriptionsAreGranted, AnswersTellWhoIsFollowed

LEMMA GatewayUnchanged == ASSUME GatewayInv, UNCHANGED gatewayVars PROVE GatewayInv'
  BY DEF GatewayInv, CountIsHeld, SocketInv, OneAtATime, Counted, Connected, gatewayVars

LEMMA GatewayStep == ASSUME GatewayInv, GatewayNext PROVE GatewayInv'
<1>1. ASSUME NEW s \in Sockets, RequestUpgrade(s) PROVE GatewayInv'
  BY <1>1, RequestUpgradeInv
<1>2. ASSUME NEW s \in Sockets, FinishUpgrade(s) PROVE GatewayInv'
  BY <1>2, FinishUpgradeInv
<1>3. ASSUME NEW s \in Sockets, NEW message \in Messages, Receive(s, message) PROVE GatewayInv'
  BY <1>3, ReceiveInv
<1>4. ASSUME NEW s \in Sockets, RefillToken(s) PROVE GatewayInv'
  BY <1>4, RefillTokenInv
<1>5. ASSUME NEW s \in Sockets, Handle(s) PROVE GatewayInv'
  BY <1>5, HandleInv
<1>6. ASSUME NEW s \in Sockets, Authorized(s) PROVE GatewayInv'
  BY <1>6, AuthorizedInv
<1>7. ASSUME NEW s \in Sockets, SocketCloses(s) PROVE GatewayInv'
  BY <1>7, SocketClosesInv
<1>8. ASSUME NEW s \in Sockets, Pong(s) PROVE GatewayInv'
  BY <1>8, PongInv
<1>9. CASE Beat
  BY <1>9, BeatInv
<1>10. CASE CloseGateway
  BY <1>10, CloseGatewayInv
<1> QED
  BY <1>1, <1>2, <1>3, <1>4, <1>5, <1>6, <1>7, <1>8, <1>9, <1>10 DEF GatewayNext

\* However many upgrades authenticate at once, however fast the subscribes come
\* and whoever closes, an address is charged for exactly what it holds, a
\* connection follows only what it was granted, and what it was last told of a
\* production is true (ws-gateway/src/index.ts), whatever the limits are.
THEOREM GatewayLimitsHold == EdgesSpec => []GatewayKeepsItsLimits
<1>1. EdgesInit => GatewayInv
  BY GatewayInitInv DEF EdgesInit
<1>2. GatewayInv /\ [EdgesNext]_edgeVars => GatewayInv'
  <2> SUFFICES ASSUME GatewayInv, [EdgesNext]_edgeVars PROVE GatewayInv'
    OBVIOUS
  <2>1. CASE GatewayNext
    BY <2>1, GatewayStep
  <2>2. CASE UNCHANGED gatewayVars
    BY <2>2, GatewayUnchanged
  <2> QED
    BY <2>1, <2>2 DEF EdgesNext, edgeVars
<1> QED
  BY <1>1, <1>2, GatewayInvSuffices, PTL DEF EdgesSpec

-----------------------------------------------------------------------------
(* The model guard.                                                        *)

IsHolding(record) == record.phase \in {"GRANTED", "RUNNING"}

\* How the race was decided, what the provider heard and what the caller is
\* told agree, in every phase of a call.
CallInv(record) ==
    /\ record \in CallRecords
    /\ record.phase \in {"IDLE", "WAITING", "GRANTED"} =>
          record.race = "OPEN" /\ ~record.told /\ ~record.working
    /\ record.phase = "DONE" /\ record.race = "OPEN" => ~record.told /\ ~record.working
    /\ record.race = "OPEN" => ~record.told
    /\ record.told <=> record.race \in {"TIMEOUT", "ABORTED"}
    /\ record.race = "ABORTED" => record.gaveUp
    /\ record.race = "ANSWER" /\ record.phase = "RUNNING" => record.answer \in Answers
    /\ record.phase = "DONE" =>
          /\ record.told => record.outcome \in {"TIMEOUT", "ABORTED"}
          /\ record.outcome = "TIMEOUT" => record.told
          /\ record.outcome = "ABORTED" => record.gaveUp
    /\ record.phase # "DONE" => record.outcome = "NONE"
    /\ record.outcome = "OK" => record.answer \in Answers /\ Judge(record.answer) = "OK"

SlotsInv == IsFiniteSet(Holding) /\ free \in Nat /\ free + Cardinality(Holding) = MaxConcurrent

QueueInv ==
    /\ waiting \in Seq(Calls)
    /\ \A c \in Calls : calls[c].phase = "WAITING" <=> \E i \in DOMAIN waiting : waiting[i] = c
    /\ \A i, j \in DOMAIN waiting : waiting[i] = waiting[j] => i = j
    /\ waiting # <<>> => free = 0

ModelInv ==
    /\ calls \in [Calls -> CallRecords]
    /\ \A c \in Calls : CallInv(calls[c])
    /\ SlotsInv /\ QueueInv

LEMMA HoldingMeans == Holding = {c \in Calls : IsHolding(calls[c])}
  BY DEF Holding, IsHolding

LEMMA ModelInitInv == ModelInit => ModelInv
<1> SUFFICES ASSUME ModelInit PROVE ModelInv
  OBVIOUS
<1>1. calls \in [Calls -> CallRecords]
  BY DEF ModelInit, CallRecords
<1>2. ASSUME NEW c \in Calls PROVE CallInv(calls[c]) /\ calls[c].phase = "IDLE"
  BY <1>1 DEF ModelInit, CallInv
<1>3. Holding = {}
  BY <1>2 DEF Holding
<1>4. SlotsInv
  BY <1>3, FS_EmptySet, MaxConcurrentIsPositive DEF SlotsInv, ModelInit
<1>5. QueueInv
  BY <1>2, EmptySeq DEF QueueInv, ModelInit
<1> QED
  BY <1>1, <1>2, <1>4, <1>5 DEF ModelInv

\* A step of one call that neither takes nor returns a slot, nor joins or
\* leaves the queue.
LEMMA CallStep ==
    ASSUME ModelInv, NEW c \in Calls, NEW new, CallInv(new), calls' = [calls EXCEPT ![c] = new],
           IsHolding(new) <=> IsHolding(calls[c]),
           new.phase = "WAITING" <=> calls[c].phase = "WAITING",
           UNCHANGED <<free, waiting>>
    PROVE  ModelInv'
<1>1. calls \in [Calls -> CallRecords] /\ new \in CallRecords
  BY DEF ModelInv, CallInv
<1>2. calls' \in [Calls -> CallRecords]
  BY <1>1
<1>3. ASSUME NEW d \in Calls PROVE CallInv(calls[d])'
  BY <1>1 DEF ModelInv, CallInv
<1>4. Holding' = {d \in Calls : IsHolding(calls'[d])}
  BY DEF Holding, IsHolding
<1>5. Holding' = Holding
  BY <1>1, <1>4, HoldingMeans
<1>6. SlotsInv'
  BY <1>5 DEF ModelInv, SlotsInv
<1>7. \A d \in Calls : calls'[d].phase = "WAITING" <=> calls[d].phase = "WAITING"
  BY <1>1
<1>8. QueueInv'
  BY <1>7 DEF ModelInv, QueueInv
<1> QED
  BY <1>2, <1>3, <1>6, <1>8 DEF ModelInv

\* A call that held a slot is done and gives it back.
LEMMA ReleaseStep ==
    ASSUME ModelInv, NEW c \in Calls, IsHolding(calls[c]),
           NEW done \in [Calls -> CallRecords], CallInv(done[c]), done[c].phase = "DONE",
           \A d \in Calls \ {c} : done[d] = calls[d],
           Release(done)
    PROVE  ModelInv'
<1>1. /\ calls \in [Calls -> CallRecords] /\ \A d \in Calls : CallInv(calls[d])
      /\ \A d \in Calls : CallInv(done[d])
  BY DEF ModelInv
<1>2. Holding' = {d \in Calls : IsHolding(calls'[d])}
  BY DEF Holding, IsHolding
<1>3. /\ IsFiniteSet(Holding) /\ Cardinality(Holding) \in Nat /\ free \in Nat
      /\ free + Cardinality(Holding) = MaxConcurrent /\ c \in Holding
  BY HoldingMeans, FS_CardinalityType DEF ModelInv, SlotsInv
<1>4. /\ IsFiniteSet(Holding \ {c}) /\ Cardinality(Holding \ {c}) = Cardinality(Holding) - 1
  BY <1>3, FS_RemoveElement
<1>5. CASE waiting = <<>>
  <2>1. free' = free + 1 /\ calls' = done /\ waiting' = waiting
    BY <1>5 DEF Release
  <2>2. Holding' = Holding \ {c}
    BY <1>2, <2>1, HoldingMeans DEF IsHolding
  <2>3. SlotsInv'
    BY <1>3, <1>4, <2>1, <2>2 DEF SlotsInv
  <2>4. \A d \in Calls : calls'[d].phase = "WAITING" <=> calls[d].phase = "WAITING"
    BY <2>1 DEF IsHolding
  <2>5. QueueInv'
    BY <1>5, <2>1, <2>4 DEF ModelInv, QueueInv
  <2>6. ASSUME NEW d \in Calls PROVE CallInv(calls[d])'
    BY <1>1, <2>1 DEF CallInv
  <2> QED
    BY <2>1, <2>3, <2>5, <2>6 DEF ModelInv
<1>6. CASE waiting # <<>>
  <2>a. SUFFICES ASSUME NEW h, h = Head(waiting),
                        NEW granted, granted = [done[h] EXCEPT !.phase = "GRANTED"]
                 PROVE  ModelInv'
    OBVIOUS
  <2>1. /\ waiting \in Seq(Calls) /\ h \in Calls /\ h = waiting[1] /\ 1 \in DOMAIN waiting
        /\ Len(waiting) \in Nat \ {0} /\ DOMAIN waiting = 1..Len(waiting)
    BY <1>6, <2>a, HeadTailProperties, LenProperties DEF ModelInv, QueueInv
  <2>2. calls[h].phase = "WAITING" /\ h # c /\ done[h] = calls[h]
    BY <2>1 DEF ModelInv, QueueInv, IsHolding
  <2>3. waiting' = Tail(waiting) /\ free' = free /\ calls' = [done EXCEPT ![h] = granted]
    BY <1>6, <2>a DEF Release
  <2>4. /\ granted \in CallRecords /\ CallInv(granted) /\ granted.phase = "GRANTED"
    <3>1. calls[h] \in CallRecords /\ CallInv(calls[h]) /\ granted = [calls[h] EXCEPT !.phase = "GRANTED"]
      BY <1>1, <2>a, <2>1, <2>2
    <3> QED
      BY <2>2, <3>1 DEF CallInv, CallRecords
  <2>5. calls' \in [Calls -> CallRecords]
    BY <2>1, <2>3, <2>4
  <2>6. ASSUME NEW d \in Calls PROVE CallInv(calls[d])'
    <3>1. CallInv(calls'[d])
      BY <1>1, <2>3, <2>4
    <3> QED
      BY <3>1 DEF CallInv
  <2>7. Holding' = (Holding \ {c}) \cup {h} /\ h \notin Holding \ {c}
    BY <1>2, <2>1, <2>2, <2>3, <2>4, HoldingMeans DEF IsHolding
  <2>8. /\ IsFiniteSet((Holding \ {c}) \cup {h})
        /\ Cardinality((Holding \ {c}) \cup {h}) = Cardinality(Holding)
    BY <1>3, <1>4, <2>7, FS_AddElement
  <2>9. SlotsInv'
    BY <1>3, <2>3, <2>7, <2>8 DEF SlotsInv
  <2>10. /\ waiting' \in Seq(Calls) /\ DOMAIN waiting' = 1..(Len(waiting) - 1)
         /\ \A i \in DOMAIN waiting' : waiting'[i] = waiting[i + 1]
    BY <1>6, <2>1, <2>3, HeadTailProperties, LenProperties
  <2>11. \A d \in Calls : calls'[d].phase = "WAITING" <=> calls[d].phase = "WAITING" /\ d # h
    BY <2>1, <2>2, <2>3, <2>4 DEF IsHolding
  <2>12. ASSUME NEW d \in Calls
         PROVE  calls'[d].phase = "WAITING" <=> \E i \in DOMAIN waiting' : waiting'[i] = d
    <3>1. ASSUME calls'[d].phase = "WAITING" PROVE \E i \in DOMAIN waiting' : waiting'[i] = d
      <4>1. PICK i \in DOMAIN waiting : waiting[i] = d
        BY <2>11, <3>1 DEF ModelInv, QueueInv
      <4>2. i # 1 /\ i \in 1..Len(waiting)
        BY <2>1, <2>11, <3>1, <4>1
      <4>3. i - 1 \in DOMAIN waiting' /\ waiting'[i - 1] = waiting[(i - 1) + 1] /\ (i - 1) + 1 = i
        BY <2>1, <2>10, <4>2
      <4> QED
        BY <4>1, <4>3
    <3>2. ASSUME NEW i \in DOMAIN waiting', waiting'[i] = d PROVE calls'[d].phase = "WAITING"
      <4>1. i + 1 \in DOMAIN waiting /\ waiting[i + 1] = d /\ i + 1 # 1
        BY <2>1, <2>10, <3>2
      <4>2. d # h /\ calls[d].phase = "WAITING"
        BY <2>1, <4>1 DEF ModelInv, QueueInv
      <4> QED
        BY <2>11, <4>2
    <3> QED
      BY <3>1, <3>2
  <2>13. ASSUME NEW i \in DOMAIN waiting', NEW j \in DOMAIN waiting', waiting'[i] = waiting'[j]
         PROVE  i = j
    <3>1. /\ i + 1 \in DOMAIN waiting /\ j + 1 \in DOMAIN waiting /\ waiting[i + 1] = waiting[j + 1]
          /\ i \in Nat /\ j \in Nat
      BY <2>1, <2>10, <2>13
    <3>2. i + 1 = j + 1
      BY <3>1 DEF ModelInv, QueueInv
    <3> QED
      BY <3>1, <3>2
  <2>14. free' = 0
    BY <1>6, <2>3 DEF ModelInv, QueueInv
  <2>15. QueueInv'
    BY <2>10, <2>12, <2>13, <2>14 DEF QueueInv
  <2> QED
    BY <2>5, <2>6, <2>9, <2>15 DEF ModelInv
<1> QED
  BY <1>5, <1>6

LEMMA CallRecord ==
    ASSUME ModelInv, NEW c \in Calls
    PROVE  CallInv(calls[c]) /\ calls[c] \in CallRecords /\ calls \in [Calls -> CallRecords]
  BY DEF ModelInv

LEMMA AcquireInv ==
    ASSUME ModelInv, NEW c \in Calls, Acquire(c) PROVE ModelInv'
<1>1. /\ calls \in [Calls -> CallRecords] /\ CallInv(calls[c]) /\ calls[c].phase = "IDLE"
      /\ free \in Nat /\ waiting \in Seq(Calls)
  BY CallRecord DEF Acquire, ModelInv, SlotsInv, QueueInv
<1>2. Holding' = {d \in Calls : IsHolding(calls'[d])}
  BY DEF Holding, IsHolding
<1>3. CASE free > 0
  <2>a. SUFFICES ASSUME NEW new, new = [calls[c] EXCEPT !.phase = "GRANTED"] PROVE ModelInv'
    OBVIOUS
  <2>1. free' = free - 1 /\ waiting' = waiting /\ calls' = [calls EXCEPT ![c] = new]
    BY <1>3, <2>a DEF Acquire
  <2>2. new \in CallRecords /\ CallInv(new) /\ new.phase = "GRANTED"
    BY <1>1, <2>a DEF CallInv, CallRecords
  <2>3. ASSUME NEW d \in Calls PROVE CallInv(calls[d])'
    <3>1. CallInv(calls'[d])
      BY <1>1, <2>1, <2>2, CallRecord
    <3> QED
      BY <3>1 DEF CallInv
  <2>4. Holding' = Holding \cup {c} /\ c \notin Holding
    BY <1>1, <1>2, <2>1, <2>2, HoldingMeans DEF IsHolding
  <2>5. SlotsInv'
    <3>1. IsFiniteSet(Holding) /\ Cardinality(Holding) \in Nat /\ free + Cardinality(Holding) = MaxConcurrent
      BY FS_CardinalityType DEF ModelInv, SlotsInv
    <3>2. IsFiniteSet(Holding') /\ Cardinality(Holding') = Cardinality(Holding) + 1
      BY <2>4, <3>1, FS_AddElement
    <3> QED
      BY <1>1, <1>3, <2>1, <3>1, <3>2 DEF SlotsInv
  <2>6. waiting = <<>>
    BY <1>3, <1>1 DEF ModelInv, QueueInv
  <2>7. \A d \in Calls : calls'[d].phase = "WAITING" <=> calls[d].phase = "WAITING"
    BY <1>1, <2>1, <2>2
  <2>8. QueueInv'
    BY <2>1, <2>6, <2>7 DEF ModelInv, QueueInv
  <2>9. calls' \in [Calls -> CallRecords]
    BY <1>1, <2>1, <2>2
  <2> QED
    BY <2>3, <2>5, <2>8, <2>9 DEF ModelInv
<1>4. CASE ~(free > 0)
  <2>a. SUFFICES ASSUME NEW new, new = [calls[c] EXCEPT !.phase = "WAITING"] PROVE ModelInv'
    OBVIOUS
  <2>1. free' = free /\ waiting' = Append(waiting, c) /\ calls' = [calls EXCEPT ![c] = new]
    BY <1>4, <2>a DEF Acquire
  <2>2. new \in CallRecords /\ CallInv(new) /\ new.phase = "WAITING"
    BY <1>1, <2>a DEF CallInv, CallRecords
  <2>3. ASSUME NEW d \in Calls PROVE CallInv(calls[d])'
    <3>1. CallInv(calls'[d])
      BY <1>1, <2>1, <2>2, CallRecord
    <3> QED
      BY <3>1 DEF CallInv
  <2>4. Holding' = Holding
    BY <1>1, <1>2, <2>1, <2>2, HoldingMeans DEF IsHolding
  <2>5. SlotsInv'
    BY <2>1, <2>4 DEF ModelInv, SlotsInv
  <2>6. /\ waiting' \in Seq(Calls) /\ Len(waiting) \in Nat
        /\ DOMAIN waiting = 1..Len(waiting) /\ DOMAIN waiting' = 1..(Len(waiting) + 1)
        /\ waiting'[Len(waiting) + 1] = c
        /\ \A i \in DOMAIN waiting : waiting'[i] = waiting[i]
    BY <1>1, <2>1, AppendProperties, LenProperties
  <2>7. \A i \in DOMAIN waiting : waiting[i] # c
    BY <1>1 DEF ModelInv, QueueInv
  <2>8. ASSUME NEW d \in Calls
        PROVE  calls'[d].phase = "WAITING" <=> \E i \in DOMAIN waiting' : waiting'[i] = d
    <3>1. CASE d = c
      BY <1>1, <2>1, <2>2, <2>6, <3>1
    <3>2. CASE d # c
      <4>1. calls'[d].phase = "WAITING" <=> \E i \in DOMAIN waiting : waiting[i] = d
        BY <1>1, <2>1, <3>2 DEF ModelInv, QueueInv
      <4>2. (\E i \in DOMAIN waiting : waiting[i] = d) <=> \E i \in DOMAIN waiting' : waiting'[i] = d
        BY <2>6, <3>2
      <4> QED
        BY <4>1, <4>2
    <3> QED
      BY <3>1, <3>2
  <2>9. \A i, j \in DOMAIN waiting' : waiting'[i] = waiting'[j] => i = j
    BY <2>6, <2>7 DEF ModelInv, QueueInv
  <2>10. QueueInv'
    BY <1>1, <1>4, <2>1, <2>6, <2>8, <2>9 DEF QueueInv
  <2>11. calls' \in [Calls -> CallRecords]
    BY <1>1, <2>1, <2>2
  <2> QED
    BY <2>3, <2>5, <2>10, <2>11 DEF ModelInv
<1> QED
  BY <1>3, <1>4

LEMMA StartInv ==
    ASSUME ModelInv, NEW c \in Calls, Start(c) PROVE ModelInv'
<1>1. /\ calls \in [Calls -> CallRecords] /\ CallInv(calls[c]) /\ calls[c].phase = "GRANTED"
      /\ calls[c] \in CallRecords
  BY CallRecord DEF Start
<1>2. CASE calls[c].gaveUp
  <2>a. SUFFICES ASSUME NEW done,
                        done = [calls EXCEPT ![c].phase = "DONE", ![c].outcome = "ABORTED"]
                 PROVE  ModelInv'
    OBVIOUS
  <2>1. Release(done)
    BY <1>2, <2>a DEF Start
  <2>2. /\ done \in [Calls -> CallRecords] /\ \A d \in Calls \ {c} : done[d] = calls[d]
        /\ done[c].phase = "DONE" /\ done[c].outcome = "ABORTED"
        /\ done[c].gaveUp = calls[c].gaveUp /\ done[c].race = calls[c].race
        /\ done[c].told = calls[c].told /\ done[c].working = calls[c].working
    BY <1>1, <2>a DEF CallRecords, ModelErrors
  <2>3. CallInv(done[c])
    BY <1>1, <1>2, <2>2 DEF CallInv
  <2> QED
    BY <1>1, <2>1, <2>2, <2>3, ReleaseStep DEF IsHolding
<1>3. CASE ~calls[c].gaveUp
  <2>a. SUFFICES ASSUME NEW new, new = [calls[c] EXCEPT !.phase = "RUNNING", !.working = TRUE]
                 PROVE  ModelInv'
    OBVIOUS
  <2>1. calls' = [calls EXCEPT ![c] = new] /\ UNCHANGED <<free, waiting>>
    BY <1>1, <1>3, <2>a DEF Start
  <2>2. CallInv(new) /\ new.phase = "RUNNING"
    BY <1>1, <2>a DEF CallInv, CallRecords
  <2> QED
    BY <1>1, <2>1, <2>2, CallStep DEF IsHolding
<1> QED
  BY <1>2, <1>3

LEMMA TimeoutInv ==
    ASSUME ModelInv, NEW c \in Calls, Timeout(c) PROVE ModelInv'
<1>a. SUFFICES ASSUME NEW new, new = [calls[c] EXCEPT !.race = "TIMEOUT", !.told = TRUE]
               PROVE  ModelInv'
  OBVIOUS
<1>1. calls' = [calls EXCEPT ![c] = new] /\ UNCHANGED <<free, waiting>>
  BY <1>a DEF Timeout, Interrupt
<1>2. CallInv(new) /\ new.phase = calls[c].phase
  BY <1>a, CallRecord DEF CallInv, CallRecords, Timeout
<1> QED
  BY <1>1, <1>2, CallStep DEF IsHolding

LEMMA GiveUpInv ==
    ASSUME ModelInv, NEW c \in Calls, GiveUp(c) PROVE ModelInv'
<1>a. SUFFICES ASSUME NEW new,
                      new = IF calls[c].phase = "RUNNING" /\ calls[c].race = "OPEN"
                            THEN [Interrupt(calls[c], "ABORTED") EXCEPT !.gaveUp = TRUE]
                            ELSE [calls[c] EXCEPT !.gaveUp = TRUE]
               PROVE  ModelInv'
  OBVIOUS
<1>1. calls' = [calls EXCEPT ![c] = new] /\ UNCHANGED <<free, waiting>>
  BY <1>a DEF GiveUp
<1>2. CallInv(new) /\ new.phase = calls[c].phase
  <2>1. CASE calls[c].phase = "RUNNING" /\ calls[c].race = "OPEN"
    BY <1>a, <2>1, CallRecord DEF CallInv, CallRecords, Interrupt
  <2>2. CASE ~(calls[c].phase = "RUNNING" /\ calls[c].race = "OPEN")
    BY <1>a, <2>2, CallRecord DEF CallInv, CallRecords, GiveUp
  <2> QED
    BY <2>1, <2>2
<1> QED
  BY <1>1, <1>2, CallStep DEF IsHolding

LEMMA ProviderAnswersInv ==
    ASSUME ModelInv, NEW c \in Calls, ProviderAnswers(c) PROVE ModelInv'
<1>1. PICK answer \in Answers :
        calls' = [calls EXCEPT ![c] =
          IF calls[c].race = "OPEN"
          THEN [@ EXCEPT !.working = FALSE, !.race = "ANSWER", !.answer = answer]
          ELSE [@ EXCEPT !.working = FALSE]]
  BY DEF ProviderAnswers
<1>a. SUFFICES ASSUME NEW new,
                      new = IF calls[c].race = "OPEN"
                            THEN [calls[c] EXCEPT !.working = FALSE, !.race = "ANSWER", !.answer = answer]
                            ELSE [calls[c] EXCEPT !.working = FALSE]
               PROVE  ModelInv'
  OBVIOUS
<1>2. calls' = [calls EXCEPT ![c] = new] /\ UNCHANGED <<free, waiting>>
  BY <1>1, <1>a DEF ProviderAnswers
<1>3. CallInv(new) /\ new.phase = calls[c].phase
  <2>1. CASE calls[c].race = "OPEN"
    BY <1>a, <2>1, CallRecord DEF CallInv, CallRecords, ProviderAnswers
  <2>2. CASE calls[c].race # "OPEN"
    BY <1>a, <2>2, CallRecord DEF CallInv, CallRecords, ProviderAnswers
  <2> QED
    BY <2>1, <2>2
<1> QED
  BY <1>2, <1>3, CallStep DEF IsHolding

LEMMA ProviderFailsInv ==
    ASSUME ModelInv, NEW c \in Calls, ProviderFails(c) PROVE ModelInv'
<1>a. SUFFICES ASSUME NEW race, race = (IF calls[c].race = "OPEN" THEN "FAILED" ELSE calls[c].race),
                      NEW new, new = [calls[c] EXCEPT !.working = FALSE, !.race = race]
               PROVE  ModelInv'
  OBVIOUS
<1>1. calls' = [calls EXCEPT ![c] = new] /\ UNCHANGED <<free, waiting>>
  BY <1>a DEF ProviderFails
<1>2. CallInv(new) /\ new.phase = calls[c].phase
  BY <1>a, CallRecord DEF CallInv, CallRecords, ProviderFails
<1> QED
  BY <1>1, <1>2, CallStep DEF IsHolding

LEMMA JudgedOutcome ==
    ASSUME NEW answer \in Answers
    PROVE  Judge(answer) \in {"OK", "MALFORMED_OUTPUT", "UNGROUNDED_OUTPUT"}
  BY AnswersHaveAKind DEF Judge, Grounded

LEMMA SettleInv ==
    ASSUME ModelInv, NEW c \in Calls, Settle(c) PROVE ModelInv'
<1>1. /\ calls \in [Calls -> CallRecords] /\ CallInv(calls[c]) /\ calls[c].phase = "RUNNING"
      /\ calls[c].race # "OPEN" /\ calls[c] \in CallRecords
  BY CallRecord DEF Settle
<1>a. SUFFICES ASSUME NEW outcome,
                      outcome = CASE calls[c].race = "ANSWER" -> Judge(calls[c].answer)
                                  [] calls[c].race = "FAILED" -> "PROVIDER_ERROR"
                                  [] OTHER -> calls[c].race,
                      NEW answer, answer = (IF outcome = "OK" THEN calls[c].answer ELSE NoAnswer),
                      NEW done,
                      done = [calls EXCEPT ![c].phase = "DONE", ![c].outcome = outcome,
                                           ![c].answer = answer]
               PROVE  ModelInv'
  OBVIOUS
<1>2. Release(done)
  BY <1>a DEF Settle
<1>3. /\ calls[c].race = "ANSWER" => outcome \in {"OK", "MALFORMED_OUTPUT", "UNGROUNDED_OUTPUT"}
      /\ calls[c].race = "FAILED" => outcome = "PROVIDER_ERROR"
      /\ calls[c].race \in {"TIMEOUT", "ABORTED"} => outcome = calls[c].race
      /\ calls[c].race \in {"ANSWER", "FAILED", "TIMEOUT", "ABORTED"}
  BY <1>1, <1>a, JudgedOutcome DEF CallInv, CallRecords
<1>4. answer \in Answers \cup {NoAnswer} /\ outcome \in ModelErrors \cup {"NONE", "OK"}
  BY <1>1, <1>3, <1>a DEF CallRecords, ModelErrors
<1>5. /\ done \in [Calls -> CallRecords] /\ \A d \in Calls \ {c} : done[d] = calls[d]
      /\ done[c].phase = "DONE" /\ done[c].outcome = outcome
      /\ done[c].gaveUp = calls[c].gaveUp /\ done[c].race = calls[c].race
      /\ done[c].told = calls[c].told /\ done[c].working = calls[c].working
      /\ done[c].answer = answer
  BY <1>1, <1>4, <1>a DEF CallRecords
<1>b. outcome = "OK" => answer \in Answers /\ Judge(answer) = "OK"
  BY <1>1, <1>3, <1>a DEF CallInv
<1>6. CallInv(done[c])
  BY <1>1, <1>3, <1>5, <1>b DEF CallInv
<1> QED
  BY <1>1, <1>2, <1>5, <1>6, ReleaseStep DEF IsHolding

LEMMA ModelStep == ASSUME ModelInv, ModelNext PROVE ModelInv'
  BY AcquireInv, StartInv, TimeoutInv, GiveUpInv, ProviderAnswersInv, ProviderFailsInv, SettleInv
  DEF ModelNext

LEMMA ModelUnchanged == ASSUME ModelInv, UNCHANGED modelVars PROVE ModelInv'
  BY DEF ModelInv, CallInv, SlotsInv, QueueInv, Holding, modelVars

LEMMA SizeOfARange == ASSUME NEW n \in Nat PROVE IsFiniteSet(1..n) /\ Cardinality(1..n) = n
<1>1. 1 \in Int /\ n \in Int
  OBVIOUS
<1>2. IsFiniteSet(1..n) /\ Cardinality(1..n) = IF 1 > n THEN 0 ELSE n - 1 + 1
  BY <1>1, FS_Interval
<1> QED
  BY <1>2

IsOnto(f, n, T) == f \in [1..n -> T] /\ \A u \in T : \E i \in 1..n : f[i] = u

MetOnce(f, n, t) == \E i \in 1..n : f[i] = t /\ \A j \in 1..n : f[j] = t => j = i

\* A map onto a set of as many elements meets each of them once.
LEMMA OntoAsManyMeetsOnce ==
    ASSUME NEW n \in Nat, NEW T, Cardinality(T) = n,
           NEW f, IsOnto(f, n, T), NEW t \in T
    PROVE  MetOnce(f, n, t)
<1>1. IsFiniteSet(1..n) /\ Cardinality(1..n) = n
  BY SizeOfARange
<1>2. f \in Surjection(1..n, T)
  BY DEF IsOnto, Surjection
<1>3. f \in Injection(1..n, T)
  BY <1>1, <1>2, FS_SurjSameCardinalityImpliesInj
<1>4. \A i, j \in 1..n : f[i] = f[j] => i = j
  BY <1>3 DEF Injection, IsInjective
<1> QED
  BY <1>4 DEF IsOnto, MetOnce

\* What the two checks of a ranking say together.
LEMMA GroundedRankingsArePermutations ==
    ASSUME NEW ranked, NEW n \in Nat, n = Len(ranked), DOMAIN ranked = 1..n,
           AssertGroundedDays(ranked), AssertGroundedRanks(ranked)
    PROVE  /\ \A d \in Days : \E i \in DOMAIN ranked :
                 ranked[i].day = d /\ \A j \in DOMAIN ranked : ranked[j].day = d => j = i
           /\ \A k \in 1..Cardinality(Days) : \E i \in DOMAIN ranked :
                 ranked[i].rank = k /\ \A j \in DOMAIN ranked : ranked[j].rank = k => j = i
<1>1. /\ Cardinality(Days) = n /\ Days = {ranked[i].day : i \in 1..n}
      /\ 1..n = {ranked[i].rank : i \in 1..n}
  BY DEF AssertGroundedDays, AssertGroundedRanks
<1>2. ASSUME NEW d \in Days
      PROVE  \E i \in DOMAIN ranked :
               ranked[i].day = d /\ \A j \in DOMAIN ranked : ranked[j].day = d => j = i
  <2>a. SUFFICES ASSUME NEW f, f = [i \in 1..n |-> ranked[i].day]
                 PROVE  \E i \in DOMAIN ranked :
                          ranked[i].day = d /\ \A j \in DOMAIN ranked : ranked[j].day = d => j = i
    OBVIOUS
  <2>1. \A i \in 1..n : f[i] = ranked[i].day /\ ranked[i].day \in Days
    BY <1>1, <2>a
  <2>2. f \in [1..n -> Days]
    BY <2>1, <2>a
  <2>3. \A u \in Days : \E i \in 1..n : f[i] = u
    BY <1>1, <2>1
  <2>4. IsOnto(f, n, Days)
    BY <2>2, <2>3 DEF IsOnto
  <2>5. MetOnce(f, n, d)
    BY <1>1, <2>4, OntoAsManyMeetsOnce
  <2> QED
    BY <2>1, <2>5 DEF MetOnce
<1>3. ASSUME NEW k \in 1..n
      PROVE  \E i \in DOMAIN ranked :
               ranked[i].rank = k /\ \A j \in DOMAIN ranked : ranked[j].rank = k => j = i
  <2>a. SUFFICES ASSUME NEW f, f = [i \in 1..n |-> ranked[i].rank]
                 PROVE  \E i \in DOMAIN ranked :
                          ranked[i].rank = k /\ \A j \in DOMAIN ranked : ranked[j].rank = k => j = i
    OBVIOUS
  <2>1. \A i \in 1..n : f[i] = ranked[i].rank /\ ranked[i].rank \in 1..n
    BY <1>1, <2>a
  <2>2. f \in [1..n -> 1..n]
    BY <2>1, <2>a
  <2>3. \A u \in 1..n : \E i \in 1..n : f[i] = u
    BY <1>1, <2>1
  <2>4. Cardinality(1..n) = n
    BY SizeOfARange
  <2>5. IsOnto(f, n, 1..n)
    BY <2>2, <2>3 DEF IsOnto
  <2>6. MetOnce(f, n, k)
    BY <2>4, <2>5, OntoAsManyMeetsOnce
  <2> QED
    BY <2>1, <2>6 DEF MetOnce
<1>4. 1..Cardinality(Days) = 1..n
  BY <1>1
<1>5. \A k \in 1..Cardinality(Days) : k \in 1..n
  BY <1>4
<1> QED
  BY <1>2, <1>3, <1>5

LEMMA AcceptedMeansGrounded ==
    ASSUME NEW answer \in Answers, Judge(answer) = "OK", answer.kind = "RANKING"
    PROVE  AssertGroundedDays(answer.ranked) /\ AssertGroundedRanks(answer.ranked)
  BY DEF Judge

LEMMA ModelInvSuffices == ModelInv => GuardedCallsAreHonest
<1> SUFFICES ASSUME ModelInv PROVE GuardedCallsAreHonest
  OBVIOUS
<1>1. SlotsAreConserved /\ InterruptionsAreNamed
  BY DEF ModelInv, CallInv, SlotsInv, QueueInv, SlotsAreConserved, InterruptionsAreNamed
<1>2. ASSUME NEW c \in Calls, calls[c].outcome = "OK", calls[c].answer.kind = "RANKING",
             NEW ranked, ranked = calls[c].answer.ranked
      PROVE  /\ \A d \in Days : \E i \in DOMAIN ranked :
                   ranked[i].day = d /\ \A j \in DOMAIN ranked : ranked[j].day = d => j = i
             /\ \A k \in 1..Cardinality(Days) : \E i \in DOMAIN ranked :
                   ranked[i].rank = k /\ \A j \in DOMAIN ranked : ranked[j].rank = k => j = i
  <2>1. calls[c].answer \in Answers /\ Judge(calls[c].answer) = "OK"
    BY <1>2 DEF ModelInv, CallInv
  <2>2. Len(ranked) \in Nat /\ DOMAIN ranked = 1..Len(ranked)
    BY <1>2, <2>1, AnswersHaveAKind
  <2>3. AssertGroundedDays(ranked) /\ AssertGroundedRanks(ranked)
    BY <1>2, <2>1, AcceptedMeansGrounded
  <2> QED
    BY <2>2, <2>3, GroundedRankingsArePermutations
<1>3. AcceptedRankingsArePermutations
  BY <1>2 DEF AcceptedRankingsArePermutations
<1> QED
  BY <1>1, <1>3 DEF GuardedCallsAreHonest

\* However many calls contend, time out, give up or fail, and whatever the
\* provider answers: no slot is lost or made, the queue holds whoever waits,
\* nobody is told that it timed out or was aborted who was not, and a ranking
\* that is accepted ranks every candidate day once and gives every rank once
\* (createSemaphore, withBudget, assertGroundedRanking of model.ts).
THEOREM GuardedCallsStayHonest == EdgesSpec => []GuardedCallsAreHonest
<1>1. EdgesInit => ModelInv
  BY ModelInitInv DEF EdgesInit
<1>2. ModelInv /\ [EdgesNext]_edgeVars => ModelInv'
  <2> SUFFICES ASSUME ModelInv, [EdgesNext]_edgeVars PROVE ModelInv'
    OBVIOUS
  <2>1. CASE ModelNext
    BY <2>1, ModelStep
  <2>2. CASE UNCHANGED modelVars
    BY <2>2, ModelUnchanged
  <2> QED
    BY <2>1, <2>2 DEF EdgesNext, edgeVars
<1> QED
  BY <1>1, <1>2, ModelInvSuffices, PTL DEF EdgesSpec

-----------------------------------------------------------------------------
(* The quotas.  What a limiter is about is said of plain values (the tracked *)
(* windows, what was served by the end of each second, ...), once for every  *)
(* limiter of the system.                                                    *)

\* What a key was let through by the end of each second, those before the first
\* and after the last included.
Total(sv, last) ==
    [s \in Int |-> IF s < 0 THEN 0 ELSE sv[IF s < last THEN s ELSE last]]

Runs(on, w, t, W) == on /\ t - w.startedAt < W

\* What holds of a key: nothing was served after now; a running window counts
\* what was served since it began, and little was served in the time of a
\* window before it; when none runs, little was served in the last window's
\* time and nothing in this second.
TotalOK(B, t) ==
    /\ B \in [Int -> Nat]
    /\ \A r, s \in Int : r <= s => B[r] <= B[s]
    /\ \A s \in Int : s >= t => B[s] = B[t]

KeyOK(on, w, B, rt, none, t, L, W) ==
    /\ TotalOK(B, t)
    /\ on => w.startedAt \in 0..t /\ w.count \in 1..L
    /\ Runs(on, w, t, W) =>
         B[t] - B[w.startedAt - 1] = w.count /\ B[w.startedAt - 1] - B[w.startedAt - W] <= L
    /\ ~Runs(on, w, t, W) => B[t] = B[t - 1] /\ B[t] - B[t - W] <= L
    /\ \A s \in Int : B[s + W - 1] - B[s - 1] <= 2 * L
    /\ rt # none => /\ rt \in Int /\ rt <= t + W /\ rt - W >= 0 /\ B[rt - 1] - B[rt - W - 1] >= L
                    /\ on => w.startedAt + W = rt

\* One more is served now.
Serves(B, B2, t) ==
    /\ B2 \in [Int -> Nat]
    /\ \A s \in Int : B2[s] = IF s < t THEN B[s] ELSE B[s] + 1

LEMMA ServedTotal ==
    ASSUME NEW B, NEW B2, NEW t \in Int, TotalOK(B, t), Serves(B, B2, t)
    PROVE  TotalOK(B2, t)
<1>1. \A r, s \in Int : r <= s => B2[r] <= B2[s]
  <2> SUFFICES ASSUME NEW r \in Int, NEW s \in Int, r <= s PROVE B2[r] <= B2[s]
    OBVIOUS
  <2>1. B[r] \in Nat /\ B[s] \in Nat /\ B[r] <= B[s]
    BY DEF TotalOK
  <2> QED
    BY <2>1 DEF Serves
<1>2. \A s \in Int : s >= t => B2[s] = B2[t]
  BY DEF Serves, TotalOK
<1> QED
  BY <1>1, <1>2 DEF TotalOK, Serves

LEMMA KeyTicks ==
    ASSUME NEW on \in BOOLEAN, NEW w, NEW B, NEW rt, NEW none, NEW t \in Nat, NEW L \in Nat, NEW W \in Nat \ {0},
           KeyOK(on, w, B, rt, none, t, L, W)
    PROVE  KeyOK(on, w, B, rt, none, t + 1, L, W)
<1>1. TotalOK(B, t)
  BY DEF KeyOK
<1>2. TotalOK(B, t + 1)
  BY <1>1 DEF TotalOK
<1>3. B \in [Int -> Nat] /\ B[t + 1] = B[t] /\ \A r, s \in Int : r <= s => B[r] <= B[s]
  BY <1>1 DEF TotalOK
<1>4. on => w.startedAt \in 0..(t + 1) /\ w.count \in 1..L /\ w.startedAt \in 0..t
  BY DEF KeyOK
<1>5. CASE Runs(on, w, t, W)
  <2>1. B[t] - B[w.startedAt - 1] = w.count /\ B[w.startedAt - 1] - B[w.startedAt - W] <= L
    BY <1>5 DEF KeyOK
  <2>2. CASE Runs(on, w, t + 1, W)
    BY <1>2, <1>3, <1>4, <2>1, <2>2 DEF KeyOK
  <2>3. CASE ~Runs(on, w, t + 1, W)
    <3>1. on /\ w.startedAt = t + 1 - W
      BY <1>4, <1>5, <2>3 DEF Runs
    <3>2. B[t + 1 - W] >= B[w.startedAt - 1] /\ B[t + 1 - W] \in Nat /\ B[w.startedAt - 1] \in Nat /\ B[t] \in Nat
      BY <1>3, <1>4, <3>1
    <3>3. B[t + 1] = B[t + 1 - 1] /\ B[t + 1] - B[t + 1 - W] <= L
      BY <1>3, <1>4, <2>1, <3>1, <3>2
    <3> QED
      BY <1>2, <1>4, <2>3, <3>3 DEF KeyOK
  <2> QED
    BY <2>2, <2>3
<1>6. CASE ~Runs(on, w, t, W)
  <2>1. B[t] = B[t - 1] /\ B[t] - B[t - W] <= L
    BY <1>6 DEF KeyOK
  <2>2. ~Runs(on, w, t + 1, W)
    BY <1>4, <1>6 DEF Runs
  <2>3. B[t + 1 - W] >= B[t - W] /\ B[t + 1 - W] \in Nat /\ B[t - W] \in Nat /\ B[t] \in Nat
    BY <1>3
  <2>4. B[t + 1] = B[t + 1 - 1] /\ B[t + 1] - B[t + 1 - W] <= L
    BY <1>3, <2>1, <2>3
  <2> QED
    BY <1>2, <1>4, <2>2, <2>4 DEF KeyOK
<1> QED
  BY <1>5, <1>6

LEMMA KeyIsForgotten ==
    ASSUME NEW on \in BOOLEAN, NEW w, NEW w2, NEW B, NEW rt, NEW none, NEW t \in Nat, NEW L \in Nat, NEW W \in Nat \ {0},
           KeyOK(on, w, B, rt, none, t, L, W), ~Runs(on, w, t, W)
    PROVE  KeyOK(FALSE, w2, B, rt, none, t, L, W)
BY DEF KeyOK, Runs

\* A window begins, where none runs.
LEMMA KeyBegins ==
    ASSUME NEW on \in BOOLEAN, NEW w, NEW B, NEW B2, NEW rt, NEW none, NEW t \in Nat, NEW L \in Nat \ {0},
           NEW W \in Nat \ {0}, KeyOK(on, w, B, rt, none, t, L, W), ~Runs(on, w, t, W),
           Serves(B, B2, t), NEW w2, w2.startedAt = t, w2.count = 1
    PROVE  KeyOK(TRUE, w2, B2, none, none, t, L, W)
<1>1. TotalOK(B, t) /\ TotalOK(B2, t)
  BY ServedTotal DEF KeyOK
<1>2. B \in [Int -> Nat] /\ (\A r, s \in Int : r <= s => B[r] <= B[s]) /\ (\A s \in Int : s >= t => B[s] = B[t])
  BY <1>1 DEF TotalOK
<1>3. B[t] = B[t - 1] /\ B[t] - B[t - W] <= L
  BY DEF KeyOK
<1>4. B2[t] = B[t] + 1 /\ B2[t - 1] = B[t - 1] /\ B2[t - W] = B[t - W]
  BY DEF Serves
<1>5. B[t] \in Nat /\ B[t - 1] \in Nat /\ B[t - W] \in Nat
  BY <1>2
<1>6. B2[t] - B2[w2.startedAt - 1] = w2.count /\ B2[w2.startedAt - 1] - B2[w2.startedAt - W] <= L
  BY <1>3, <1>4, <1>5
<1>7. ASSUME NEW s \in Int PROVE B2[s + W - 1] - B2[s - 1] <= 2 * L
  <2>1. B[s + W - 1] - B[s - 1] <= 2 * L /\ B[s + W - 1] \in Nat /\ B[s - 1] \in Nat
    BY <1>2 DEF KeyOK
  <2>2. B2[s + W - 1] \in {B[s + W - 1], B[s + W - 1] + 1} /\ B2[s - 1] \in {B[s - 1], B[s - 1] + 1}
    BY DEF Serves
  <2>3. CASE s > t \/ s + W - 1 < t
    <3>1. s + W - 1 < t => B2[s + W - 1] = B[s + W - 1]
      BY DEF Serves
    <3>2. s > t => B2[s - 1] = B[s - 1] + 1 /\ B2[s + W - 1] = B[s + W - 1] + 1
      BY DEF Serves
    <3> QED
      BY <2>1, <2>2, <2>3, <3>1, <3>2
  <2>4. CASE s <= t /\ s + W - 1 >= t
    <3>1. B[s + W - 1] = B[t] /\ B[s - 1] >= B[t - W]
      BY <1>2, <2>4
    <3> QED
      BY <1>3, <1>5, <2>1, <2>2, <3>1
  <2> QED
    BY <2>3, <2>4
<1>8. w2.startedAt \in 0..t /\ w2.count \in 1..L
  OBVIOUS
<1>9. Runs(TRUE, w2, t, W)
  BY DEF Runs
<1> QED
  BY <1>1, <1>6, <1>7, <1>8, <1>9 DEF KeyOK

LEMMA KeyIsCounted ==
    ASSUME NEW w, NEW B, NEW B2, NEW rt, NEW none, NEW t \in Nat, NEW L \in Nat \ {0},
           NEW W \in Nat \ {0}, KeyOK(TRUE, w, B, rt, none, t, L, W), Runs(TRUE, w, t, W), w.count < L,
           Serves(B, B2, t), NEW w2, w2.startedAt = w.startedAt, w2.count = w.count + 1
    PROVE  KeyOK(TRUE, w2, B2, none, none, t, L, W)
<1>1. TotalOK(B, t) /\ TotalOK(B2, t)
  BY ServedTotal DEF KeyOK
<1>2. B \in [Int -> Nat] /\ (\A r, s \in Int : r <= s => B[r] <= B[s]) /\ (\A s \in Int : s >= t => B[s] = B[t])
  BY <1>1 DEF TotalOK
<1>a. PICK st, c : st = w.startedAt /\ c = w.count
  OBVIOUS
<1>3. st \in 0..t /\ c \in 1..L /\ t - st < W /\ c < L
  BY <1>a DEF KeyOK, Runs
<1>4. B[t] - B[st - 1] = c /\ B[st - 1] - B[st - W] <= L
  BY <1>a DEF KeyOK
<1>5. B2[t] = B[t] + 1 /\ B2[st - 1] = B[st - 1] /\ B2[st - W] = B[st - W]
  BY <1>3 DEF Serves
<1>6. B[t] \in Nat /\ B[st - 1] \in Nat /\ B[st - W] \in Nat
  BY <1>2, <1>3
<1>7. B2[t] - B2[st - 1] = c + 1 /\ B2[st - 1] - B2[st - W] <= L
  BY <1>3, <1>4, <1>5, <1>6
<1>8. ASSUME NEW s \in Int PROVE B2[s + W - 1] - B2[s - 1] <= 2 * L
  <2>1. B[s + W - 1] - B[s - 1] <= 2 * L /\ B[s + W - 1] \in Nat /\ B[s - 1] \in Nat
    BY <1>2 DEF KeyOK
  <2>2. B2[s + W - 1] \in {B[s + W - 1], B[s + W - 1] + 1} /\ B2[s - 1] \in {B[s - 1], B[s - 1] + 1}
    BY DEF Serves
  <2>3. CASE s > t \/ s + W - 1 < t
    <3>1. s + W - 1 < t => B2[s + W - 1] = B[s + W - 1]
      BY DEF Serves
    <3>2. s > t => B2[s - 1] = B[s - 1] + 1 /\ B2[s + W - 1] = B[s + W - 1] + 1
      BY DEF Serves
    <3> QED
      BY <2>1, <2>2, <2>3, <3>1, <3>2
  <2>4. CASE s <= t /\ s + W - 1 >= t /\ s >= st
    <3>1. B[s + W - 1] = B[t] /\ B[s - 1] >= B[st - 1]
      BY <1>2, <1>3, <2>4
    <3> QED
      BY <1>3, <1>4, <1>6, <2>1, <2>2, <3>1
  <2>5. CASE s <= t /\ s + W - 1 >= t /\ s < st
    <3>1. B[s + W - 1] = B[t] /\ B[s - 1] >= B[st - W]
      BY <1>2, <1>3, <2>5
    <3> QED
      BY <1>3, <1>4, <1>6, <2>1, <2>2, <3>1
  <2> QED
    BY <1>3, <2>3, <2>4, <2>5
<1>9. w2.startedAt \in 0..t /\ w2.count \in 1..L /\ Runs(TRUE, w2, t, W)
  BY <1>3, <1>a DEF Runs
<1>10. B2[t] - B2[w2.startedAt - 1] = w2.count /\ B2[w2.startedAt - 1] - B2[w2.startedAt - W] <= L
  BY <1>7, <1>a
<1> QED
  BY <1>1, <1>8, <1>9, <1>10 DEF KeyOK

LEMMA KeyIsRefused ==
    ASSUME NEW w, NEW B, NEW rt, NEW none, NEW t \in Nat, NEW L \in Nat \ {0},
           NEW W \in Nat \ {0}, KeyOK(TRUE, w, B, rt, none, t, L, W), Runs(TRUE, w, t, W), w.count >= L,
           NEW rt2 \in Int, rt2 - W = w.startedAt
    PROVE  KeyOK(TRUE, w, B, rt2, none, t, L, W)
<1>1. TotalOK(B, t)
  BY DEF KeyOK
<1>2. B \in [Int -> Nat] /\ (\A r, s \in Int : r <= s => B[r] <= B[s]) /\ (\A s \in Int : s >= t => B[s] = B[t])
  BY <1>1 DEF TotalOK
<1>3. w.startedAt \in 0..t /\ w.count \in 1..L /\ t - w.startedAt < W /\ B[t] - B[w.startedAt - 1] = w.count
  BY DEF KeyOK, Runs
<1>4. rt2 \in Int /\ rt2 <= t + W /\ rt2 - W = w.startedAt /\ w.startedAt + W = rt2 /\ rt2 - 1 >= t
  BY <1>3
<1>5. B[rt2 - 1] = B[t]
  BY <1>2, <1>4
<1>6. B[rt2 - 1] - B[rt2 - W - 1] >= L
  BY <1>3, <1>4, <1>5
<1>7. rt2 # none => /\ rt2 \in Int /\ rt2 <= t + W /\ rt2 - W >= 0 /\ B[rt2 - 1] - B[rt2 - W - 1] >= L
                    /\ w.startedAt + W = rt2
  BY <1>3, <1>4, <1>6
<1>8. /\ w.startedAt \in 0..t /\ w.count \in 1..L
      /\ B[t] - B[w.startedAt - 1] = w.count /\ B[w.startedAt - 1] - B[w.startedAt - W] <= L
      /\ \A s \in Int : B[s + W - 1] - B[s - 1] <= 2 * L
  BY DEF KeyOK
<1> QED
  BY <1>1, <1>7, <1>8 DEF KeyOK

-----------------------------------------------------------------------------
(* The keys of a limiter.                                                  *)

Windows == [startedAt : Int, count : Int]

LimitsOK(K, ws, sv, rt, none, t, L, W, S, last) ==
    /\ t \in 0..last
    /\ ws \in [DOMAIN ws -> Windows] /\ DOMAIN ws \subseteq K /\ IsFiniteSet(DOMAIN ws)
    /\ sv \in [K -> [0..last -> Nat]]
    /\ rt \in [K -> Int]
    /\ \A k \in K : KeyOK(k \in DOMAIN ws, ws[k], Total(sv[k], last), rt[k], none, t, L, W)
    /\ Cardinality(DOMAIN ws) > S + 1 =>
         \A j, k \in DOMAIN ws : ws[j].startedAt < ws[k].startedAt + W

\* The keys that are tracked after the sweep.
KeptOf(ws, t, W, S) ==
    IF Cardinality(DOMAIN ws) > S THEN {k \in DOMAIN ws : t - ws[k].startedAt < W} ELSE DOMAIN ws

\* What a hit does to its key: it begins a window, is refused, or is counted.
HitOf(key, kept, ws, sv, rt, ws2, sv2, rt2, none, t, L, W, last) ==
    \/ /\ ~Runs(key \in kept, ws[key], t, W)
       /\ ws2[key].startedAt = t /\ ws2[key].count = 1
       /\ sv2[key] = [s \in 0..last |-> IF s < t THEN sv[key][s] ELSE sv[key][s] + 1] /\ rt2[key] = none
    \/ /\ Runs(key \in kept, ws[key], t, W) /\ ws[key].count >= L
       /\ ws2[key] = ws[key] /\ sv2[key] = sv[key] /\ rt2[key] = ws[key].startedAt + W
    \/ /\ Runs(key \in kept, ws[key], t, W) /\ ws[key].count < L
       /\ ws2[key].startedAt = ws[key].startedAt /\ ws2[key].count = ws[key].count + 1
       /\ sv2[key] = [s \in 0..last |-> IF s < t THEN sv[key][s] ELSE sv[key][s] + 1] /\ rt2[key] = none

Hits(K, key, ws, sv, rt, ws2, sv2, rt2, none, t, L, W, S, last) ==
    /\ ws2 \in [KeptOf(ws, t, W, S) \cup {key} -> Windows]
    /\ sv2 \in [K -> [0..last -> Nat]] /\ rt2 \in [K -> Int]
    /\ \A k \in K \ {key} : ws2[k] = ws[k] \/ k \notin KeptOf(ws, t, W, S)
    /\ \A k \in K \ {key} : sv2[k] = sv[k] /\ rt2[k] = rt[k]
    /\ HitOf(key, KeptOf(ws, t, W, S), ws, sv, rt, ws2, sv2, rt2, none, t, L, W, last)

LEMMA TotalsServe ==
    ASSUME NEW last \in Nat, NEW t \in 0..last, NEW f \in [0..last -> Nat], NEW g,
           g = [s \in 0..last |-> IF s < t THEN f[s] ELSE f[s] + 1]
    PROVE  Serves(Total(f, last), Total(g, last), t)
<1>1. \A s \in 0..last : f[s] \in Nat /\ g[s] = IF s < t THEN f[s] ELSE f[s] + 1
  OBVIOUS
<1>2. ASSUME NEW s \in Int
      PROVE  Total(g, last)[s] \in Nat /\ Total(g, last)[s] = IF s < t THEN Total(f, last)[s] ELSE Total(f, last)[s] + 1
  <2>1. PICK at : at = IF s < last THEN s ELSE last
    OBVIOUS
  <2>2. CASE s < 0
    BY <2>2 DEF Total
  <2>3. CASE s >= 0
    <3>1. at \in 0..last /\ (at < t <=> s < t)
      BY <2>1, <2>3
    <3>2. Total(g, last)[s] = g[at] /\ Total(f, last)[s] = f[at]
      BY <2>1, <2>3 DEF Total
    <3> QED
      BY <1>1, <3>1, <3>2
  <2> QED
    BY <2>2, <2>3
<1>3. Total(g, last) = [s \in Int |-> Total(g, last)[s]]
  BY DEF Total
<1> QED
  BY <1>2, <1>3 DEF Serves

LEMMA NothingServed ==
    ASSUME NEW last \in Nat, NEW f, f = [s \in 0..last |-> 0]
    PROVE  f \in [0..last -> Nat] /\ Total(f, last) = [s \in Int |-> 0]
<1>1. f \in [0..last -> Nat] /\ \A s \in 0..last : f[s] = 0
  OBVIOUS
<1>2. ASSUME NEW s \in Int PROVE (IF s < 0 THEN 0 ELSE f[IF s < last THEN s ELSE last]) = 0
  <2>1. s >= 0 => (IF s < last THEN s ELSE last) \in 0..last
    OBVIOUS
  <2> QED
    BY <1>1, <2>1
<1> QED
  BY <1>1, <1>2 DEF Total

LEMMA FirstLimits ==
    ASSUME NEW K, NEW none \in Int, NEW L \in Nat \ {0}, NEW W \in Nat \ {0}, NEW S \in Nat, NEW last \in Nat,
           NEW ws, ws = [k \in {} |-> 0], NEW sv, sv = [k \in K |-> [s \in 0..last |-> 0]],
           NEW rt, rt = [k \in K |-> none]
    PROVE  LimitsOK(K, ws, sv, rt, none, 0, L, W, S, last)
<1>1. DOMAIN ws = {} /\ ws \in [DOMAIN ws -> Windows] /\ IsFiniteSet(DOMAIN ws)
  BY FS_EmptySet
<1>2. Cardinality(DOMAIN ws) = 0
  BY <1>1, FS_EmptySet
<1>3. PICK f : f = [s \in 0..last |-> 0]
  OBVIOUS
<1>4. f \in [0..last -> Nat] /\ Total(f, last) = [s \in Int |-> 0]
  BY <1>3, NothingServed
<1>5. ASSUME NEW k \in K PROVE KeyOK(k \in DOMAIN ws, ws[k], Total(sv[k], last), rt[k], none, 0, L, W)
  <2>1. sv[k] = f /\ rt[k] = none /\ k \notin DOMAIN ws
    BY <1>1, <1>3
  <2>2. PICK B : B = Total(f, last)
    OBVIOUS
  <2>3. B \in [Int -> Nat] /\ \A s \in Int : B[s] = 0
    BY <1>4, <2>2
  <2>4. KeyOK(FALSE, ws[k], B, none, none, 0, L, W)
    BY <2>3 DEF KeyOK, TotalOK, Runs
  <2>5. (k \in DOMAIN ws) = FALSE
    BY <2>1
  <2> QED
    BY <2>1, <2>2, <2>4, <2>5
<1>6. sv \in [K -> [0..last -> Nat]] /\ rt \in [K -> Int]
  BY <1>3, <1>4
<1> QED
  BY <1>1, <1>2, <1>5, <1>6 DEF LimitsOK

LEMMA LimitsTick ==
    ASSUME NEW K, NEW none \in Int, NEW L \in Nat \ {0}, NEW W \in Nat \ {0}, NEW S \in Nat, NEW last \in Nat,
           NEW ws, NEW sv, NEW rt, NEW t, LimitsOK(K, ws, sv, rt, none, t, L, W, S, last), t < last
    PROVE  LimitsOK(K, ws, sv, rt, none, t + 1, L, W, S, last)
<1>1. t \in Nat /\ t + 1 \in 0..last
  BY DEF LimitsOK
<1>2. ASSUME NEW k \in K PROVE KeyOK(k \in DOMAIN ws, ws[k], Total(sv[k], last), rt[k], none, t + 1, L, W)
  <2>1. PICK on, w, B, r : on = (k \in DOMAIN ws) /\ w = ws[k] /\ B = Total(sv[k], last) /\ r = rt[k]
    OBVIOUS
  <2>2. KeyOK(on, w, B, r, none, t, L, W) /\ on \in BOOLEAN
    BY <2>1 DEF LimitsOK
  <2>3. KeyOK(on, w, B, r, none, t + 1, L, W)
    BY <1>1, <2>2, KeyTicks
  <2> QED
    BY <2>1, <2>3
<1> QED
  BY <1>1, <1>2 DEF LimitsOK

LEMMA HitKeyIsOK ==
    ASSUME NEW key, NEW kept, NEW none \in Int, NEW L \in Nat \ {0}, NEW W \in Nat \ {0}, NEW last \in Nat,
           NEW t \in 0..last, NEW ws, NEW sv, NEW rt, NEW ws2, NEW sv2, NEW rt2,
           sv[key] \in [0..last -> Nat],
           KeyOK(key \in DOMAIN ws, ws[key], Total(sv[key], last), rt[key], none, t, L, W),
           key \in kept => key \in DOMAIN ws,
           Runs(key \in DOMAIN ws, ws[key], t, W) => key \in kept,
           HitOf(key, kept, ws, sv, rt, ws2, sv2, rt2, none, t, L, W, last)
    PROVE  KeyOK(TRUE, ws2[key], Total(sv2[key], last), rt2[key], none, t, L, W)
<1>1. PICK on, w, B, r : on = (key \in DOMAIN ws) /\ w = ws[key] /\ B = Total(sv[key], last) /\ r = rt[key]
  OBVIOUS
<1>2. PICK w2, B2, r2 : w2 = ws2[key] /\ B2 = Total(sv2[key], last) /\ r2 = rt2[key]
  OBVIOUS
<1>3. KeyOK(on, w, B, r, none, t, L, W) /\ on \in BOOLEAN /\ t \in Nat
  BY <1>1
<1>4. Runs(key \in kept, w, t, W) <=> Runs(on, w, t, W)
  BY <1>1 DEF Runs
<1>5. CASE /\ ~Runs(key \in kept, ws[key], t, W)
           /\ ws2[key].startedAt = t /\ ws2[key].count = 1
           /\ sv2[key] = [s \in 0..last |-> IF s < t THEN sv[key][s] ELSE sv[key][s] + 1] /\ rt2[key] = none
  <2>1. Serves(B, B2, t)
    <3>1. PICK f, g : f = sv[key] /\ g = sv2[key]
      OBVIOUS
    <3>2. f \in [0..last -> Nat] /\ g = [s \in 0..last |-> IF s < t THEN f[s] ELSE f[s] + 1]
      BY <1>5, <3>1
    <3>3. Serves(Total(f, last), Total(g, last), t)
      BY <3>2, TotalsServe
    <3> QED
      BY <1>1, <1>2, <3>1, <3>3
  <2>2. ~Runs(on, w, t, W) /\ w2.startedAt = t /\ w2.count = 1
    BY <1>1, <1>2, <1>4, <1>5
  <2>3. KeyOK(TRUE, w2, B2, none, none, t, L, W)
    BY <1>3, <2>1, <2>2, KeyBegins
  <2> QED
    BY <1>2, <1>5, <2>3
<1>6. CASE /\ Runs(key \in kept, ws[key], t, W) /\ ws[key].count >= L
           /\ ws2[key] = ws[key] /\ sv2[key] = sv[key] /\ rt2[key] = ws[key].startedAt + W
  <2>1. on = TRUE /\ Runs(TRUE, w, t, W) /\ w.count >= L /\ w2 = w /\ B2 = B /\ r2 = w.startedAt + W
    BY <1>1, <1>2, <1>4, <1>6 DEF Runs
  <2>2. KeyOK(TRUE, w, B, r, none, t, L, W)
    BY <1>3, <2>1
  <2>3. w.startedAt \in 0..t
    BY <2>2 DEF KeyOK
  <2>4. r2 \in Int /\ r2 - W = w.startedAt
    BY <1>3, <2>1, <2>3
  <2>5. Runs(TRUE, w, t, W) /\ w.count >= L
    BY <2>1
  <2>6. KeyOK(TRUE, w, B, r2, none, t, L, W)
    BY <1>3, <2>2, <2>4, <2>5, KeyIsRefused
  <2> QED
    BY <1>2, <2>1, <2>6
<1>7. CASE /\ Runs(key \in kept, ws[key], t, W) /\ ws[key].count < L
           /\ ws2[key].startedAt = ws[key].startedAt /\ ws2[key].count = ws[key].count + 1
           /\ sv2[key] = [s \in 0..last |-> IF s < t THEN sv[key][s] ELSE sv[key][s] + 1] /\ rt2[key] = none
  <2>1. Serves(B, B2, t)
    <3>1. PICK f, g : f = sv[key] /\ g = sv2[key]
      OBVIOUS
    <3>2. f \in [0..last -> Nat] /\ g = [s \in 0..last |-> IF s < t THEN f[s] ELSE f[s] + 1]
      BY <1>7, <3>1
    <3>3. Serves(Total(f, last), Total(g, last), t)
      BY <3>2, TotalsServe
    <3> QED
      BY <1>1, <1>2, <3>1, <3>3
  <2>2. /\ on = TRUE /\ Runs(TRUE, w, t, W) /\ w.count < L
        /\ w2.startedAt = w.startedAt /\ w2.count = w.count + 1
    BY <1>1, <1>2, <1>4, <1>7 DEF Runs
  <2>3. KeyOK(TRUE, w, B, r, none, t, L, W)
    BY <1>3, <2>2
  <2>4. KeyOK(TRUE, w2, B2, none, none, t, L, W)
    BY <1>3, <2>1, <2>2, <2>3, KeyIsCounted
  <2> QED
    BY <1>2, <1>7, <2>4
<1> QED
  BY <1>5, <1>6, <1>7 DEF HitOf

LEMMA LimitsHit ==
    ASSUME NEW K, NEW none \in Int, NEW L \in Nat \ {0}, NEW W \in Nat \ {0}, NEW S \in Nat, NEW last \in Nat,
           NEW ws, NEW sv, NEW rt, NEW t, LimitsOK(K, ws, sv, rt, none, t, L, W, S, last),
           NEW key \in K, NEW ws2, NEW sv2, NEW rt2, Hits(K, key, ws, sv, rt, ws2, sv2, rt2, none, t, L, W, S, last)
    PROVE  LimitsOK(K, ws2, sv2, rt2, none, t, L, W, S, last)
<1>1. PICK kept : kept = KeptOf(ws, t, W, S)
  OBVIOUS
<1>2. kept \subseteq DOMAIN ws /\ \A k \in DOMAIN ws : k \in kept \/ ~Runs(TRUE, ws[k], t, W)
  BY <1>1 DEF KeptOf, Runs
<1>3. t \in 0..last /\ t \in Nat /\ DOMAIN ws \subseteq K /\ IsFiniteSet(DOMAIN ws) /\ sv \in [K -> [0..last -> Nat]]
  BY DEF LimitsOK
<1>4. /\ ws2 \in [kept \cup {key} -> Windows] /\ sv2 \in [K -> [0..last -> Nat]] /\ rt2 \in [K -> Int]
      /\ \A k \in K \ {key} : (ws2[k] = ws[k] \/ k \notin kept) /\ sv2[k] = sv[k] /\ rt2[k] = rt[k]
      /\ HitOf(key, kept, ws, sv, rt, ws2, sv2, rt2, none, t, L, W, last)
  BY <1>1 DEF Hits
<1>5. DOMAIN ws2 = kept \cup {key} /\ DOMAIN ws2 \subseteq K /\ IsFiniteSet(DOMAIN ws2)
  BY <1>2, <1>3, <1>4, FS_Subset, FS_AddElement
<1>6. ASSUME NEW k \in K PROVE KeyOK(k \in DOMAIN ws2, ws2[k], Total(sv2[k], last), rt2[k], none, t, L, W)
  <2>0. KeyOK(k \in DOMAIN ws, ws[k], Total(sv[k], last), rt[k], none, t, L, W)
    BY DEF LimitsOK
  <2>1. CASE k = key
    <3>1. KeyOK(key \in DOMAIN ws, ws[key], Total(sv[key], last), rt[key], none, t, L, W)
      BY <2>0, <2>1
    <3>2. sv[key] \in [0..last -> Nat]
      BY <1>3
    <3>3. Runs(key \in DOMAIN ws, ws[key], t, W) => key \in kept
      BY <1>2 DEF Runs
    <3>4. key \in kept => key \in DOMAIN ws
      BY <1>2
    <3>5. KeyOK(TRUE, ws2[key], Total(sv2[key], last), rt2[key], none, t, L, W)
      BY <1>3, <1>4, <3>1, <3>2, <3>3, <3>4, HitKeyIsOK
    <3>6. (k \in DOMAIN ws2) = TRUE
      BY <1>5, <2>1
    <3> QED
      BY <2>1, <3>5, <3>6
  <2>2. CASE k # key /\ k \in kept
    <3>1. (k \in DOMAIN ws2) = (k \in DOMAIN ws) /\ ws2[k] = ws[k] /\ sv2[k] = sv[k] /\ rt2[k] = rt[k]
      BY <1>2, <1>4, <1>5, <2>2
    <3> QED
      BY <2>0, <3>1
  <2>3. CASE k # key /\ k \notin kept
    <3>1. PICK on, w, w2, B, r : on = (k \in DOMAIN ws) /\ w = ws[k] /\ w2 = ws2[k] /\ B = Total(sv[k], last) /\ r = rt[k]
      OBVIOUS
    <3>2. (k \in DOMAIN ws2) = FALSE /\ sv2[k] = sv[k] /\ rt2[k] = rt[k]
      BY <1>4, <1>5, <2>3
    <3>3. on => ~Runs(TRUE, w, t, W)
      BY <1>2, <2>3, <3>1
    <3>a. ~Runs(on, w, t, W)
      BY <3>3 DEF Runs
    <3>b. on \in BOOLEAN
      BY <3>1
    <3>c. KeyOK(on, w, B, r, none, t, L, W)
      BY <2>0, <3>1
    <3>4. KeyOK(FALSE, w2, B, r, none, t, L, W)
      BY <1>3, <3>a, <3>b, <3>c, KeyIsForgotten
    <3> QED
      BY <3>1, <3>2, <3>4
  <2> QED
    BY <2>1, <2>2, <2>3
<1>7. ASSUME Cardinality(DOMAIN ws2) > S + 1, NEW j \in DOMAIN ws2, NEW k \in DOMAIN ws2
      PROVE  ws2[j].startedAt < ws2[k].startedAt + W
  <2>1. Cardinality(DOMAIN ws) \in Nat /\ Cardinality(kept) \in Nat /\ Cardinality(kept) <= Cardinality(DOMAIN ws) /\ IsFiniteSet(kept)
    BY <1>2, <1>3, FS_Subset, FS_CardinalityType
  <2>2. Cardinality(DOMAIN ws2) <= Cardinality(kept) + 1
    BY <1>5, <2>1, FS_AddElement
  <2>3. Cardinality(DOMAIN ws) > S
    BY <1>7, <2>1, <2>2, FS_CardinalityType, <1>5
  <2>4. kept = {x \in DOMAIN ws : t - ws[x].startedAt < W}
    BY <1>1, <2>3 DEF KeptOf
  <2>5. ASSUME NEW x \in DOMAIN ws2 PROVE ws2[x].startedAt \in 0..t /\ t - ws2[x].startedAt < W
    <3>1. x \in K /\ (x \in DOMAIN ws2) = TRUE
      BY <1>5
    <3>2. KeyOK(TRUE, ws2[x], Total(sv2[x], last), rt2[x], none, t, L, W)
      BY <1>6, <3>1
    <3>3. ws2[x].startedAt \in 0..t
      BY <3>2 DEF KeyOK
    <3>4. CASE x # key
      BY <1>4, <1>5, <2>4, <3>1, <3>3, <3>4
    <3>5. CASE x = key
      <4>1. \/ ws2[key].startedAt = t
            \/ Runs(key \in kept, ws[key], t, W) /\ ws2[key].startedAt = ws[key].startedAt
        BY <1>4 DEF HitOf
      <4>2. CASE ws2[key].startedAt = t
        BY <1>3, <3>3, <3>5, <4>2
      <4>3. CASE Runs(key \in kept, ws[key], t, W) /\ ws2[key].startedAt = ws[key].startedAt
        BY <3>3, <3>5, <4>3 DEF Runs
      <4> QED
        BY <3>5, <4>1, <4>2, <4>3
    <3> QED
      BY <3>3, <3>4, <3>5
  <2> QED
    BY <1>3, <2>5
<1> QED
  BY <1>3, <1>4, <1>5, <1>6, <1>7 DEF LimitsOK

-----------------------------------------------------------------------------
\* A hit, as RateLimit and its two instances in ApiRequests define it.
SweptOf(ws, t, W, S) ==
    IF Cardinality(DOMAIN ws) > S
    THEN [k \in {k \in DOMAIN ws : ~(t - ws[k].startedAt >= W)} |-> ws[k]] ELSE ws

BeginsOf(swept, key, t, W) == key \notin DOMAIN swept \/ t - swept[key].startedAt >= W

OverOf(swept, key, t, L, W) == ~BeginsOf(swept, key, t, W) /\ swept[key].count >= L

LetThroughOf(key, sv, rt, sv2, rt2, none, t, last) ==
    /\ sv2 = [sv EXCEPT ![key] = [s \in 0..last |-> IF s < t THEN sv[key][s] ELSE sv[key][s] + 1]]
    /\ rt2 = [rt EXCEPT ![key] = none]

TakenOf(swept, key, ws2, sv, rt, sv2, rt2, none, t, L, W, last) ==
    IF BeginsOf(swept, key, t, W)
    THEN /\ ws2 = [k \in DOMAIN swept \cup {key} |-> IF k = key THEN [startedAt |-> t, count |-> 1] ELSE swept[k]]
         /\ LetThroughOf(key, sv, rt, sv2, rt2, none, t, last)
    ELSE IF OverOf(swept, key, t, L, W)
    THEN ws2 = swept /\ rt2 = [rt EXCEPT ![key] = swept[key].startedAt + W] /\ sv2 = sv
    ELSE /\ ws2 = [swept EXCEPT ![key].count = @ + 1]
         /\ LetThroughOf(key, sv, rt, sv2, rt2, none, t, last)

LEMMA HitsAKey ==
    ASSUME NEW K, NEW none \in Int, NEW L \in Nat \ {0}, NEW W \in Nat \ {0}, NEW S \in Nat, NEW last \in Nat,
           NEW ws, NEW sv, NEW rt, NEW t, LimitsOK(K, ws, sv, rt, none, t, L, W, S, last),
           NEW key \in K, NEW ws2, NEW sv2, NEW rt2,
           TakenOf(SweptOf(ws, t, W, S), key, ws2, sv, rt, sv2, rt2, none, t, L, W, last)
    PROVE  Hits(K, key, ws, sv, rt, ws2, sv2, rt2, none, t, L, W, S, last)
<1>1. PICK kept, swept : kept = KeptOf(ws, t, W, S) /\ swept = SweptOf(ws, t, W, S)
  OBVIOUS
<1>2. /\ t \in 0..last /\ t \in Int /\ ws \in [DOMAIN ws -> Windows]
      /\ sv \in [K -> [0..last -> Nat]] /\ rt \in [K -> Int]
  BY DEF LimitsOK
<1>3. \A k \in DOMAIN ws : t - ws[k].startedAt >= W <=> ~(t - ws[k].startedAt < W)
  BY <1>2 DEF Windows
<1>4. DOMAIN swept = kept /\ swept \in [kept -> Windows] /\ (\A k \in kept : swept[k] = ws[k]) /\ kept \subseteq DOMAIN ws
  BY <1>1, <1>2, <1>3 DEF SweptOf, KeptOf
<1>5. key \in kept => ws[key].startedAt \in Int /\ ws[key].count \in Int
  BY <1>2, <1>4 DEF Windows
<1>6. BeginsOf(swept, key, t, W) <=> ~Runs(key \in kept, ws[key], t, W)
  BY <1>3, <1>4 DEF BeginsOf, Runs
<1>7. OverOf(swept, key, t, L, W) <=> Runs(key \in kept, ws[key], t, W) /\ ws[key].count >= L
  BY <1>4, <1>6 DEF OverOf, Runs
<1>a. TakenOf(swept, key, ws2, sv, rt, sv2, rt2, none, t, L, W, last)
  BY <1>1
<1>8. LetThroughOf(key, sv, rt, sv2, rt2, none, t, last) =>
        /\ sv2 \in [K -> [0..last -> Nat]] /\ rt2 \in [K -> Int]
        /\ sv2[key] = [s \in 0..last |-> IF s < t THEN sv[key][s] ELSE sv[key][s] + 1]
        /\ rt2[key] = none
        /\ \A k \in K \ {key} : sv2[k] = sv[k] /\ rt2[k] = rt[k]
  <2> SUFFICES ASSUME LetThroughOf(key, sv, rt, sv2, rt2, none, t, last), NEW g,
                      g = [s \in 0..last |-> IF s < t THEN sv[key][s] ELSE sv[key][s] + 1]
               PROVE  /\ sv2 \in [K -> [0..last -> Nat]] /\ rt2 \in [K -> Int]
                      /\ sv2[key] = g /\ rt2[key] = none
                      /\ \A k \in K \ {key} : sv2[k] = sv[k] /\ rt2[k] = rt[k]
    OBVIOUS
  <2>1. g \in [0..last -> Nat]
    BY <1>2
  <2>2. sv2 = [sv EXCEPT ![key] = g] /\ rt2 = [rt EXCEPT ![key] = none]
    BY DEF LetThroughOf
  <2> QED
    BY <1>2, <2>1, <2>2
<1>9. CASE BeginsOf(swept, key, t, W)
  <2>1. PICK w : w = [startedAt |-> t, count |-> 1]
    OBVIOUS
  <2>2. /\ ws2 = [k \in DOMAIN swept \cup {key} |-> IF k = key THEN w ELSE swept[k]]
        /\ LetThroughOf(key, sv, rt, sv2, rt2, none, t, last)
    BY <1>9, <1>a, <2>1 DEF TakenOf
  <2>3. w \in Windows /\ w.startedAt = t /\ w.count = 1
    BY <1>2, <2>1 DEF Windows
  <2>4. /\ ws2 \in [kept \cup {key} -> Windows] /\ ws2[key] = w
        /\ \A k \in kept \ {key} : ws2[k] = ws[k]
    BY <1>4, <2>2, <2>3
  <2>5. HitOf(key, kept, ws, sv, rt, ws2, sv2, rt2, none, t, L, W, last)
    BY <1>6, <1>8, <1>9, <2>2, <2>3, <2>4 DEF HitOf
  <2> QED
    BY <1>1, <1>8, <2>2, <2>4, <2>5 DEF Hits
<1>10. CASE ~BeginsOf(swept, key, t, W) /\ OverOf(swept, key, t, L, W)
  <2>1. ws2 = swept /\ sv2 = sv /\ rt2 = [rt EXCEPT ![key] = swept[key].startedAt + W]
    BY <1>10, <1>a DEF TakenOf
  <2>2. key \in kept
    BY <1>6, <1>10 DEF Runs
  <2>3. swept[key] = ws[key] /\ ws[key].startedAt + W \in Int /\ kept \cup {key} = kept
    BY <1>2, <1>4, <1>5, <2>2
  <2>4. /\ rt2 \in [K -> Int] /\ rt2[key] = ws[key].startedAt + W
        /\ \A k \in K \ {key} : rt2[k] = rt[k]
    BY <1>2, <2>1, <2>3
  <2>5. HitOf(key, kept, ws, sv, rt, ws2, sv2, rt2, none, t, L, W, last)
    BY <1>7, <1>10, <2>1, <2>3, <2>4 DEF HitOf
  <2> QED
    BY <1>1, <1>2, <1>4, <2>1, <2>3, <2>4, <2>5 DEF Hits
<1>11. CASE ~BeginsOf(swept, key, t, W) /\ ~OverOf(swept, key, t, L, W)
  <2>1. ws2 = [swept EXCEPT ![key].count = @ + 1] /\ LetThroughOf(key, sv, rt, sv2, rt2, none, t, last)
    BY <1>11, <1>a DEF TakenOf
  <2>2. key \in kept
    BY <1>6, <1>11 DEF Runs
  <2>3. swept[key] = ws[key] /\ ws[key] \in Windows /\ kept \cup {key} = kept /\ ~(ws[key].count >= L)
    BY <1>4, <1>6, <1>7, <1>11, <2>2
  <2>4. PICK w : w = [ws[key] EXCEPT !.count = @ + 1]
    OBVIOUS
  <2>5. w \in Windows /\ w.startedAt = ws[key].startedAt /\ w.count = ws[key].count + 1
    BY <2>3, <2>4 DEF Windows
  <2>6. ws2 = [swept EXCEPT ![key] = w]
    BY <2>1, <2>3, <2>4
  <2>7. /\ ws2 \in [kept \cup {key} -> Windows] /\ ws2[key] = w
        /\ \A k \in kept \ {key} : ws2[k] = ws[k]
    BY <1>4, <2>2, <2>3, <2>5, <2>6
  <2>8. ws[key].count < L
    BY <1>2, <1>5, <2>2, <2>3
  <2>9. HitOf(key, kept, ws, sv, rt, ws2, sv2, rt2, none, t, L, W, last)
    BY <1>6, <1>8, <1>11, <2>1, <2>5, <2>7, <2>8 DEF HitOf
  <2> QED
    BY <1>1, <1>8, <2>1, <2>7, <2>9 DEF Hits
<1> QED
  BY <1>9, <1>10, <1>11

\* What a limiter promises, as QuotaIsKept says it.
ServedOf(sv, key, s, last) == IF s < 0 THEN 0 ELSE sv[key][IF s < last THEN s ELSE last]

KeptPromise(K, ws, sv, rt, none, t, L, W, S, last) ==
    /\ \A key \in DOMAIN ws :
         ~(t - ws[key].startedAt >= W) =>
           /\ ws[key].count <= L
           /\ ServedOf(sv, key, t, last) - ServedOf(sv, key, ws[key].startedAt - 1, last) = ws[key].count
    /\ \A key \in K : \A s \in 0..last :
         ServedOf(sv, key, s + W - 1, last) - ServedOf(sv, key, s - 1, last) <= 2 * L
    /\ \A key \in {key \in K : rt[key] # none} :
         /\ ServedOf(sv, key, rt[key] - 1, last) - ServedOf(sv, key, rt[key] - W - 1, last) >= L
         /\ t >= rt[key] => key \notin DOMAIN ws \/ t - ws[key].startedAt >= W
    /\ Cardinality(DOMAIN ws) > S + 1 =>
         \A j, k \in DOMAIN ws : ws[j].startedAt < ws[k].startedAt + W

LEMMA LimitsKeepTheirPromise ==
    ASSUME NEW K, NEW none \in Int, NEW L \in Nat \ {0}, NEW W \in Nat \ {0}, NEW S \in Nat, NEW last \in Nat,
           NEW ws, NEW sv, NEW rt, NEW t, LimitsOK(K, ws, sv, rt, none, t, L, W, S, last)
    PROVE  KeptPromise(K, ws, sv, rt, none, t, L, W, S, last)
<1>1. t \in 0..last /\ DOMAIN ws \subseteq K /\ rt \in [K -> Int]
  BY DEF LimitsOK
<1>2. ASSUME NEW key \in K
      PROVE  /\ key \in DOMAIN ws /\ ~(t - ws[key].startedAt >= W) =>
                   /\ ws[key].count <= L
                   /\ ServedOf(sv, key, t, last) - ServedOf(sv, key, ws[key].startedAt - 1, last) = ws[key].count
             /\ \A s \in 0..last : ServedOf(sv, key, s + W - 1, last) - ServedOf(sv, key, s - 1, last) <= 2 * L
             /\ rt[key] # none =>
                   /\ ServedOf(sv, key, rt[key] - 1, last) - ServedOf(sv, key, rt[key] - W - 1, last) >= L
                   /\ t >= rt[key] => key \notin DOMAIN ws \/ t - ws[key].startedAt >= W
  <2>1. PICK on, B : on = (key \in DOMAIN ws) /\ B = Total(sv[key], last)
    OBVIOUS
  <2>2. KeyOK(on, ws[key], B, rt[key], none, t, L, W)
    BY <2>1 DEF LimitsOK
  <2>3. \A s \in Int : ServedOf(sv, key, s, last) = B[s]
    BY <2>1 DEF Total, ServedOf
  <2>4. on => ws[key].startedAt \in 0..t /\ ws[key].count \in 1..L
    BY <2>2 DEF KeyOK
  <2>5. on /\ ~(t - ws[key].startedAt >= W) => B[t] - B[ws[key].startedAt - 1] = ws[key].count
    BY <1>1, <2>2, <2>4 DEF KeyOK, Runs
  <2>6. \A s \in Int : B[s + W - 1] - B[s - 1] <= 2 * L
    BY <2>2 DEF KeyOK
  <2>7. rt[key] # none =>
          /\ rt[key] \in Int /\ B[rt[key] - 1] - B[rt[key] - W - 1] >= L
          /\ on => ws[key].startedAt + W = rt[key]
    BY <2>2 DEF KeyOK
  <2>8. on /\ ~(t - ws[key].startedAt >= W) =>
          /\ ws[key].count <= L
          /\ ServedOf(sv, key, t, last) - ServedOf(sv, key, ws[key].startedAt - 1, last) = ws[key].count
    BY <1>1, <2>3, <2>4, <2>5
  <2>9. \A s \in 0..last : ServedOf(sv, key, s + W - 1, last) - ServedOf(sv, key, s - 1, last) <= 2 * L
    BY <2>3, <2>6
  <2>10. rt[key] # none =>
           ServedOf(sv, key, rt[key] - 1, last) - ServedOf(sv, key, rt[key] - W - 1, last) >= L
    BY <2>3, <2>7
  <2>11. rt[key] # none /\ t >= rt[key] => ~on \/ t - ws[key].startedAt >= W
    BY <1>1, <2>4, <2>7
  <2> QED
    BY <2>1, <2>8, <2>9, <2>10, <2>11
<1> QED
  BY <1>1, <1>2 DEF KeptPromise, LimitsOK

-----------------------------------------------------------------------------
(* RateLimit.                                                              *)

LimitInv ==
    LimitsOK(Keys, windows, served, retryAt, NoRetry, now, Limit, Window, SweepAbove, LastSecond)

LEMMA NoRetryIsInt == NoRetry \in Int
  BY RateLimitAssumption DEF NoRetry

LEMMA LimitInitInv == RateInit => LimitInv
<1> SUFFICES ASSUME RateInit PROVE LimitInv
  OBVIOUS
<1>1. PICK none : none = NoRetry
  OBVIOUS
<1>2. LimitsOK(Keys, windows, served, retryAt, none, 0, Limit, Window, SweepAbove, LastSecond)
  BY <1>1, NoRetryIsInt, FirstLimits, RateLimitAssumption DEF RateInit
<1> QED
  BY <1>1, <1>2 DEF LimitInv, RateInit

LEMMA LimitUnchanged == ASSUME LimitInv, UNCHANGED limitVars PROVE LimitInv'
  BY DEF LimitInv, limitVars, NoRetry

LEMMA SecondPassesInv == ASSUME LimitInv, SecondPasses PROVE LimitInv'
<1>1. PICK none : none = NoRetry
  OBVIOUS
<1>2. LimitsOK(Keys, windows, served, retryAt, none, now + 1, Limit, Window, SweepAbove, LastSecond)
  BY <1>1, NoRetryIsInt, LimitsTick, RateLimitAssumption DEF LimitInv, SecondPasses
<1> QED
  BY <1>1, <1>2 DEF LimitInv, SecondPasses, NoRetry

LEMMA HitInv == ASSUME LimitInv, NEW key \in Keys, Hit(key) PROVE LimitInv'
<1>1. PICK none, ws2, sv2, rt2 : none = NoRetry /\ ws2 = windows' /\ sv2 = served' /\ rt2 = retryAt'
  OBVIOUS
<1>2. TakenOf(SweptOf(windows, now, Window, SweepAbove), key, ws2, served, retryAt, sv2, rt2, none,
              now, Limit, Window, LastSecond)
  BY <1>1 DEF TakenOf, SweptOf, BeginsOf, OverOf, LetThroughOf,
     Hit, Swept, Sweep, IsStale, BeginsWindow, IsOver, LetThrough, With
<1>3. none \in Int /\ LimitsOK(Keys, windows, served, retryAt, none, now, Limit, Window, SweepAbove, LastSecond)
  BY <1>1, NoRetryIsInt DEF LimitInv
<1>4. Hits(Keys, key, windows, served, retryAt, ws2, sv2, rt2, none, now, Limit, Window, SweepAbove, LastSecond)
  BY <1>2, <1>3, HitsAKey, RateLimitAssumption
<1>5. LimitsOK(Keys, ws2, sv2, rt2, none, now, Limit, Window, SweepAbove, LastSecond)
  BY <1>3, <1>4, LimitsHit, RateLimitAssumption
<1> QED
  BY <1>1, <1>5 DEF LimitInv, Hit, NoRetry

LEMMA RateStep == ASSUME LimitInv, RateNext PROVE LimitInv'
  BY SecondPassesInv, HitInv DEF RateNext

LEMMA LimitInvSuffices == LimitInv => QuotaIsKept
<1> SUFFICES ASSUME LimitInv PROVE QuotaIsKept
  OBVIOUS
<1>1. PICK none : none = NoRetry
  OBVIOUS
<1>2. KeptPromise(Keys, windows, served, retryAt, none, now, Limit, Window, SweepAbove, LastSecond)
  BY <1>1, NoRetryIsInt, LimitsKeepTheirPromise, RateLimitAssumption DEF LimitInv
<1>3. \A key \in Keys : retryAt[key] \in Int
  BY DEF LimitInv, LimitsOK
<1>4. \A x \in Int : x - Window - 1 = (x - Window) - 1
  OBVIOUS
<1> QED
  BY <1>1, <1>2, <1>3, <1>4 DEF KeptPromise, ServedOf, QuotaIsKept, WindowsCountWhatTheyServe, RefusalsAreHonest,
     StaleKeysAreForgotten, IsStale, ServedBetween, ServedBy

\* For any number of keys, any limit, window and sweep: a running window counts
\* exactly what its key was let through since it began, no stretch of a
\* window's length lets a key through more than twice its limit, whoever is
\* refused had spent the limit and is let through when it comes back on time,
\* and stale keys do not pile up (createRateLimiter of rate-limit.ts).
THEOREM QuotasAreKept == EdgesSpec => []QuotaIsKept
<1>1. EdgesInit => LimitInv
  BY LimitInitInv DEF EdgesInit
<1>2. LimitInv /\ [EdgesNext]_edgeVars => LimitInv'
  <2> SUFFICES ASSUME LimitInv, [EdgesNext]_edgeVars PROVE LimitInv'
    OBVIOUS
  <2>1. CASE RateNext
    BY <2>1, RateStep
  <2>2. CASE UNCHANGED limitVars
    BY <2>2, LimitUnchanged
  <2> QED
    BY <2>1, <2>2 DEF EdgesNext, edgeVars
<1> QED
  BY <1>1, <1>2, LimitInvSuffices, PTL DEF EdgesSpec

-----------------------------------------------------------------------------
(* The admission of calls.                                                 *)

LetsThrough(K, key, sv, sv2, last, over) ==
    \A k \in K : sv2[k][last] = sv[k][last] + IF k = key /\ ~over THEN 1 ELSE 0

\* A hit lets its key through unless its window is spent.
LEMMA TakenServes ==
    ASSUME NEW K, NEW none, NEW L, NEW W, NEW S, NEW last \in Nat,
           NEW ws, NEW sv, NEW rt, NEW t, LimitsOK(K, ws, sv, rt, none, t, L, W, S, last),
           NEW key \in K, NEW ws2, NEW sv2, NEW rt2, NEW swept, NEW over, over <=> OverOf(swept, key, t, L, W),
           TakenOf(swept, key, ws2, sv, rt, sv2, rt2, none, t, L, W, last)
    PROVE  LetsThrough(K, key, sv, sv2, last, over)
<1>1. t \in 0..last /\ sv \in [K -> [0..last -> Nat]]
  BY DEF LimitsOK
<1>2. \A k \in K : sv[k][last] \in Nat
  BY <1>1
<1>3. LetThroughOf(key, sv, rt, sv2, rt2, none, t, last) =>
        \A k \in K : sv2[k][last] = sv[k][last] + IF k = key THEN 1 ELSE 0
  <2> SUFFICES ASSUME NEW g, g = [s \in 0..last |-> IF s < t THEN sv[key][s] ELSE sv[key][s] + 1],
                      sv2 = [sv EXCEPT ![key] = g], NEW k \in K
               PROVE  sv2[k][last] = sv[k][last] + IF k = key THEN 1 ELSE 0
    BY DEF LetThroughOf
  <2>1. g[last] = sv[key][last] + 1
    BY <1>1
  <2>2. sv2[k] = IF k = key THEN g ELSE sv[k]
    BY <1>1
  <2> QED
    BY <1>2, <2>1, <2>2
<1>4. CASE OverOf(swept, key, t, L, W)
  <2>1. sv2 = sv
    BY <1>4 DEF TakenOf, OverOf
  <2> QED
    BY <1>2, <1>4, <2>1 DEF LetsThrough
<1>5. CASE ~OverOf(swept, key, t, L, W)
  <2>1. LetThroughOf(key, sv, rt, sv2, rt2, none, t, last)
    BY <1>5 DEF TakenOf
  <2> QED
    BY <1>3, <1>5, <2>1 DEF LetsThrough
<1> QED
  BY <1>4, <1>5

-----------------------------------------------------------------------------
(* The limiters of the API.                                                *)

LEMMA SameCardinality ==
    \A T : RequestLimiter!Cardinality(T) = Cardinality(T) /\ WriteLimiter!Cardinality(T) = Cardinality(T)
  BY DEF RequestLimiter!Cardinality, WriteLimiter!Cardinality, Cardinality

ApiNone == LastTick + Minute + 1

AddressInv ==
    LimitsOK(Addresses, addressWindows, addressServed, addressRetryAt, ApiNone, clock,
             RequestsPerMinute, Minute, SweptAbove, LastTick)

SubjectInv ==
    LimitsOK(Subjects, subjectWindows, subjectServed, subjectRetryAt, ApiNone, clock,
             WritesPerMinute, Minute, SweptAbove, LastTick)

LEMMA ApiNoneIsInt == ApiNone \in Int
  BY ApiAssumption DEF ApiNone

LEMMA AddressInitInv == clock = 0 /\ RequestLimiter!RateInit => AddressInv
<1> SUFFICES ASSUME clock = 0, RequestLimiter!RateInit PROVE AddressInv
  OBVIOUS
<1>1. PICK none : none = ApiNone
  OBVIOUS
<1>2. /\ addressWindows = [k \in {} |-> 0] /\ addressServed = [k \in Addresses |-> [s \in 0..LastTick |-> 0]]
      /\ addressRetryAt = [k \in Addresses |-> none]
  BY <1>1 DEF RequestLimiter!RateInit, RequestLimiter!NoRetry, ApiNone
<1>3. LimitsOK(Addresses, addressWindows, addressServed, addressRetryAt, none, 0,
               RequestsPerMinute, Minute, SweptAbove, LastTick)
  BY <1>1, <1>2, ApiNoneIsInt, FirstLimits, ApiAssumption
<1> QED
  BY <1>1, <1>3 DEF AddressInv

LEMMA SubjectInitInv == clock = 0 /\ WriteLimiter!RateInit => SubjectInv
<1> SUFFICES ASSUME clock = 0, WriteLimiter!RateInit PROVE SubjectInv
  OBVIOUS
<1>1. PICK none : none = ApiNone
  OBVIOUS
<1>2. /\ subjectWindows = [k \in {} |-> 0] /\ subjectServed = [k \in Subjects |-> [s \in 0..LastTick |-> 0]]
      /\ subjectRetryAt = [k \in Subjects |-> none]
  BY <1>1 DEF WriteLimiter!RateInit, WriteLimiter!NoRetry, ApiNone
<1>3. LimitsOK(Subjects, subjectWindows, subjectServed, subjectRetryAt, none, 0,
               WritesPerMinute, Minute, SweptAbove, LastTick)
  BY <1>1, <1>2, ApiNoneIsInt, FirstLimits, ApiAssumption
<1> QED
  BY <1>1, <1>3 DEF SubjectInv

LEMMA AddressHit ==
    ASSUME AddressInv, NEW key \in Addresses, RequestLimiter!Hit(key)
    PROVE  /\ AddressInv' /\ clock' = clock
           /\ \A k \in Addresses :
                addressServed'[k][LastTick]
                  = addressServed[k][LastTick] + IF k = key /\ ~RequestLimiter!IsOver(key) THEN 1 ELSE 0
<1>1. PICK none, ws2, sv2, rt2 : none = ApiNone /\ ws2 = addressWindows' /\ sv2 = addressServed' /\ rt2 = addressRetryAt'
  OBVIOUS
<1>c. RequestLimiter!Cardinality(DOMAIN addressWindows) = Cardinality(DOMAIN addressWindows)
  BY SameCardinality
<1>2. PICK swept : swept = SweptOf(addressWindows, clock, Minute, SweptAbove)
  OBVIOUS
<1>3. TakenOf(SweptOf(addressWindows, clock, Minute, SweptAbove), key, ws2, addressServed, addressRetryAt, sv2, rt2,
              none, clock, RequestsPerMinute, Minute, LastTick)
  BY <1>1, <1>c DEF TakenOf, SweptOf, BeginsOf, OverOf, LetThroughOf, ApiNone, RequestLimiter!NoRetry,
     RequestLimiter!Hit, RequestLimiter!Swept, RequestLimiter!Sweep, RequestLimiter!IsStale,
     RequestLimiter!BeginsWindow, RequestLimiter!IsOver, RequestLimiter!LetThrough, RequestLimiter!With
<1>4. none \in Int /\ LimitsOK(Addresses, addressWindows, addressServed, addressRetryAt, none, clock,
                                RequestsPerMinute, Minute, SweptAbove, LastTick)
  BY <1>1, ApiNoneIsInt DEF AddressInv
<1>5. Hits(Addresses, key, addressWindows, addressServed, addressRetryAt, ws2, sv2, rt2, none, clock,
           RequestsPerMinute, Minute, SweptAbove, LastTick)
  BY <1>3, <1>4, HitsAKey, ApiAssumption
<1>6. LimitsOK(Addresses, ws2, sv2, rt2, none, clock, RequestsPerMinute, Minute, SweptAbove, LastTick)
  BY <1>4, <1>5, LimitsHit, ApiAssumption
<1>7. clock' = clock
  BY DEF RequestLimiter!Hit
<1>8. OverOf(swept, key, clock, RequestsPerMinute, Minute) <=> RequestLimiter!IsOver(key)
  BY <1>2, <1>c DEF SweptOf, BeginsOf, OverOf, RequestLimiter!Swept, RequestLimiter!Sweep, RequestLimiter!IsStale,
     RequestLimiter!BeginsWindow, RequestLimiter!IsOver
<1>9. TakenOf(swept, key, ws2, addressServed, addressRetryAt, sv2, rt2,
              none, clock, RequestsPerMinute, Minute, LastTick)
  BY <1>2, <1>3
<1>10. LastTick \in Nat
  BY ApiAssumption
<1>11. PICK over : over = RequestLimiter!IsOver(key)
  OBVIOUS
<1>12. over <=> OverOf(swept, key, clock, RequestsPerMinute, Minute)
  BY <1>8, <1>11
<1>13. LetsThrough(Addresses, key, addressServed, sv2, LastTick, over)
  BY <1>4, <1>9, <1>10, <1>12, TakenServes
<1> QED
  BY <1>1, <1>6, <1>7, <1>11, <1>13 DEF LetsThrough, AddressInv, ApiNone

LEMMA SubjectHit ==
    ASSUME SubjectInv, NEW key \in Subjects, WriteLimiter!Hit(key)
    PROVE  /\ SubjectInv' /\ clock' = clock
           /\ \A k \in Subjects :
                subjectServed'[k][LastTick]
                  = subjectServed[k][LastTick] + IF k = key /\ ~WriteLimiter!IsOver(key) THEN 1 ELSE 0
<1>1. PICK none, ws2, sv2, rt2 : none = ApiNone /\ ws2 = subjectWindows' /\ sv2 = subjectServed' /\ rt2 = subjectRetryAt'
  OBVIOUS
<1>c. WriteLimiter!Cardinality(DOMAIN subjectWindows) = Cardinality(DOMAIN subjectWindows)
  BY SameCardinality
<1>2. PICK swept : swept = SweptOf(subjectWindows, clock, Minute, SweptAbove)
  OBVIOUS
<1>3. TakenOf(SweptOf(subjectWindows, clock, Minute, SweptAbove), key, ws2, subjectServed, subjectRetryAt, sv2, rt2,
              none, clock, WritesPerMinute, Minute, LastTick)
  BY <1>1, <1>c DEF TakenOf, SweptOf, BeginsOf, OverOf, LetThroughOf, ApiNone, WriteLimiter!NoRetry,
     WriteLimiter!Hit, WriteLimiter!Swept, WriteLimiter!Sweep, WriteLimiter!IsStale,
     WriteLimiter!BeginsWindow, WriteLimiter!IsOver, WriteLimiter!LetThrough, WriteLimiter!With
<1>4. none \in Int /\ LimitsOK(Subjects, subjectWindows, subjectServed, subjectRetryAt, none, clock,
                                WritesPerMinute, Minute, SweptAbove, LastTick)
  BY <1>1, ApiNoneIsInt DEF SubjectInv
<1>5. Hits(Subjects, key, subjectWindows, subjectServed, subjectRetryAt, ws2, sv2, rt2, none, clock,
           WritesPerMinute, Minute, SweptAbove, LastTick)
  BY <1>3, <1>4, HitsAKey, ApiAssumption
<1>6. LimitsOK(Subjects, ws2, sv2, rt2, none, clock, WritesPerMinute, Minute, SweptAbove, LastTick)
  BY <1>4, <1>5, LimitsHit, ApiAssumption
<1>7. clock' = clock
  BY DEF WriteLimiter!Hit
<1>8. OverOf(swept, key, clock, WritesPerMinute, Minute) <=> WriteLimiter!IsOver(key)
  BY <1>2, <1>c DEF SweptOf, BeginsOf, OverOf, WriteLimiter!Swept, WriteLimiter!Sweep, WriteLimiter!IsStale,
     WriteLimiter!BeginsWindow, WriteLimiter!IsOver
<1>9. TakenOf(swept, key, ws2, subjectServed, subjectRetryAt, sv2, rt2,
              none, clock, WritesPerMinute, Minute, LastTick)
  BY <1>2, <1>3
<1>10. LastTick \in Nat
  BY ApiAssumption
<1>11. PICK over : over = WriteLimiter!IsOver(key)
  OBVIOUS
<1>12. over <=> OverOf(swept, key, clock, WritesPerMinute, Minute)
  BY <1>8, <1>11
<1>13. LetsThrough(Subjects, key, subjectServed, sv2, LastTick, over)
  BY <1>4, <1>9, <1>10, <1>12, TakenServes
<1> QED
  BY <1>1, <1>6, <1>7, <1>11, <1>13 DEF LetsThrough, SubjectInv, ApiNone

LEMMA LimitersUnchanged ==
    /\ AddressInv /\ UNCHANGED <<clock, addressVars>> => AddressInv'
    /\ SubjectInv /\ UNCHANGED <<clock, subjectVars>> => SubjectInv'
  BY DEF AddressInv, SubjectInv, ApiNone, addressVars, subjectVars

LEMMA LimitersTick == ASSUME AddressInv, SubjectInv, Tick PROVE AddressInv' /\ SubjectInv'
<1>1. PICK none : none = ApiNone
  OBVIOUS
<1>2. LimitsOK(Addresses, addressWindows, addressServed, addressRetryAt, none, clock + 1,
               RequestsPerMinute, Minute, SweptAbove, LastTick)
  BY <1>1, ApiNoneIsInt, LimitsTick, ApiAssumption DEF AddressInv, Tick
<1>3. LimitsOK(Subjects, subjectWindows, subjectServed, subjectRetryAt, none, clock + 1,
               WritesPerMinute, Minute, SweptAbove, LastTick)
  BY <1>1, ApiNoneIsInt, LimitsTick, ApiAssumption DEF SubjectInv, Tick
<1> QED
  BY <1>1, <1>2, <1>3 DEF AddressInv, SubjectInv, ApiNone, Tick, addressVars, subjectVars

LEMMA AddressQuotaIsKept == AddressInv => RequestLimiter!QuotaIsKept
<1> SUFFICES ASSUME AddressInv PROVE RequestLimiter!QuotaIsKept
  OBVIOUS
<1>1. PICK none : none = ApiNone
  OBVIOUS
<1>2. KeptPromise(Addresses, addressWindows, addressServed, addressRetryAt, none, clock,
                  RequestsPerMinute, Minute, SweptAbove, LastTick)
  BY <1>1, ApiNoneIsInt, LimitsKeepTheirPromise, ApiAssumption DEF AddressInv
<1>3. RequestLimiter!Cardinality(DOMAIN addressWindows) = Cardinality(DOMAIN addressWindows)
  BY SameCardinality
<1>4. \A k \in Addresses : addressRetryAt[k] \in Int
  BY DEF AddressInv, LimitsOK
<1>5. Minute \in Int /\ \A x \in Int : x - Minute - 1 = (x - Minute) - 1
  BY ApiAssumption
<1> QED
  BY <1>1, <1>2, <1>3, <1>4, <1>5 DEF KeptPromise, ServedOf, ApiNone, RequestLimiter!NoRetry, RequestLimiter!QuotaIsKept,
     RequestLimiter!WindowsCountWhatTheyServe, RequestLimiter!RefusalsAreHonest,
     RequestLimiter!StaleKeysAreForgotten, RequestLimiter!IsStale, RequestLimiter!ServedBetween, RequestLimiter!ServedBy

LEMMA SubjectQuotaIsKept == SubjectInv => WriteLimiter!QuotaIsKept
<1> SUFFICES ASSUME SubjectInv PROVE WriteLimiter!QuotaIsKept
  OBVIOUS
<1>1. PICK none : none = ApiNone
  OBVIOUS
<1>2. KeptPromise(Subjects, subjectWindows, subjectServed, subjectRetryAt, none, clock,
                  WritesPerMinute, Minute, SweptAbove, LastTick)
  BY <1>1, ApiNoneIsInt, LimitsKeepTheirPromise, ApiAssumption DEF SubjectInv
<1>3. WriteLimiter!Cardinality(DOMAIN subjectWindows) = Cardinality(DOMAIN subjectWindows)
  BY SameCardinality
<1>4. \A k \in Subjects : subjectRetryAt[k] \in Int
  BY DEF SubjectInv, LimitsOK
<1>5. Minute \in Int /\ \A x \in Int : x - Minute - 1 = (x - Minute) - 1
  BY ApiAssumption
<1> QED
  BY <1>1, <1>2, <1>3, <1>4, <1>5 DEF KeptPromise, ServedOf, ApiNone, WriteLimiter!NoRetry, WriteLimiter!QuotaIsKept,
     WriteLimiter!WindowsCountWhatTheyServe, WriteLimiter!RefusalsAreHonest,
     WriteLimiter!StaleKeysAreForgotten, WriteLimiter!IsStale, WriteLimiter!ServedBetween, WriteLimiter!ServedBy

-----------------------------------------------------------------------------
(* The calls.                                                              *)

Stages == {"arrived", "probing", "issuing", "verifying", "handling", "answered"}

Verdicts == {"MALFORMED", "BAD_SIGNATURE", "NOT_YET_VALID", "EXPIRED", "OK"}

Gates == {"none", "open", "body", "address", "identity", "origin", "upgrade", "path", "scope", "writes", "route",
          "handler"}

Codes ==
    {"none", "OK", "ENTITY_NOT_FOUND", "PROPOSAL_INVALID", "TOOL_UNAUTHORIZED", "UNAUTHENTICATED", "RATE_LIMITED",
     "INVALID_INPUT", "INTERNAL_ERROR", "NOT_READY"}

SentCalls ==
    [stage : Stages, offer : Offers, verdict : Verdicts, verifiedAt : Int, gate : Gates, code : Codes,
     outcome : Outcomes \cup {"none"}]

\* A REST call past Admit.
IsAdmitted(call) == call.stage = "handling" \/ call.gate \in {"route", "handler"}

\* What a wired tool answers, on every surface.
ToolAnswer(call) == IF call.offer.body = "VALID" THEN AnswerOf(call.outcome) ELSE "INVALID_INPUT"

\* What the gates have found out about a call by the time it is where it is.
CallIsSound(call) ==
    /\ call.stage # "answered" => call.gate = "none" /\ call.code = "none" /\ call.outcome = "none"
    /\ call.stage = "answered" => call.gate # "none" /\ call.code # "none"
    /\ call.verdict = "OK" => call.offer.token.shape = "claims" /\ call.verifiedAt < call.offer.token.expiresAt
    /\ call.stage \in {"probing", "issuing"} => call.offer.surface = "REST"
    /\ call.stage = "verifying" => call.offer.surface \in {"REST", "SOCKET"}
    /\ call.stage = "handling" => call.offer.body = "VALID"
    /\ call.offer.surface = "REST" =>
         /\ IsAdmitted(call) => call.verdict = "OK" /\ Denied(call.offer) = "none"
         /\ call.gate = "scope" => Denied(call.offer) # "none"
         /\ call.gate \in {"route", "handler"} /\ call.offer.tool \in Wired => call.code = ToolAnswer(call)
    /\ call.offer.surface = "MCP" =>
         /\ call.gate = "scope" => ~Authorize(call.offer.production)
         /\ call.gate \in {"none", "scope", "route", "handler"}
         /\ call.gate \in {"route", "handler"} /\ call.offer.tool \in Wired => call.code = ToolAnswer(call)
    /\ call.code \in {"INTERNAL_ERROR", "NOT_READY"} => FailedWithin(call) \/ WasUnreadable(call)

\* Who pays for a call.
PaysAddress(call, a) ==
    call # Unsent /\ call.offer.surface = "REST" /\ call.offer.address = a /\ call.gate \notin {"body", "address"}

PaysSubject(call, who) ==
    /\ call # Unsent /\ call.offer.surface = "REST"
    /\ call.offer.token.subject = who /\ call.offer.method # "GET" /\ IsAdmitted(call)

CallsInv ==
    /\ requests \in [Slots -> SentCalls \cup {Unsent}]
    /\ \A i \in Slots : requests[i] # Unsent => CallIsSound(requests[i])

PaidInv ==
    /\ \A a \in Addresses : addressServed[a][LastTick] = Cardinality({i \in Slots : PaysAddress(requests[i], a)})
    /\ \A who \in Subjects : subjectServed[who][LastTick] = Cardinality({i \in Slots : PaysSubject(requests[i], who)})

ApiInv == AddressInv /\ SubjectInv /\ CallsInv /\ PaidInv

LEMMA SlotsAreFinite == IsFiniteSet(Slots)
  BY ApiAssumption

LEMMA SentIsNotUnsent ==
    ASSUME NEW call \in SentCalls
    PROVE  call # Unsent
<1>1. call.stage # "unsent"
  BY DEF SentCalls, Stages
<1>2. Unsent.stage = "unsent"
  BY DEF Unsent
<1> QED
  BY <1>1, <1>2

\* Of a set of calls only one changes.
LEMMA SetGainsOne ==
    ASSUME NEW A, NEW B, IsFiniteSet(A), NEW i, B \subseteq A \cup {i}, A \subseteq B,
           NEW n, n = IF i \in B /\ i \notin A THEN 1 ELSE 0
    PROVE  Cardinality(B) = Cardinality(A) + n
<1>1. Cardinality(A) \in Nat
  BY FS_CardinalityType
<1>2. CASE i \in B /\ i \notin A
  <2>1. B = A \cup {i}
    BY <1>2
  <2> QED
    BY <1>2, <2>1, FS_AddElement
<1>3. CASE ~(i \in B /\ i \notin A)
  <2>1. B = A
    BY <1>3
  <2> QED
    BY <1>1, <1>3, <2>1
<1> QED
  BY <1>2, <1>3

Gain(before, after) == IF after /\ ~before THEN 1 ELSE 0

\* What a call becomes is sound and is paid for.
LEMMA MoveInv ==
    ASSUME ApiInv, NEW i \in Slots, NEW new \in SentCalls, CallIsSound(new), Moves(i, new),
           AddressInv', SubjectInv',
           \A a \in Addresses :
             /\ PaysAddress(requests[i], a) => PaysAddress(new, a)
             /\ addressServed'[a][LastTick]
                  = addressServed[a][LastTick] + Gain(PaysAddress(requests[i], a), PaysAddress(new, a)),
           \A who \in Subjects :
             /\ PaysSubject(requests[i], who) => PaysSubject(new, who)
             /\ subjectServed'[who][LastTick]
                  = subjectServed[who][LastTick] + Gain(PaysSubject(requests[i], who), PaysSubject(new, who))
    PROVE  ApiInv'
<1>1. /\ requests \in [Slots -> SentCalls \cup {Unsent}] /\ requests' = [requests EXCEPT ![i] = new]
      /\ requests'[i] = new /\ \A j \in Slots \ {i} : requests'[j] = requests[j]
  BY DEF ApiInv, CallsInv, Moves
<1>2. CallsInv'
  <2>1. requests' \in [Slots -> SentCalls \cup {Unsent}]
    BY <1>1
  <2>2. ASSUME NEW j \in Slots, requests'[j] # Unsent PROVE CallIsSound(requests'[j])
    <3>1. CASE j = i
      BY <1>1, <3>1
    <3>2. CASE j # i
      <4>1. requests'[j] = requests[j]
        BY <1>1, <3>2
      <4> QED
        BY <2>2, <4>1 DEF ApiInv, CallsInv
    <3> QED
      BY <3>1, <3>2
  <2> QED
    BY <2>1, <2>2 DEF CallsInv, CallIsSound
<1>3. ASSUME NEW a \in Addresses
      PROVE  addressServed'[a][LastTick] = Cardinality({j \in Slots : PaysAddress(requests'[j], a)})
  <2>1. PICK A, B : A = {j \in Slots : PaysAddress(requests[j], a)} /\ B = {j \in Slots : PaysAddress(requests'[j], a)}
    OBVIOUS
  <2>2. IsFiniteSet(A)
    <3>1. A \subseteq Slots
      BY <2>1
    <3> QED
      BY <3>1, SlotsAreFinite, FS_Subset
  <2>3. B \subseteq A \cup {i} /\ A \subseteq B
    BY <1>1, <2>1
  <2>4. PICK n : n = Gain(PaysAddress(requests[i], a), PaysAddress(new, a))
    OBVIOUS
  <2>5. n = IF i \in B /\ i \notin A THEN 1 ELSE 0
    BY <1>1, <2>1, <2>4 DEF Gain
  <2>6. Cardinality(B) = Cardinality(A) + n
    BY <2>2, <2>3, <2>5, SetGainsOne
  <2>7. addressServed[a][LastTick] = Cardinality(A)
    BY <2>1 DEF ApiInv, PaidInv
  <2>8. addressServed'[a][LastTick] = addressServed[a][LastTick] + n
    BY <2>4
  <2> QED
    BY <2>1, <2>6, <2>7, <2>8
<1>4. ASSUME NEW who \in Subjects
      PROVE  subjectServed'[who][LastTick] = Cardinality({j \in Slots : PaysSubject(requests'[j], who)})
  <2>1. PICK A, B : A = {j \in Slots : PaysSubject(requests[j], who)} /\ B = {j \in Slots : PaysSubject(requests'[j], who)}
    OBVIOUS
  <2>2. IsFiniteSet(A)
    <3>1. A \subseteq Slots
      BY <2>1
    <3> QED
      BY <3>1, SlotsAreFinite, FS_Subset
  <2>3. B \subseteq A \cup {i} /\ A \subseteq B
    BY <1>1, <2>1
  <2>4. PICK n : n = Gain(PaysSubject(requests[i], who), PaysSubject(new, who))
    OBVIOUS
  <2>5. n = IF i \in B /\ i \notin A THEN 1 ELSE 0
    BY <1>1, <2>1, <2>4 DEF Gain
  <2>6. Cardinality(B) = Cardinality(A) + n
    BY <2>2, <2>3, <2>5, SetGainsOne
  <2>7. subjectServed[who][LastTick] = Cardinality(A)
    BY <2>1 DEF ApiInv, PaidInv
  <2>8. subjectServed'[who][LastTick] = subjectServed[who][LastTick] + n
    BY <2>4
  <2> QED
    BY <2>1, <2>6, <2>7, <2>8
<1>5. PaidInv'
  BY <1>3, <1>4 DEF PaidInv, PaysAddress, PaysSubject, IsAdmitted, Unsent
<1> QED
  BY <1>2, <1>5 DEF ApiInv

\* What is left of a call when it moves on.
Becomes(new, call, stage, gate, code) ==
    /\ new.stage = stage /\ new.gate = gate /\ new.code = code
    /\ new.offer = call.offer /\ new.verdict = call.verdict /\ new.verifiedAt = call.verifiedAt
    /\ new.outcome = call.outcome

LEMMA ReplyMoves ==
    ASSUME NEW i, NEW call \in SentCalls, NEW gate \in Gates, NEW code \in Codes, Replies(i, call, gate, code)
    PROVE  \E new \in SentCalls : Moves(i, new) /\ Becomes(new, call, "answered", gate, code)
<1>1. PICK new : new = [call EXCEPT !.stage = "answered", !.gate = gate, !.code = code]
  OBVIOUS
<1>2. new \in SentCalls /\ Becomes(new, call, "answered", gate, code)
  BY <1>1 DEF SentCalls, Stages, Becomes
<1> QED
  BY <1>1, <1>2 DEF Replies

LEMMA StageMoves ==
    ASSUME NEW i, NEW call \in SentCalls, NEW stage \in Stages, Moves(i, [call EXCEPT !.stage = stage])
    PROVE  \E new \in SentCalls : Moves(i, new) /\ Becomes(new, call, stage, call.gate, call.code)
<1>1. PICK new : new = [call EXCEPT !.stage = stage]
  OBVIOUS
<1>2. new \in SentCalls /\ Becomes(new, call, stage, call.gate, call.code)
  BY <1>1 DEF SentCalls, Becomes
<1> QED
  BY <1>1, <1>2

LEMMA SameAddress ==
    ASSUME NEW old \in SentCalls, NEW new \in SentCalls, new.offer = old.offer,
           old.gate \notin {"body", "address"}, new.gate \notin {"body", "address"}
    PROVE  \A a \in Addresses : PaysAddress(old, a) <=> PaysAddress(new, a)
  BY SentIsNotUnsent DEF PaysAddress

LEMMA SameSubject ==
    ASSUME NEW old \in SentCalls, NEW new \in SentCalls, new.offer = old.offer,
           old.offer.surface = "REST" /\ old.offer.method # "GET" => (IsAdmitted(old) <=> IsAdmitted(new))
    PROVE  \A who \in Subjects : PaysSubject(old, who) <=> PaysSubject(new, who)
  BY SentIsNotUnsent DEF PaysSubject

LEMMA ServedIsNat ==
    ASSUME ApiInv
    PROVE  /\ \A a \in Addresses : addressServed[a][LastTick] \in Nat
           /\ \A who \in Subjects : subjectServed[who][LastTick] \in Nat
<1>1. /\ addressServed \in [Addresses -> [0..LastTick -> Nat]] /\ subjectServed \in [Subjects -> [0..LastTick -> Nat]]
      /\ LastTick \in 0..LastTick
  BY ApiAssumption DEF ApiInv, AddressInv, SubjectInv, LimitsOK
<1> QED
  BY <1>1

\* A call that moves on and is no more paid for than it was.
LEMMA QuietMove ==
    ASSUME ApiInv, NEW i \in Slots, NEW new \in SentCalls, CallIsSound(new), Moves(i, new),
           UNCHANGED <<clock, addressVars, subjectVars>>,
           \A a \in Addresses : PaysAddress(requests[i], a) <=> PaysAddress(new, a),
           \A who \in Subjects : PaysSubject(requests[i], who) <=> PaysSubject(new, who)
    PROVE  ApiInv'
<1>1. AddressInv' /\ SubjectInv'
  BY LimitersUnchanged DEF ApiInv
<1>2. addressServed' = addressServed /\ subjectServed' = subjectServed
  BY DEF addressVars, subjectVars
<1>3. /\ \A a \in Addresses : addressServed[a][LastTick] \in Nat
      /\ \A who \in Subjects : subjectServed[who][LastTick] \in Nat
  BY ServedIsNat
<1>4. ASSUME NEW a \in Addresses
      PROVE  /\ PaysAddress(requests[i], a) => PaysAddress(new, a)
             /\ addressServed'[a][LastTick]
                  = addressServed[a][LastTick] + Gain(PaysAddress(requests[i], a), PaysAddress(new, a))
  <2>1. PaysAddress(requests[i], a) <=> PaysAddress(new, a)
    OBVIOUS
  <2>2. Gain(PaysAddress(requests[i], a), PaysAddress(new, a)) = 0
    BY <2>1 DEF Gain
  <2> QED
    BY <1>2, <1>3, <2>1, <2>2
<1>5. ASSUME NEW who \in Subjects
      PROVE  /\ PaysSubject(requests[i], who) => PaysSubject(new, who)
             /\ subjectServed'[who][LastTick]
                  = subjectServed[who][LastTick] + Gain(PaysSubject(requests[i], who), PaysSubject(new, who))
  <2>1. PaysSubject(requests[i], who) <=> PaysSubject(new, who)
    OBVIOUS
  <2>2. Gain(PaysSubject(requests[i], who), PaysSubject(new, who)) = 0
    BY <2>1 DEF Gain
  <2> QED
    BY <1>2, <1>3, <2>1, <2>2
<1> QED
  BY <1>1, <1>4, <1>5, MoveInv

LEMMA SentCall ==
    ASSUME ApiInv, NEW i \in Slots, requests[i].stage \in Stages
    PROVE  requests[i] \in SentCalls /\ CallIsSound(requests[i])
<1>1. requests[i] \in SentCalls \cup {Unsent}
  BY DEF ApiInv, CallsInv
<1>2. requests[i] # Unsent
  BY DEF Unsent, Stages
<1> QED
  BY <1>1, <1>2 DEF ApiInv, CallsInv

\* A call that was awaiting something is answered by a gate that is not Admit's.
LEMMA AnswerInv ==
    ASSUME ApiInv, NEW i \in Slots, requests[i].stage \in {"probing", "issuing", "verifying"},
           NEW gate \in {"open", "identity", "upgrade", "path", "scope"}, NEW code \in Codes \ {"none"},
           code \in {"INTERNAL_ERROR", "NOT_READY"} =>
             gate = "open" \/ (gate = "path" /\ requests[i].offer.route = "garbled scope"),
           requests[i].offer.surface = "REST" /\ gate = "scope" => Denied(requests[i].offer) # "none",
           Replies(i, requests[i], gate, code), UNCHANGED <<clock, addressVars, subjectVars>>
    PROVE  ApiInv'
<1>1. requests[i] \in SentCalls /\ CallIsSound(requests[i]) /\ gate \in Gates
  BY SentCall DEF Stages, Gates
<1>2. PICK new \in SentCalls : Moves(i, new) /\ Becomes(new, requests[i], "answered", gate, code)
  BY <1>1, ReplyMoves
<1>3. requests[i].gate = "none" /\ requests[i].offer.surface \in {"REST", "SOCKET"}
  BY <1>1 DEF CallIsSound
<1>4. CallIsSound(new)
  <2>1. code \in {"INTERNAL_ERROR", "NOT_READY"} => FailedWithin(new) \/ WasUnreadable(new)
    BY <1>2 DEF Becomes, FailedWithin, WasUnreadable
  <2> QED
    BY <1>1, <1>2, <1>3, <2>1 DEF CallIsSound, Becomes, IsAdmitted
<1>5. \A a \in Addresses : PaysAddress(requests[i], a) <=> PaysAddress(new, a)
  <2>1. new.offer = requests[i].offer /\ requests[i].gate \notin {"body", "address"} /\ new.gate \notin {"body", "address"}
    BY <1>2, <1>3 DEF Becomes
  <2> QED
    BY <1>1, <2>1, SameAddress
<1>6. \A who \in Subjects : PaysSubject(requests[i], who) <=> PaysSubject(new, who)
  <2>1. new.offer = requests[i].offer /\ ~IsAdmitted(requests[i]) /\ ~IsAdmitted(new)
    BY <1>2, <1>3 DEF Becomes, IsAdmitted
  <2> QED
    BY <1>1, <2>1, SameSubject
<1> QED
  BY <1>2, <1>4, <1>5, <1>6, QuietMove

LEMMA ProbeEndsInv == ASSUME ApiInv, NEW i \in Slots, ProbeEnds(i) PROVE ApiInv'
<1>1. PICK code \in {"OK", "NOT_READY", "INTERNAL_ERROR"} : Replies(i, requests[i], "open", code)
  BY DEF ProbeEnds
<1>2. requests[i].stage = "probing" /\ UNCHANGED <<clock, addressVars, subjectVars>> /\ code \in Codes \ {"none"}
  BY DEF ProbeEnds, IsAt, Codes
<1> QED
  BY <1>1, <1>2, AnswerInv

LEMMA DemoSessionEndsInv == ASSUME ApiInv, NEW i \in Slots, DemoSessionEnds(i) PROVE ApiInv'
<1>1. PICK code \in {"OK", "INTERNAL_ERROR"} : Replies(i, requests[i], "open", code)
  BY DEF DemoSessionEnds
<1>2. requests[i].stage = "issuing" /\ UNCHANGED <<clock, addressVars, subjectVars>> /\ code \in Codes \ {"none"}
  BY DEF DemoSessionEnds, IsAt, Codes
<1> QED
  BY <1>1, <1>2, AnswerInv

LEMMA HandlerEndsInv == ASSUME ApiInv, NEW i \in Slots, HandlerEnds(i) PROVE ApiInv'
<1>1. /\ requests[i].stage = "handling" /\ UNCHANGED <<clock, addressVars, subjectVars>>
      /\ \E outcome \in Outcomes : Replies(i, [requests[i] EXCEPT !.outcome = outcome], "handler", AnswerOf(outcome))
  BY DEF HandlerEnds, IsAt
<1>2. requests[i] \in SentCalls /\ CallIsSound(requests[i])
  BY <1>1, SentCall DEF Stages
<1>3. PICK outcome \in Outcomes : Replies(i, [requests[i] EXCEPT !.outcome = outcome], "handler", AnswerOf(outcome))
  BY <1>1
<1>4. PICK call : call = [requests[i] EXCEPT !.outcome = outcome]
  OBVIOUS
<1>5. /\ call \in SentCalls /\ call.offer = requests[i].offer /\ call.verdict = requests[i].verdict
      /\ call.verifiedAt = requests[i].verifiedAt /\ call.outcome = outcome
  BY <1>2, <1>4 DEF SentCalls
<1>6. AnswerOf(outcome) \in Codes \ {"none"} /\ "handler" \in Gates
      /\ (AnswerOf(outcome) \in {"INTERNAL_ERROR", "NOT_READY"} => outcome \in {"BAD_OUTPUT", "THROWS"})
  BY DEF AnswerOf, Outcomes, Codes, Gates
<1>7. PICK new \in SentCalls : Moves(i, new) /\ Becomes(new, call, "answered", "handler", AnswerOf(outcome))
  BY <1>3, <1>4, <1>5, <1>6, ReplyMoves
<1>8. requests[i].gate = "none" /\ requests[i].offer.body = "VALID"
  BY <1>1, <1>2 DEF CallIsSound
<1>9. CallIsSound(new)
  BY <1>1, <1>2, <1>5, <1>6, <1>7, <1>8 DEF CallIsSound, Becomes, IsAdmitted, ToolAnswer, FailedWithin
<1>10. \A a \in Addresses : PaysAddress(requests[i], a) <=> PaysAddress(new, a)
  <2>1. new.offer = requests[i].offer /\ requests[i].gate \notin {"body", "address"} /\ new.gate \notin {"body", "address"}
    BY <1>5, <1>7, <1>8 DEF Becomes
  <2> QED
    BY <1>2, <2>1, SameAddress
<1>11. \A who \in Subjects : PaysSubject(requests[i], who) <=> PaysSubject(new, who)
  <2>1. new.offer = requests[i].offer /\ IsAdmitted(requests[i]) /\ IsAdmitted(new)
    BY <1>1, <1>5, <1>7, <1>8 DEF Becomes, IsAdmitted
  <2> QED
    BY <1>2, <2>1, SameSubject
<1> QED
  BY <1>1, <1>7, <1>9, <1>10, <1>11, QuietMove

LEMMA OfferFacts ==
    ASSUME NEW call \in SentCalls
    PROVE  /\ call.offer.surface \in {"REST", "SOCKET", "MCP"} /\ call.offer.address \in Addresses
           /\ call.offer.tool \in Wired => call.offer.route = "tool"
           /\ call.offer.token.shape \in {"claims", "unsigned", "malformed"} /\ call.offer.token.subject \in Subjects
           /\ call.offer.token.expiresAt \in Int
<1>1. call.offer \in Offers
  BY DEF SentCalls
<1> QED
  BY <1>1, OffersAreCalls

\* Whatever Route does with a call that may make its request, it is admitted.
LEMMA RouteMoves ==
    ASSUME NEW i, NEW call \in SentCalls, CallIsSound(call), call.stage = "verifying", call.verdict = "OK",
           call.offer.surface = "REST", Denied(call.offer) = "none", Route(i, call)
    PROVE  \E new \in SentCalls :
             /\ Moves(i, new) /\ CallIsSound(new) /\ IsAdmitted(new)
             /\ new.offer = call.offer /\ new.gate \notin {"body", "address"}
<1>1. /\ call.gate = "none" /\ call.code = "none" /\ call.outcome = "none"
      /\ call.offer.tool \in Wired => call.offer.route = "tool"
  BY OfferFacts DEF CallIsSound
<1>2. ASSUME NEW code \in Codes \ {"none"}, Replies(i, call, "route", code),
             code = "INTERNAL_ERROR" =>
               call.offer.route = "garbled name" \/ (call.offer.route = "tool" /\ call.offer.tool \notin Wired),
             code # "NOT_READY",
             call.offer.tool \in Wired => code = "INVALID_INPUT" /\ call.offer.body # "VALID"
      PROVE  \E new \in SentCalls :
               /\ Moves(i, new) /\ CallIsSound(new) /\ IsAdmitted(new)
               /\ new.offer = call.offer /\ new.gate \notin {"body", "address"}
  <2>1. PICK new \in SentCalls : Moves(i, new) /\ Becomes(new, call, "answered", "route", code)
    BY <1>2, ReplyMoves DEF Gates
  <2>2. CallIsSound(new)
    BY <1>1, <1>2, <2>1 DEF CallIsSound, Becomes, IsAdmitted, ToolAnswer, FailedWithin, WasUnreadable
  <2> QED
    BY <2>1, <2>2 DEF Becomes, IsAdmitted
<1>3. ASSUME Moves(i, [call EXCEPT !.stage = "handling"]), call.offer.body = "VALID"
      PROVE  \E new \in SentCalls :
               /\ Moves(i, new) /\ CallIsSound(new) /\ IsAdmitted(new)
               /\ new.offer = call.offer /\ new.gate \notin {"body", "address"}
  <2>1. PICK new \in SentCalls : Moves(i, new) /\ Becomes(new, call, "handling", call.gate, call.code)
    BY <1>3, StageMoves DEF Stages
  <2>2. CallIsSound(new)
    BY <1>1, <1>3, <2>1 DEF CallIsSound, Becomes, IsAdmitted
  <2> QED
    BY <1>1, <2>1, <2>2 DEF Becomes, IsAdmitted
<1>4. {"INVALID_INPUT", "INTERNAL_ERROR"} \subseteq Codes \ {"none"} /\ "ENTITY_NOT_FOUND" \in Codes \ {"none"}
  BY DEF Codes
<1>5. CASE call.offer.route = "tool"
  <2>1. InvokeTool(i, call)
    BY <1>5 DEF Route
  <2>2. CASE call.offer.body # "VALID"
    BY <1>2, <1>4, <2>1, <2>2 DEF InvokeTool
  <2>3. CASE call.offer.body = "VALID" /\ call.offer.tool \notin Wired
    BY <1>2, <1>4, <1>5, <2>1, <2>3 DEF InvokeTool
  <2>4. CASE call.offer.body = "VALID" /\ call.offer.tool \in Wired
    BY <1>3, <2>1, <2>4 DEF InvokeTool
  <2> QED
    BY <2>2, <2>3, <2>4
<1>6. CASE call.offer.route = "own"
  <2>1. OwnRoute(i, call)
    BY <1>6 DEF Route
  <2>2. CASE call.offer.body # "VALID"
    BY <1>2, <1>4, <2>1, <2>2 DEF OwnRoute
  <2>3. CASE call.offer.body = "VALID"
    BY <1>3, <2>1, <2>3 DEF OwnRoute
  <2> QED
    BY <2>2, <2>3
<1>7. CASE call.offer.route = "garbled name"
  <2>1. Replies(i, call, "route", "INTERNAL_ERROR")
    BY <1>7 DEF Route, CodeOfError
  <2> QED
    BY <1>1, <1>2, <1>4, <1>7, <2>1
<1>8. CASE call.offer.route \notin {"tool", "own", "garbled name"}
  <2>1. Replies(i, call, "route", "ENTITY_NOT_FOUND")
    BY <1>8 DEF Route
  <2> QED
    BY <1>1, <1>2, <1>4, <1>8, <2>1
<1> QED
  BY <1>5, <1>6, <1>7, <1>8

LEMMA VerificationEndsInv == ASSUME ApiInv, NEW i \in Slots, VerificationEnds(i) PROVE ApiInv'
<1>1. requests[i].stage = "verifying" /\ UNCHANGED <<clock, addressVars>>
  BY DEF VerificationEnds, IsAt
<1>2. PICK call : call = requests[i]
  OBVIOUS
<1>3. call \in SentCalls /\ CallIsSound(call) /\ call.stage = "verifying"
  BY <1>1, <1>2, SentCall DEF Stages
<1>4. call.offer.surface \in {"REST", "SOCKET"} /\ call.gate = "none" /\ ~IsAdmitted(call)
  BY <1>3 DEF CallIsSound, IsAdmitted
<1>5. CASE call.verdict # "OK"
  <2>1. Replies(i, requests[i], "identity", "UNAUTHENTICATED") /\ UNCHANGED subjectVars
    BY <1>2, <1>5 DEF VerificationEnds
  <2>2. "UNAUTHENTICATED" \in Codes \ {"none"}
    BY DEF Codes
  <2> QED
    BY <1>1, <2>1, <2>2, AnswerInv
<1>6. CASE call.verdict = "OK" /\ call.offer.surface = "SOCKET"
  <2>1. Replies(i, requests[i], "upgrade", "OK") /\ UNCHANGED subjectVars
    BY <1>2, <1>6 DEF VerificationEnds
  <2>2. "OK" \in Codes \ {"none"}
    BY DEF Codes
  <2> QED
    BY <1>1, <2>1, <2>2, AnswerInv
<1>7. CASE call.verdict = "OK" /\ call.offer.surface = "REST" /\ LeadsNowhere(call.offer)
  <2>1. PICK code \in {"ENTITY_NOT_FOUND", "INTERNAL_ERROR"} :
          /\ Replies(i, requests[i], "path", code) /\ UNCHANGED subjectVars
          /\ code = "INTERNAL_ERROR" => call.offer.route = "garbled scope"
    BY <1>2, <1>4, <1>7 DEF VerificationEnds, LeadsNowhere, CodeOfError
  <2>2. code \in Codes \ {"none"}
    BY DEF Codes
  <2> QED
    BY <1>1, <1>2, <2>1, <2>2, AnswerInv
<1>8. CASE call.verdict = "OK" /\ call.offer.surface = "REST" /\ ~LeadsNowhere(call.offer)
  <2>1. Admit(i, call)
    BY <1>2, <1>8 DEF VerificationEnds
  <2>2. PICK who : who = call.offer.token.subject
    OBVIOUS
  <2>3. who \in Subjects
    BY <1>3, <2>2, OfferFacts
  <2>4. CASE Denied(call.offer) # "none"
    <3>1. Replies(i, requests[i], "scope", "TOOL_UNAUTHORIZED") /\ UNCHANGED subjectVars
      BY <1>2, <2>1, <2>4 DEF Admit
    <3>2. "TOOL_UNAUTHORIZED" \in Codes \ {"none"}
      BY DEF Codes
    <3> QED
      BY <1>1, <1>2, <2>4, <3>1, <3>2, AnswerInv
  <2>5. CASE Denied(call.offer) = "none" /\ call.offer.method = "GET"
    <3>1. Route(i, call) /\ UNCHANGED subjectVars
      BY <2>1, <2>5 DEF Admit
    <3>2. PICK new \in SentCalls : /\ Moves(i, new) /\ CallIsSound(new) /\ IsAdmitted(new)
                                   /\ new.offer = call.offer /\ new.gate \notin {"body", "address"}
      BY <1>3, <1>8, <2>5, <3>1, RouteMoves
    <3>3. \A a \in Addresses : PaysAddress(call, a) <=> PaysAddress(new, a)
      BY <1>3, <1>4, <3>2, SameAddress
    <3>4. \A s \in Subjects : PaysSubject(call, s) <=> PaysSubject(new, s)
      BY <1>3, <2>5, <3>2, SameSubject
    <3> QED
      BY <1>1, <1>2, <3>1, <3>2, <3>3, <3>4, QuietMove
  <2>6. CASE Denied(call.offer) = "none" /\ call.offer.method # "GET"
    <3>1. /\ WriteLimiter!Hit(who)
          /\ IF WriteLimiter!IsOver(who) THEN Replies(i, call, "writes", "RATE_LIMITED") ELSE Route(i, call)
      BY <2>1, <2>2, <2>6 DEF Admit
    <3>2. /\ SubjectInv'
          /\ \A k \in Subjects :
               subjectServed'[k][LastTick]
                 = subjectServed[k][LastTick] + IF k = who /\ ~WriteLimiter!IsOver(who) THEN 1 ELSE 0
      BY <2>3, <3>1, SubjectHit DEF ApiInv
    <3>3. AddressInv' /\ addressServed' = addressServed
      BY <1>1, LimitersUnchanged DEF ApiInv, addressVars
    <3>4. PICK new \in SentCalls :
            /\ Moves(i, new) /\ CallIsSound(new) /\ new.offer = call.offer /\ new.gate \notin {"body", "address"}
            /\ IsAdmitted(new) <=> ~WriteLimiter!IsOver(who)
      <4>1. CASE WriteLimiter!IsOver(who)
        <5>1. "RATE_LIMITED" \in Codes /\ "writes" \in Gates
          BY DEF Codes, Gates
        <5>2. PICK new \in SentCalls : Moves(i, new) /\ Becomes(new, call, "answered", "writes", "RATE_LIMITED")
          BY <1>3, <3>1, <4>1, <5>1, ReplyMoves
        <5>3. CallIsSound(new) /\ ~IsAdmitted(new)
          BY <1>3, <1>4, <1>8, <5>2 DEF CallIsSound, Becomes, IsAdmitted
        <5> QED
          BY <4>1, <5>2, <5>3 DEF Becomes
      <4>2. CASE ~WriteLimiter!IsOver(who)
        BY <1>3, <1>8, <2>6, <3>1, <4>2, RouteMoves
      <4> QED
        BY <4>1, <4>2
    <3>5. ASSUME NEW a \in Addresses
          PROVE  /\ PaysAddress(requests[i], a) => PaysAddress(new, a)
                 /\ addressServed'[a][LastTick]
                      = addressServed[a][LastTick] + Gain(PaysAddress(requests[i], a), PaysAddress(new, a))
      <4>1. PaysAddress(call, a) <=> PaysAddress(new, a)
        BY <1>3, <1>4, <3>4, SameAddress
      <4>2. Gain(PaysAddress(requests[i], a), PaysAddress(new, a)) = 0
        BY <1>2, <4>1 DEF Gain
      <4> QED
        BY <1>2, <3>3, <4>1, <4>2, ServedIsNat
    <3>6. ASSUME NEW s \in Subjects
          PROVE  /\ PaysSubject(requests[i], s) => PaysSubject(new, s)
                 /\ subjectServed'[s][LastTick]
                      = subjectServed[s][LastTick] + Gain(PaysSubject(requests[i], s), PaysSubject(new, s))
      <4>1. ~PaysSubject(requests[i], s)
        BY <1>2, <1>4 DEF PaysSubject
      <4>2. PaysSubject(new, s) <=> s = who /\ ~WriteLimiter!IsOver(who)
        BY <1>8, <2>2, <2>6, <3>4, SentIsNotUnsent DEF PaysSubject
      <4>3. Gain(PaysSubject(requests[i], s), PaysSubject(new, s))
              = IF s = who /\ ~WriteLimiter!IsOver(who) THEN 1 ELSE 0
        BY <4>1, <4>2 DEF Gain
      <4> QED
        BY <3>2, <4>1, <4>3
    <3> QED
      BY <3>2, <3>3, <3>4, <3>5, <3>6, MoveInv
  <2> QED
    BY <2>4, <2>5, <2>6
<1> QED
  BY <1>4, <1>5, <1>6, <1>7, <1>8

\* A call that has just been made.
Arrived(call, offer) ==
    /\ call \in SentCalls /\ call.offer = offer /\ call.stage = "arrived"
    /\ call.gate = "none" /\ call.code = "none" /\ call.outcome = "none"
    /\ call.verdict = "OK" => offer.token.shape = "claims" /\ call.verifiedAt < offer.token.expiresAt

LEMMA VerifiedTokens ==
    ASSUME NEW token, clock \in Int, token.expiresAt \in Int, token.shape \in {"claims", "unsigned", "malformed"}
    PROVE  /\ VerifyToken(token) \in Verdicts
           /\ VerifyToken(token) = "OK" => token.shape = "claims" /\ clock < token.expiresAt
  BY DEF VerifyToken, Verdicts

LEMMA ArrivedCall ==
    ASSUME NEW offer \in Offers, clock \in Int, NEW call,
           call = [stage |-> "arrived", offer |-> offer, verdict |-> VerifyToken(offer.token),
                   verifiedAt |-> clock, gate |-> "none", code |-> "none", outcome |-> "none"]
    PROVE  Arrived(call, offer)
<1>1. PICK verdict : verdict = VerifyToken(offer.token)
  OBVIOUS
<1>2. verdict \in Verdicts /\ (verdict = "OK" => offer.token.shape = "claims" /\ clock < offer.token.expiresAt)
  BY <1>1, VerifiedTokens, OffersAreCalls
<1>3. call \in SentCalls
  BY <1>1, <1>2 DEF SentCalls, Stages, Gates, Codes
<1> QED
  BY <1>1, <1>2, <1>3 DEF Arrived

\* An arriving call that is answered at a gate, or waits for something.
LEMMA ArrivalAnswered ==
    ASSUME NEW i, NEW offer, NEW call, Arrived(call, offer), NEW gate \in Gates \ {"none", "handler"}, NEW code \in Codes \ {"none"},
           Replies(i, call, gate, code), offer.surface # "MCP", gate \notin {"scope", "route"},
           code # "NOT_READY", code = "INTERNAL_ERROR" => gate = "body" /\ offer.body = "REFUSED"
    PROVE  \E new \in SentCalls :
             Moves(i, new) /\ CallIsSound(new) /\ new.offer = offer /\ new.gate = gate /\ ~IsAdmitted(new)
<1>1. PICK new \in SentCalls : Moves(i, new) /\ Becomes(new, call, "answered", gate, code)
  BY ReplyMoves DEF Arrived
<1>2. CallIsSound(new) /\ ~IsAdmitted(new)
  BY <1>1 DEF CallIsSound, Becomes, Arrived, IsAdmitted, WasUnreadable
<1> QED
  BY <1>1, <1>2 DEF Becomes, Arrived

LEMMA ArrivalAwaits ==
    ASSUME NEW i, NEW offer, NEW call, Arrived(call, offer), NEW stage \in {"probing", "issuing", "verifying"},
           Moves(i, [call EXCEPT !.stage = stage]), offer.surface \in {"REST", "SOCKET"},
           offer.surface = "SOCKET" => stage = "verifying"
    PROVE  \E new \in SentCalls :
             Moves(i, new) /\ CallIsSound(new) /\ new.offer = offer /\ new.gate = "none" /\ ~IsAdmitted(new)
<1>1. PICK new \in SentCalls : Moves(i, new) /\ Becomes(new, call, stage, call.gate, call.code)
  BY StageMoves DEF Arrived, Stages
<1>2. CallIsSound(new) /\ ~IsAdmitted(new)
  BY <1>1 DEF CallIsSound, Becomes, Arrived, IsAdmitted
<1> QED
  BY <1>1, <1>2 DEF Becomes, Arrived

LEMMA RouteOpenlyMoves ==
    ASSUME NEW i, NEW offer, NEW call, Arrived(call, offer), RouteOpenly(i, call), offer.surface = "REST"
    PROVE  \E new \in SentCalls :
             /\ Moves(i, new) /\ CallIsSound(new) /\ new.offer = offer /\ ~IsAdmitted(new)
             /\ new.gate \notin {"body", "address"}
<1>1. {"open", "identity"} \subseteq Gates \ {"none", "handler"} /\ {"OK", "ENTITY_NOT_FOUND", "UNAUTHENTICATED"} \subseteq Codes \ {"none"}
  BY DEF Gates, Codes
<1>2. call.offer = offer
  BY DEF Arrived
<1>3. CASE offer.route = "health"
  <2>1. Replies(i, call, "open", "OK")
    BY <1>2, <1>3 DEF RouteOpenly
  <2> QED
    BY <1>1, <2>1, ArrivalAnswered
<1>4. CASE offer.route = "ready"
  <2>1. Moves(i, [call EXCEPT !.stage = "probing"])
    BY <1>2, <1>4 DEF RouteOpenly
  <2> QED
    BY <2>1, ArrivalAwaits
<1>5. CASE offer.route = "demo-session" /\ DemoSession
  <2>1. Moves(i, [call EXCEPT !.stage = "issuing"])
    BY <1>2, <1>5 DEF RouteOpenly
  <2> QED
    BY <2>1, ArrivalAwaits
<1>6. CASE offer.route = "demo-session" /\ ~DemoSession
  <2>1. Replies(i, call, "open", "ENTITY_NOT_FOUND")
    BY <1>2, <1>6 DEF RouteOpenly
  <2> QED
    BY <1>1, <2>1, ArrivalAnswered
<1>7. CASE offer.route \notin {"health", "ready", "demo-session"} /\ offer.bearer = "none"
  <2>1. Replies(i, call, "identity", "UNAUTHENTICATED")
    BY <1>2, <1>7 DEF RouteOpenly
  <2> QED
    BY <1>1, <2>1, ArrivalAnswered
<1>8. CASE offer.route \notin {"health", "ready", "demo-session"} /\ offer.bearer # "none"
  <2>1. Moves(i, [call EXCEPT !.stage = "verifying"])
    BY <1>2, <1>8 DEF RouteOpenly
  <2> QED
    BY <2>1, ArrivalAwaits
<1> QED
  BY <1>3, <1>4, <1>5, <1>6, <1>7, <1>8

LEMMA UnsentPaysNothing ==
    ASSUME NEW call, call = Unsent
    PROVE  /\ \A a \in Addresses : ~PaysAddress(call, a)
           /\ \A who \in Subjects : ~PaysSubject(call, who)
  BY DEF PaysAddress, PaysSubject

\* What arrives and is not a request that is counted is paid for by nobody.
LEMMA UnpaidArrival ==
    ASSUME ApiInv, NEW i \in Slots, requests[i] = Unsent, NEW new \in SentCalls, CallIsSound(new), Moves(i, new),
           UNCHANGED <<clock, addressVars, subjectVars>>,
           new.offer.surface = "REST" => new.gate \in {"body", "address"} /\ ~IsAdmitted(new)
    PROVE  ApiInv'
<1>1. \A a \in Addresses : PaysAddress(requests[i], a) <=> PaysAddress(new, a)
  BY UnsentPaysNothing DEF PaysAddress
<1>2. \A who \in Subjects : PaysSubject(requests[i], who) <=> PaysSubject(new, who)
  BY UnsentPaysNothing DEF PaysSubject
<1> QED
  BY <1>1, <1>2, QuietMove

LEMMA RequestArrives ==
    ASSUME ApiInv, NEW i \in Slots, requests[i] = Unsent, NEW offer \in Offers, NEW call, Arrived(call, offer),
           offer.surface = "REST", ReceiveRequest(i, call), UNCHANGED <<clock, subjectVars>>
    PROVE  ApiInv'
<1>1. PICK a : a = offer.address
  OBVIOUS
<1>2. a \in Addresses /\ call.offer = offer
  BY <1>1, OffersAreCalls DEF Arrived
<1>3. {"body", "address"} \subseteq Gates \ {"none", "handler"} /\ {"INVALID_INPUT", "INTERNAL_ERROR", "RATE_LIMITED"} \subseteq Codes \ {"none"}
  BY DEF Gates, Codes
<1>4. CASE offer.body \in {"BROKEN", "REFUSED"}
  <2>1. PICK code \in {"INVALID_INPUT", "INTERNAL_ERROR"} :
          /\ Replies(i, call, "body", code) /\ UNCHANGED addressVars
          /\ code = "INTERNAL_ERROR" => offer.body = "REFUSED"
    BY <1>2, <1>4 DEF ReceiveRequest, CodeOfError
  <2>2. PICK new \in SentCalls :
          Moves(i, new) /\ CallIsSound(new) /\ new.offer = offer /\ new.gate = "body" /\ ~IsAdmitted(new)
    BY <1>3, <2>1, ArrivalAnswered
  <2> QED
    BY <2>1, <2>2, UnpaidArrival
<1>5. CASE offer.body \notin {"BROKEN", "REFUSED"}
  <2>1. /\ RequestLimiter!Hit(a)
        /\ IF RequestLimiter!IsOver(a) THEN Replies(i, call, "address", "RATE_LIMITED") ELSE RouteOpenly(i, call)
    BY <1>1, <1>2, <1>5 DEF ReceiveRequest
  <2>2. /\ AddressInv'
        /\ \A k \in Addresses :
             addressServed'[k][LastTick]
               = addressServed[k][LastTick] + IF k = a /\ ~RequestLimiter!IsOver(a) THEN 1 ELSE 0
    BY <1>2, <2>1, AddressHit DEF ApiInv
  <2>3. SubjectInv' /\ subjectServed' = subjectServed
    BY LimitersUnchanged DEF ApiInv, subjectVars
  <2>4. PICK new \in SentCalls :
          /\ Moves(i, new) /\ CallIsSound(new) /\ new.offer = offer /\ ~IsAdmitted(new)
          /\ new.gate \notin {"body", "address"} <=> ~RequestLimiter!IsOver(a)
    <3>1. CASE RequestLimiter!IsOver(a)
      BY <1>3, <2>1, <3>1, ArrivalAnswered
    <3>2. CASE ~RequestLimiter!IsOver(a)
      BY <2>1, <3>2, RouteOpenlyMoves
    <3> QED
      BY <3>1, <3>2
  <2>5. ASSUME NEW b \in Addresses
        PROVE  /\ PaysAddress(requests[i], b) => PaysAddress(new, b)
               /\ addressServed'[b][LastTick]
                    = addressServed[b][LastTick] + Gain(PaysAddress(requests[i], b), PaysAddress(new, b))
    <3>1. ~PaysAddress(requests[i], b)
      BY UnsentPaysNothing
    <3>2. PaysAddress(new, b) <=> b = a /\ ~RequestLimiter!IsOver(a)
      BY <1>1, <2>4, SentIsNotUnsent DEF PaysAddress
    <3>3. Gain(PaysAddress(requests[i], b), PaysAddress(new, b)) = IF b = a /\ ~RequestLimiter!IsOver(a) THEN 1 ELSE 0
      BY <3>1, <3>2 DEF Gain
    <3> QED
      BY <2>2, <3>1, <3>3
  <2>6. ASSUME NEW who \in Subjects
        PROVE  /\ PaysSubject(requests[i], who) => PaysSubject(new, who)
               /\ subjectServed'[who][LastTick]
                    = subjectServed[who][LastTick] + Gain(PaysSubject(requests[i], who), PaysSubject(new, who))
    <3>1. ~PaysSubject(requests[i], who)
      BY UnsentPaysNothing
    <3>2. ~PaysSubject(new, who)
      BY <2>4 DEF PaysSubject
    <3>3. Gain(PaysSubject(requests[i], who), PaysSubject(new, who)) = 0
      BY <3>1, <3>2 DEF Gain
    <3> QED
      BY <2>3, <3>1, <3>3, ServedIsNat
  <2> QED
    BY <2>2, <2>3, <2>4, <2>5, <2>6, MoveInv
<1> QED
  BY <1>4, <1>5

LEMMA UpgradeArrives ==
    ASSUME ApiInv, NEW i \in Slots, requests[i] = Unsent, NEW offer \in Offers, NEW call, Arrived(call, offer),
           offer.surface = "SOCKET", ReceiveUpgrade(i, call), UNCHANGED <<clock, subjectVars>>
    PROVE  ApiInv'
<1>1. UNCHANGED addressVars /\ call.offer = offer
  BY DEF ReceiveUpgrade, Arrived
<1>2. {"origin", "identity"} \subseteq Gates \ {"none", "handler"} /\ {"TOOL_UNAUTHORIZED", "UNAUTHENTICATED"} \subseteq Codes \ {"none"}
  BY DEF Gates, Codes
<1>3. \E new \in SentCalls : Moves(i, new) /\ CallIsSound(new) /\ new.offer = offer
  <2>1. CASE Replies(i, call, "origin", "TOOL_UNAUTHORIZED")
    BY <1>2, <2>1, ArrivalAnswered
  <2>2. CASE Replies(i, call, "identity", "UNAUTHENTICATED")
    BY <1>2, <2>2, ArrivalAnswered
  <2>3. CASE Moves(i, [call EXCEPT !.stage = "verifying"])
    BY <2>3, ArrivalAwaits
  <2> QED
    BY <2>1, <2>2, <2>3 DEF ReceiveUpgrade
<1> QED
  BY <1>1, <1>3, UnpaidArrival

LEMMA ToolCallArrives ==
    ASSUME ApiInv, NEW i \in Slots, requests[i] = Unsent, NEW offer \in Offers, NEW call, Arrived(call, offer),
           offer.surface = "MCP", ReceiveToolCall(i, call), UNCHANGED <<clock, subjectVars>>
    PROVE  ApiInv'
<1>1. UNCHANGED addressVars /\ call.offer = offer
  BY DEF ReceiveToolCall, Arrived
<1>2. {"route", "scope"} \subseteq Gates /\ {"TOOL_UNAUTHORIZED", "INVALID_INPUT"} \subseteq Codes /\ "handling" \in Stages
  BY DEF Gates, Codes, Stages
<1>3. ASSUME NEW gate \in {"route", "scope"}, NEW code \in {"TOOL_UNAUTHORIZED", "INVALID_INPUT"},
             Replies(i, call, gate, code), gate = "scope" => ~Authorize(offer.production),
             gate = "route" /\ offer.tool \in Wired => code = "INVALID_INPUT" /\ offer.body # "VALID"
      PROVE  \E new \in SentCalls : Moves(i, new) /\ CallIsSound(new) /\ new.offer = offer
  <2>1. PICK new \in SentCalls : Moves(i, new) /\ Becomes(new, call, "answered", gate, code)
    BY <1>2, <1>3, ReplyMoves DEF Arrived
  <2>2. CallIsSound(new)
    BY <1>3, <2>1 DEF CallIsSound, Becomes, Arrived, ToolAnswer
  <2> QED
    BY <2>1, <2>2 DEF Becomes, Arrived
<1>4. ASSUME Moves(i, [call EXCEPT !.stage = "handling"]), offer.body = "VALID"
      PROVE  \E new \in SentCalls : Moves(i, new) /\ CallIsSound(new) /\ new.offer = offer
  <2>1. PICK new \in SentCalls : Moves(i, new) /\ Becomes(new, call, "handling", call.gate, call.code)
    BY <1>2, <1>4, StageMoves DEF Arrived
  <2>2. CallIsSound(new)
    BY <1>4, <2>1 DEF CallIsSound, Becomes, Arrived
  <2> QED
    BY <2>1, <2>2 DEF Becomes, Arrived
<1>5. \E new \in SentCalls : Moves(i, new) /\ CallIsSound(new) /\ new.offer = offer
  <2>1. CASE offer.tool \notin Wired
    BY <1>1, <1>3, <2>1 DEF ReceiveToolCall
  <2>2. CASE offer.tool \in Wired /\ offer.body # "VALID"
    BY <1>1, <1>3, <2>2 DEF ReceiveToolCall
  <2>3. CASE offer.tool \in Wired /\ offer.body = "VALID" /\ ~Authorize(offer.production)
    BY <1>1, <1>3, <2>3 DEF ReceiveToolCall
  <2>4. CASE offer.tool \in Wired /\ offer.body = "VALID" /\ Authorize(offer.production)
    BY <1>1, <1>4, <2>4 DEF ReceiveToolCall
  <2> QED
    BY <2>1, <2>2, <2>3, <2>4
<1> QED
  BY <1>1, <1>5, UnpaidArrival

LEMMA ArriveInv == ASSUME ApiInv, NEW i \in Slots, NEW offer \in Offers, Arrive(i, offer) PROVE ApiInv'
<1>1. PICK call : call = [stage |-> "arrived", offer |-> offer, verdict |-> VerifyToken(offer.token),
                          verifiedAt |-> clock, gate |-> "none", code |-> "none", outcome |-> "none"]
  OBVIOUS
<1>2. clock \in Int
  BY DEF ApiInv, AddressInv, LimitsOK
<1>3. Arrived(call, offer)
  BY <1>1, <1>2, ArrivedCall
<1>4. requests[i] = Unsent /\ UNCHANGED <<clock, subjectVars>> /\ offer.surface \in {"REST", "SOCKET", "MCP"}
  BY OffersAreCalls DEF Arrive
<1>5. CASE offer.surface = "REST"
  <2>1. ReceiveRequest(i, call)
    BY <1>1, <1>5 DEF Arrive
  <2> QED
    BY <1>3, <1>4, <1>5, <2>1, RequestArrives
<1>6. CASE offer.surface = "SOCKET"
  <2>1. ReceiveUpgrade(i, call)
    BY <1>1, <1>6 DEF Arrive
  <2> QED
    BY <1>3, <1>4, <1>6, <2>1, UpgradeArrives
<1>7. CASE offer.surface = "MCP"
  <2>1. ReceiveToolCall(i, call)
    BY <1>1, <1>7 DEF Arrive
  <2> QED
    BY <1>3, <1>4, <1>7, <2>1, ToolCallArrives
<1> QED
  BY <1>4, <1>5, <1>6, <1>7

LEMMA TickInv == ASSUME ApiInv, Tick PROVE ApiInv'
<1>1. AddressInv' /\ SubjectInv'
  BY LimitersTick DEF ApiInv
<1>2. UNCHANGED <<requests, addressServed, subjectServed>>
  BY DEF Tick, addressVars, subjectVars
<1>3. CallsInv'
  BY <1>2 DEF ApiInv, CallsInv, CallIsSound
<1>4. PaidInv'
  BY <1>2 DEF ApiInv, PaidInv
<1> QED
  BY <1>1, <1>3, <1>4 DEF ApiInv

LEMMA ApiUnchanged == ASSUME ApiInv, UNCHANGED apiVars PROVE ApiInv'
<1>1. AddressInv' /\ SubjectInv'
  BY LimitersUnchanged DEF ApiInv, apiVars
<1>2. UNCHANGED <<requests, addressServed, subjectServed>>
  BY DEF apiVars, addressVars, subjectVars
<1>3. CallsInv'
  BY <1>2 DEF ApiInv, CallsInv, CallIsSound
<1>4. PaidInv'
  BY <1>2 DEF ApiInv, PaidInv
<1> QED
  BY <1>1, <1>3, <1>4 DEF ApiInv

LEMMA ApiStep == ASSUME ApiInv, ApiNext PROVE ApiInv'
  BY ArriveInv, ProbeEndsInv, DemoSessionEndsInv, VerificationEndsInv, HandlerEndsInv, TickInv DEF ApiNext

LEMMA ApiInitInv == ApiInit => ApiInv
<1> SUFFICES ASSUME ApiInit PROVE ApiInv
  OBVIOUS
<1>1. AddressInv /\ SubjectInv
  BY AddressInitInv, SubjectInitInv DEF ApiInit
<1>2. requests = [i \in Slots |-> Unsent] /\ \A i \in Slots : requests[i] = Unsent
  BY DEF ApiInit
<1>3. CallsInv
  BY <1>2 DEF CallsInv
<1>4. LastTick \in 0..LastTick
  BY ApiAssumption
<1>5. /\ \A a \in Addresses : addressServed[a][LastTick] = 0
      /\ \A who \in Subjects : subjectServed[who][LastTick] = 0
  BY <1>4 DEF ApiInit, RequestLimiter!RateInit, WriteLimiter!RateInit
<1>6. /\ \A a \in Addresses : {i \in Slots : PaysAddress(requests[i], a)} = {}
      /\ \A who \in Subjects : {i \in Slots : PaysSubject(requests[i], who)} = {}
  BY <1>2, UnsentPaysNothing
<1>7. PaidInv
  BY <1>5, <1>6, FS_EmptySet DEF PaidInv
<1> QED
  BY <1>1, <1>3, <1>7 DEF ApiInv

LEMMA FailingCodes ==
    ASSUME NEW code \in Codes \ {"none"}, HttpStatusByCode[code] >= 500
    PROVE  code \in {"INTERNAL_ERROR", "NOT_READY"}
  BY DEF Codes, HttpStatusByCode

LEMMA RolesWhoMayWrite ==
    ASSUME NEW token, token.roles \in (SUBSET {"viewer", "requester", "approver"}) \ {{}}
    PROVE  /\ PrincipalHasRole(token, "viewer")
           /\ PrincipalHasRole(token, "requester") => token.roles \cap {"requester", "approver"} # {}
<1>1. RoleRank["viewer"] = 1 /\ RoleRank["requester"] = 2 /\ RoleRank["approver"] = 3
  BY DEF RoleRank
<1> QED
  BY <1>1 DEF PrincipalHasRole

\* What Denied says of an offer.
LEMMA DeniedMeans ==
    ASSUME NEW offer \in Offers
    PROVE  /\ Denied(offer) = "none" =>
                /\ offer.production \in AllowedProductionIds \cap offer.token.productions
                /\ offer.method # "GET" => offer.token.roles \cap {"requester", "approver"} # {}
           /\ offer.method = "GET" => (Denied(offer) = "none" <=> MaySubscribe(offer))
<1>1. /\ PrincipalHasRole(offer.token, "viewer")
      /\ PrincipalHasRole(offer.token, "requester") => offer.token.roles \cap {"requester", "approver"} # {}
  BY RolesWhoMayWrite, OffersAreCalls
<1> QED
  BY <1>1 DEF Denied, MaySubscribe, Authorize, PrincipalMayAccess, RoleForMethod

LEMMA ApiInvSuffices == ApiInv => CallsAreAdmitted
<1> SUFFICES ASSUME ApiInv PROVE CallsAreAdmitted
  OBVIOUS
<1>1. \A i \in Sent : requests[i] \in SentCalls /\ CallIsSound(requests[i]) /\ requests[i].offer \in Offers
  BY DEF Sent, ApiInv, CallsInv, SentCalls
<1>2. RequestsAreEntitled
  <2>1. ASSUME NEW i \in On("REST"), HasRun(i), NEW offer, offer = requests[i].offer
        PROVE  /\ offer.token.shape = "claims"
               /\ requests[i].verifiedAt < offer.token.expiresAt
               /\ offer.production \in AllowedProductionIds \cap offer.token.productions
               /\ offer.method # "GET" => offer.token.roles \cap {"requester", "approver"} # {}
    <3>1. CallIsSound(requests[i]) /\ offer \in Offers /\ offer.surface = "REST" /\ IsAdmitted(requests[i])
      BY <1>1, <2>1 DEF On, HasRun, IsAdmitted
    <3>2. requests[i].verdict = "OK" /\ Denied(offer) = "none"
      BY <2>1, <3>1 DEF CallIsSound
    <3>3. offer.token.shape = "claims" /\ requests[i].verifiedAt < offer.token.expiresAt
      BY <2>1, <3>1, <3>2 DEF CallIsSound
    <3> QED
      BY <3>1, <3>2, <3>3, DeniedMeans
  <2> QED
    BY <2>1 DEF RequestsAreEntitled
<1>3. QuotasArePaidOnce
  <2>1. ASSUME NEW a \in Addresses
        PROVE  {i \in On("REST") : requests[i].offer.address = a /\ requests[i].gate \notin {"body", "address"}}
                 = {i \in Slots : PaysAddress(requests[i], a)}
    BY DEF On, Sent, PaysAddress
  <2>2. ASSUME NEW who \in Subjects
        PROVE  {i \in On("REST") : /\ requests[i].offer.token.subject = who /\ requests[i].offer.method # "GET"
                                   /\ HasRun(i) \/ requests[i].gate = "route"}
                 = {i \in Slots : PaysSubject(requests[i], who)}
    BY DEF On, Sent, PaysSubject, HasRun, IsAdmitted
  <2> QED
    BY <2>1, <2>2 DEF QuotasArePaidOnce, ApiInv, PaidInv
<1>4. SurfacesAgree
  <2>1. ASSUME NEW i \in On("MCP"), NEW j \in On("REST"), NEW tool, NEW route, tool = requests[i], route = requests[j],
               tool.stage = "answered", route.stage = "answered", route.gate \in {"route", "handler"},
               tool.offer.tool = route.offer.tool, tool.offer.tool \in Wired,
               tool.offer.body = route.offer.body, Authorize(tool.offer.production), tool.outcome = route.outcome
        PROVE  tool.code = route.code
    <3>1. CallIsSound(tool) /\ tool.offer.surface = "MCP" /\ CallIsSound(route) /\ route.offer.surface = "REST"
      BY <1>1, <2>1 DEF On
    <3>2. tool.gate \in {"route", "handler"}
      BY <2>1, <3>1 DEF CallIsSound
    <3>3. tool.code = ToolAnswer(tool)
      BY <2>1, <3>1, <3>2 DEF CallIsSound
    <3>4. route.code = ToolAnswer(route)
      BY <2>1, <3>1 DEF CallIsSound
    <3> QED
      BY <2>1, <3>3, <3>4 DEF ToolAnswer
  <2> QED
    BY <2>1 DEF SurfacesAgree
<1>5. SocketsSeeWhatReadsSee
  <2>1. ASSUME NEW i \in On("SOCKET"), NEW j \in On("REST"), NEW read, read = requests[j].offer,
               requests[i].gate = "upgrade", requests[i].offer.token = read.token, read.method = "GET",
               read.production = requests[i].offer.production, requests[j].gate \in {"scope", "route", "handler"}
        PROVE  MaySubscribe(requests[i].offer) <=> requests[j].gate # "scope"
    <3>1. CallIsSound(requests[j]) /\ read \in Offers /\ read.surface = "REST"
      BY <1>1, <2>1 DEF On
    <3>2. requests[j].gate = "scope" => Denied(read) # "none"
      BY <2>1, <3>1 DEF CallIsSound
    <3>3. requests[j].gate # "scope" => Denied(read) = "none"
      BY <2>1, <3>1 DEF CallIsSound, IsAdmitted
    <3>4. Denied(read) = "none" <=> MaySubscribe(read)
      BY <2>1, <3>1, DeniedMeans
    <3>5. MaySubscribe(read) <=> MaySubscribe(requests[i].offer)
      BY <2>1 DEF MaySubscribe, PrincipalMayAccess
    <3> QED
      BY <3>2, <3>3, <3>4, <3>5
  <2> QED
    BY <2>1 DEF SocketsSeeWhatReadsSee
<1>6. FailuresAreTheServersOrUnreadable
  <2>1. ASSUME NEW i \in Sent, requests[i].stage = "answered", HttpStatusByCode[requests[i].code] >= 500
        PROVE  FailedWithin(requests[i]) \/ WasUnreadable(requests[i])
    <3>1. CallIsSound(requests[i]) /\ requests[i].code \in Codes \ {"none"}
      BY <1>1, <2>1 DEF CallIsSound, SentCalls
    <3>2. requests[i].code \in {"INTERNAL_ERROR", "NOT_READY"}
      BY <2>1, <3>1, FailingCodes
    <3> QED
      BY <3>1, <3>2 DEF CallIsSound
  <2> QED
    BY <2>1 DEF FailuresAreTheServersOrUnreadable
<1>7. RequestLimiter!QuotaIsKept /\ WriteLimiter!QuotaIsKept
  BY AddressQuotaIsKept, SubjectQuotaIsKept DEF ApiInv
<1> QED
  BY <1>2, <1>3, <1>4, <1>5, <1>6, <1>7 DEF CallsAreAdmitted

\* For any number of calls, callers, limits and tokens, however calls overlap
\* and tokens expire between their steps: a request reaches a use case only for
\* somebody who may make it, both limiters are charged for exactly the requests
\* they let through, a tool answers alike on both of its surfaces, a socket may
\* follow what its token may read, and a caller is told of a failure of the
\* server that was none only when its body was refused by the parser or its
\* path did not decode (app.ts, invoke.ts, server.ts of the two servers).
THEOREM CallsStayAdmitted == EdgesSpec => []CallsAreAdmitted
<1>1. EdgesInit => ApiInv
  BY ApiInitInv DEF EdgesInit
<1>2. ApiInv /\ [EdgesNext]_edgeVars => ApiInv'
  <2> SUFFICES ASSUME ApiInv, [EdgesNext]_edgeVars PROVE ApiInv'
    OBVIOUS
  <2>1. CASE ApiNext
    BY <2>1, ApiStep
  <2>2. CASE UNCHANGED apiVars
    BY <2>2, ApiUnchanged
  <2> QED
    BY <2>1, <2>2 DEF EdgesNext, edgeVars
<1> QED
  BY <1>1, <1>2, ApiInvSuffices, PTL DEF EdgesSpec

-----------------------------------------------------------------------------
(* The console.                                                            *)

JobStages == DOMAIN NextStages

Decisions == {"resolve", "apply", "approve", "reject"}

CallKinds == Decisions \cup {"submit", "refresh", "request", "impact", "load", "page"}

CallAnswers == {Nothing, "refused"} \cup JobStages

ConsoleCalls ==
    [kind : CallKinds, production : Homes, job : 0..MaxTracked, ends : BOOLEAN, newest : BOOLEAN, answer : CallAnswers]

TrackedJobs == [id : JobIds, production : Homes, stage : JobStages]

ServerJobs == [production : Homes, stage : JobStages]

ConsoleTypes ==
    /\ onWorkspace \in BOOLEAN /\ hurried \in BOOLEAN /\ unread \in BOOLEAN
    /\ opened \in Homes \cup {Nothing}
    /\ loadState \in {"idle", "loading", "ready", "error"} /\ state \in {"idle", "submitting", "error"}
    /\ job \in TrackedJobs \cup {Nothing}
    /\ jobs \in [JobIds -> ServerJobs \cup {Nothing}]
    /\ pending \subseteq ConsoleCalls

\* A call for a job is for one the server has.
CallIsKnown(call, known) ==
    /\ call.kind \in {"load", "page"} => call.job = 0
    /\ call.kind \notin {"load", "page", "submit"} \/ call.answer \in JobStages => call.job # 0
    /\ call.job # 0 => known[call.job] # Nothing
    /\ call.ends => call.kind \in {"refresh", "request", "impact"}

JobsAreKnown ==
    /\ job # Nothing => jobs[job.id] # Nothing
    /\ \A call \in pending : CallIsKnown(call, jobs)

LoadsAreOfTheOpened ==
    /\ loadState = "loading" <=> \E c \in pending : c.kind = "load"
    /\ \A c, d \in pending : c.kind = "load" /\ d.kind = "load" => c = d
    /\ \A c \in pending : c.kind = "load" => c.production = opened
    /\ loadState = "ready" => shown = opened /\ followed = opened

\* What the form waits for.
IsSending(call) == call.kind \in Decisions \cup {"submit"} \/ call.ends

\* What is sent is of the production that is open, and of the tracked job.
CallFits(call, production, tracked) ==
    /\ call.production = production
    /\ call.kind = "submit" => tracked = Nothing
    /\ call.kind \in Decisions => tracked # Nothing /\ tracked.id = call.job

OneIsSent ==
    /\ state = "submitting" <=> \E c \in pending : IsSending(c)
    /\ \A c, d \in pending : IsSending(c) /\ IsSending(d) => c = d
    /\ \A c \in pending : IsSending(c) => CallFits(c, opened, job)

TrackedIsShown ==
    /\ job # Nothing => job.production = opened /\ jobs[job.id].production = opened
    /\ {request, impact} \subseteq {Nothing, IF job = Nothing THEN Nothing ELSE job.id}

CallsNameTheirProduction == \A call \in pending : call.job # 0 => jobs[call.job].production = call.production

PageOnly ==
    /\ job = Nothing /\ request = Nothing /\ impact = Nothing /\ state = "idle"
    /\ page \in {Nothing, "error", opened}
    /\ \A c \in pending : c.kind \in {"load", "page"} /\ (c.kind = "page" /\ c.newest => c.production = opened)

NothingIsOpen ==
    /\ pending = {} /\ job = Nothing /\ request = Nothing /\ impact = Nothing
    /\ state = "idle" /\ loadState = "idle"

\* A tracked job that is behind the view is being read.
ReadIsDue ==
    job # Nothing /\ view # Nothing /\ job.id \in DOMAIN view /\ view[job.id] # job.stage /\ ~unread =>
      \E c \in pending : c.kind = "refresh" /\ c.job = job.id

CalmInv == LoadsAreOfTheOpened /\ OneIsSent /\ TrackedIsShown /\ CallsNameTheirProduction

ConsoleInv ==
    /\ ConsoleTypes
    /\ JobsAreKnown
    /\ ~hurried => CalmInv
    /\ ~onWorkspace => PageOnly
    /\ opened = Nothing => NothingIsOpen
    /\ ReadIsDue

LEMMA NothingIsNoRecord ==
    /\ \A home \in Homes : home # Nothing
    /\ Nothing \notin JobStages
    /\ \A tracked \in TrackedJobs : tracked # Nothing
    /\ \A known \in ServerJobs : known # Nothing
  BY NothingIsNothingElse DEF TrackedJobs, ServerJobs, JobStages

LEMMA JobNumbers == MaxTracked \in Nat /\ JobIds = 1..MaxTracked /\ \A id \in 0..MaxTracked : id # 0 => id \in JobIds
  BY NothingIsNothingElse DEF JobIds

LEMMA ConsoleInitInv == ConsoleInit => ConsoleInv
<1> SUFFICES ASSUME ConsoleInit PROVE ConsoleInv
  OBVIOUS
<1>1. ConsoleTypes
  BY DEF ConsoleInit, ConsoleTypes
<1>2. JobsAreKnown /\ ReadIsDue
  BY DEF ConsoleInit, JobsAreKnown, ReadIsDue
<1>3. CalmInv
  BY DEF ConsoleInit, CalmInv, LoadsAreOfTheOpened, OneIsSent, TrackedIsShown, CallsNameTheirProduction
<1>4. PageOnly /\ NothingIsOpen
  BY DEF ConsoleInit, PageOnly, NothingIsOpen
<1> QED
  BY <1>1, <1>2, <1>3, <1>4 DEF ConsoleInv

ConsoleStands ==
    UNCHANGED <<onWorkspace, storeVars, realtimeVars, workVars, page, jobs, pending, hurried, unread>>

LEMMA ConsoleUnchanged == ASSUME ConsoleInv, ConsoleStands PROVE ConsoleInv'
<1>1. ConsoleTypes' /\ JobsAreKnown' /\ ReadIsDue'
  BY DEF ConsoleInv, ConsoleTypes, JobsAreKnown, ReadIsDue, ConsoleStands, storeVars, realtimeVars, workVars
<1>2. CalmInv <=> CalmInv'
  BY DEF CalmInv, LoadsAreOfTheOpened, OneIsSent, TrackedIsShown, CallsNameTheirProduction,
     ConsoleStands, storeVars, realtimeVars, workVars
<1>3. (PageOnly <=> PageOnly') /\ (NothingIsOpen <=> NothingIsOpen')
  BY DEF PageOnly, NothingIsOpen, ConsoleStands, storeVars, realtimeVars, workVars
<1> QED
  BY <1>1, <1>2, <1>3 DEF ConsoleInv, ConsoleStands, storeVars

-----------------------------------------------------------------------------
(* The server moves.                                                       *)

\* The jobs the server had are there, of the production they had.
JobsGrow(before, after) ==
    /\ after \in [JobIds -> ServerJobs \cup {Nothing}]
    /\ \A id \in JobIds : before[id] # Nothing => after[id] # Nothing /\ after[id].production = before[id].production

LEMMA GrownJobs ==
    ASSUME ConsoleInv, JobsGrow(jobs, jobs')
    PROVE  /\ \A call \in pending : CallIsKnown(call, jobs')
           /\ job # Nothing => jobs'[job.id] # Nothing /\ jobs'[job.id].production = jobs[job.id].production
           /\ \A call \in pending : call.job # 0 => jobs'[call.job].production = jobs[call.job].production
<1>1. ASSUME NEW call \in pending, call.job # 0
      PROVE  jobs'[call.job] # Nothing /\ jobs'[call.job].production = jobs[call.job].production
  <2>1. call.job \in JobIds
    <3>1. call \in ConsoleCalls
      BY DEF ConsoleInv, ConsoleTypes
    <3>2. call.job \in 0..MaxTracked
      BY <3>1 DEF ConsoleCalls
    <3> QED
      BY <1>1, <3>2, JobNumbers
  <2>2. jobs[call.job] # Nothing
    BY <1>1 DEF ConsoleInv, JobsAreKnown, CallIsKnown
  <2> QED
    BY <2>1, <2>2 DEF JobsGrow
<1>2. ASSUME job # Nothing
      PROVE  jobs'[job.id] # Nothing /\ jobs'[job.id].production = jobs[job.id].production
  <2>1. job.id \in JobIds /\ jobs[job.id] # Nothing
    BY <1>2 DEF ConsoleInv, ConsoleTypes, JobsAreKnown, TrackedJobs
  <2> QED
    BY <2>1 DEF JobsGrow
<1>3. \A call \in pending : CallIsKnown(call, jobs')
  BY <1>1 DEF ConsoleInv, JobsAreKnown, CallIsKnown
<1> QED
  BY <1>1, <1>2, <1>3

LEMMA JobMovesInv == ASSUME ConsoleInv, NEW id \in JobIds, JobMoves(id) PROVE ConsoleInv'
<1>1. jobs \in [JobIds -> ServerJobs \cup {Nothing}]
  BY DEF ConsoleInv, ConsoleTypes
<1>2. PICK stage \in NextStages[jobs[id].stage] : jobs' = [jobs EXCEPT ![id].stage = stage]
  BY DEF JobMoves
<1>3. jobs[id] # Nothing /\ jobs[id] \in ServerJobs /\ jobs[id].stage \in JobStages
  BY <1>1 DEF JobMoves, ServerJobs
<1>4. stage \in JobStages
  BY <1>2, <1>3 DEF NextStages, JobStages
<1>5. PICK moved : moved = [jobs[id] EXCEPT !.stage = stage]
  OBVIOUS
<1>6. moved \in ServerJobs /\ moved.production = jobs[id].production
  BY <1>3, <1>4, <1>5 DEF ServerJobs
<1>7. jobs' = [jobs EXCEPT ![id] = moved]
  BY <1>2, <1>5
<1>8. JobsGrow(jobs, jobs')
  BY <1>1, <1>6, <1>7, NothingIsNoRecord DEF JobsGrow
<1>9. UNCHANGED <<onWorkspace, opened, loadState, shown, followed, view, job, request, impact, state, page, pending,
                  opens, hurried, unread>>
  BY DEF JobMoves, Serving, storeVars, realtimeVars, workVars
<1>10. ConsoleTypes'
  BY <1>8, <1>9 DEF ConsoleInv, ConsoleTypes, JobsGrow
<1>11. JobsAreKnown'
  BY <1>8, <1>9, GrownJobs DEF JobsAreKnown
<1>12. ~hurried => CalmInv'
  <2>1. ~hurried => LoadsAreOfTheOpened' /\ OneIsSent'
    BY <1>9 DEF ConsoleInv, CalmInv, LoadsAreOfTheOpened, OneIsSent
  <2>2. ~hurried => TrackedIsShown'
    BY <1>8, <1>9, GrownJobs DEF ConsoleInv, CalmInv, TrackedIsShown
  <2>3. ~hurried => CallsNameTheirProduction'
    BY <1>8, <1>9, GrownJobs DEF ConsoleInv, CalmInv, CallsNameTheirProduction
  <2> QED
    BY <2>1, <2>2, <2>3 DEF CalmInv
<1>13. (PageOnly => PageOnly') /\ (NothingIsOpen => NothingIsOpen') /\ ReadIsDue'
  BY <1>9 DEF ConsoleInv, PageOnly, NothingIsOpen, ReadIsDue
<1> QED
  BY <1>9, <1>10, <1>11, <1>12, <1>13 DEF ConsoleInv

\* The same call once it is answered; a submitted job has its number by then.
IsAnswered(old, new, known) ==
    /\ new \in ConsoleCalls /\ CallIsKnown(new, known)
    /\ new.kind = old.kind /\ new.production = old.production /\ new.ends = old.ends /\ new.newest = old.newest
    /\ new.job = old.job \/ (old.kind = "submit" /\ known[new.job].production = new.production)

LEMMA AnsweredKeepsConsoleInv ==
    ASSUME ConsoleInv, JobsGrow(jobs, jobs'), UNCHANGED Serving,
           NEW call \in pending, NEW new, IsAnswered(call, new, jobs'),
           pending' = (pending \ {call}) \cup {new}
    PROVE  ConsoleInv'
<1>1. UNCHANGED <<onWorkspace, opened, loadState, shown, followed, view, job, request, impact, state, page,
                  opens, hurried, unread>>
  BY DEF Serving, storeVars, realtimeVars, workVars
<1>2. \A c \in pending' : c = new \/ c \in pending
  OBVIOUS
<1>3. new \in pending' /\ \A c \in pending : c = call \/ c \in pending'
  OBVIOUS
<1>4. new.kind = call.kind /\ new.production = call.production /\ new.ends = call.ends /\ new.newest = call.newest
  BY DEF IsAnswered
<1>5. new.job = call.job \/ (call.kind = "submit" /\ jobs'[new.job].production = new.production)
  BY DEF IsAnswered
<1>6. ConsoleTypes'
  BY <1>1, <1>2 DEF ConsoleInv, ConsoleTypes, JobsGrow, IsAnswered
<1>7. JobsAreKnown'
  BY <1>1, <1>2, GrownJobs DEF JobsAreKnown, IsAnswered
<1>8. ASSUME ~hurried PROVE CalmInv'
  <2>1. LoadsAreOfTheOpened /\ OneIsSent /\ TrackedIsShown /\ CallsNameTheirProduction
    BY <1>8 DEF ConsoleInv, CalmInv
  <2>2. LoadsAreOfTheOpened'
    <3>1. (\E c \in pending' : c.kind = "load") <=> (\E c \in pending : c.kind = "load")
      BY <1>2, <1>3, <1>4
    <3>2. \A c, d \in pending' : c.kind = "load" /\ d.kind = "load" => c = d
      BY <2>1, <1>4 DEF LoadsAreOfTheOpened
    <3>3. \A c \in pending' : c.kind = "load" => c.production = opened
      BY <2>1, <1>2, <1>4 DEF LoadsAreOfTheOpened
    <3> QED
      BY <1>1, <2>1, <3>1, <3>2, <3>3 DEF LoadsAreOfTheOpened
  <2>3. OneIsSent'
    <3>1. IsSending(new) <=> IsSending(call)
      BY <1>4 DEF IsSending
    <3>2. (\E c \in pending' : IsSending(c)) <=> (\E c \in pending : IsSending(c))
      BY <1>2, <1>3, <3>1
    <3>3. \A c, d \in pending' : IsSending(c) /\ IsSending(d) => c = d
      BY <2>1, <3>1 DEF OneIsSent
    <3>4. ASSUME NEW c \in pending', IsSending(c) PROVE CallFits(c, opened, job)
      <4>1. CASE c = new
        <5>1. CallFits(call, opened, job)
          BY <2>1, <3>1, <3>4, <4>1 DEF OneIsSent
        <5> QED
          BY <1>4, <1>5, <4>1, <5>1 DEF CallFits, Decisions
      <4>2. CASE c \in pending
        BY <2>1, <3>4, <4>2 DEF OneIsSent
      <4> QED
        BY <1>2, <4>1, <4>2
    <3> QED
      BY <1>1, <2>1, <3>2, <3>3, <3>4 DEF OneIsSent
  <2>4. TrackedIsShown'
    BY <1>1, <2>1, GrownJobs DEF TrackedIsShown
  <2>5. CallsNameTheirProduction'
    <3>1. new.job # 0 => jobs'[new.job].production = new.production
      BY <1>4, <1>5, <2>1, GrownJobs DEF CallsNameTheirProduction
    <3> QED
      BY <1>2, <2>1, <3>1, GrownJobs DEF CallsNameTheirProduction
  <2> QED
    BY <2>2, <2>3, <2>4, <2>5 DEF CalmInv
<1>9. ~onWorkspace => PageOnly'
  BY <1>1, <1>2, <1>4 DEF ConsoleInv, PageOnly
<1>10. opened # Nothing
  BY DEF ConsoleInv, NothingIsOpen
<1>11. ReadIsDue'
  <2>1. \A c \in pending : c.kind = "refresh" => \E d \in pending' : d.kind = "refresh" /\ d.job = c.job
    BY <1>3, <1>4, <1>5
  <2> QED
    BY <1>1, <2>1 DEF ConsoleInv, ReadIsDue
<1> QED
  BY <1>1, <1>6, <1>7, <1>8, <1>9, <1>10, <1>11 DEF ConsoleInv

LEMMA ServedCall ==
    ASSUME ConsoleInv, NEW call \in pending, NEW answer \in CallAnswers, NEW new,
           new = [call EXCEPT !.answer = answer],
           answer = "refused" \/ call.job # 0, JobsGrow(jobs, jobs')
    PROVE  IsAnswered(call, new, jobs')
<1>1. call \in ConsoleCalls
  BY DEF ConsoleInv, ConsoleTypes
<1>2. new \in ConsoleCalls /\ new.kind = call.kind /\ new.production = call.production /\ new.ends = call.ends
      /\ new.newest = call.newest /\ new.job = call.job /\ new.answer = answer
  BY <1>1 DEF ConsoleCalls
<1>3. CallIsKnown(call, jobs')
  BY GrownJobs
<1>4. "refused" \notin JobStages
  BY DEF JobStages, NextStages
<1> QED
  BY <1>2, <1>3, <1>4 DEF IsAnswered, CallIsKnown

LEMMA FailInv == ASSUME ConsoleInv, NEW call \in pending, Fail(call) PROVE ConsoleInv'
<1>1. PICK new : new = [call EXCEPT !.answer = "refused"]
  OBVIOUS
<1>2. pending' = (pending \ {call}) \cup {new} /\ jobs' = jobs /\ UNCHANGED Serving
  BY <1>1 DEF Fail, Served
<1>3. JobsGrow(jobs, jobs')
  BY <1>2 DEF JobsGrow, ConsoleInv, ConsoleTypes
<1>4. "refused" \in CallAnswers
  BY DEF CallAnswers
<1>5. IsAnswered(call, new, jobs')
  BY <1>1, <1>3, <1>4, ServedCall
<1> QED
  BY <1>2, <1>3, <1>5, AnsweredKeepsConsoleInv

LEMMA CallJob ==
    ASSUME ConsoleInv, NEW call \in pending
    PROVE  /\ call \in ConsoleCalls /\ call.kind \in CallKinds /\ call.production \in Homes /\ call.job \in 0..MaxTracked
           /\ call.ends \in BOOLEAN /\ call.answer \in CallAnswers
           /\ call.job # 0 => call.job \in JobIds /\ jobs[call.job] \in ServerJobs
           /\ CallIsKnown(call, jobs)
<1>1. call \in ConsoleCalls /\ CallIsKnown(call, jobs) /\ jobs \in [JobIds -> ServerJobs \cup {Nothing}]
  BY DEF ConsoleInv, ConsoleTypes, JobsAreKnown
<1>2. call.kind \in CallKinds /\ call.production \in Homes /\ call.job \in 0..MaxTracked
      /\ call.ends \in BOOLEAN /\ call.answer \in CallAnswers
  BY <1>1 DEF ConsoleCalls
<1>3. call.job # 0 => call.job \in JobIds /\ jobs[call.job] # Nothing
  BY <1>1, <1>2, JobNumbers DEF CallIsKnown
<1> QED
  BY <1>1, <1>2, <1>3

LEMMA ServeSubmitInv ==
    ASSUME ConsoleInv, NEW call \in pending, call.kind = "submit", ServeSubmit(call), UNCHANGED Serving
    PROVE  ConsoleInv'
<1>1. jobs \in [JobIds -> ServerJobs \cup {Nothing}]
  BY DEF ConsoleInv, ConsoleTypes
<1>2. PICK id \in JobIds :
        /\ \A j \in JobIds : (j < id) <=> (jobs[j] # Nothing)
        /\ jobs' = [jobs EXCEPT ![id] = [production |-> call.production, stage |-> "received"]]
        /\ pending' = (pending \ {call}) \cup {[call EXCEPT !.job = id, !.answer = "received"]}
  BY DEF ServeSubmit
<1>3. PICK new : new = [call EXCEPT !.job = id, !.answer = "received"]
  OBVIOUS
<1>4. PICK made : made = [production |-> call.production, stage |-> "received"]
  OBVIOUS
<1>5. id \in 0..MaxTracked /\ id # 0 /\ ~(id < id)
  BY JobNumbers
<1>6. jobs[id] = Nothing
  BY <1>2, <1>5
<1>7. made \in ServerJobs /\ made.production = call.production
  BY <1>4, CallJob DEF ServerJobs, JobStages, NextStages
<1>8. jobs' = [jobs EXCEPT ![id] = made]
  BY <1>2, <1>4
<1>9. JobsGrow(jobs, jobs') /\ jobs'[id] = made /\ made # Nothing
  BY <1>1, <1>6, <1>7, <1>8, NothingIsNoRecord DEF JobsGrow
<1>10. "received" \in CallAnswers
  BY DEF CallAnswers, JobStages, NextStages
<1>11. /\ new \in ConsoleCalls /\ new.kind = call.kind /\ new.production = call.production /\ new.ends = call.ends
       /\ new.newest = call.newest /\ new.job = id
  BY <1>3, <1>5, <1>10, CallJob DEF ConsoleCalls
<1>12. CallIsKnown(call, jobs)
  BY CallJob
<1>13. CallIsKnown(new, jobs')
  BY <1>5, <1>9, <1>11, <1>12 DEF CallIsKnown
<1>14. jobs'[new.job].production = new.production
  BY <1>7, <1>9, <1>11
<1>15. IsAnswered(call, new, jobs')
  BY <1>11, <1>13, <1>14 DEF IsAnswered
<1> QED
  BY <1>2, <1>3, <1>9, <1>15, AnsweredKeepsConsoleInv

\* A call for a job is answered, and the job may have moved.
LEMMA ServedInv ==
    ASSUME ConsoleInv, NEW call \in pending, call.job # 0, NEW answer \in CallAnswers,
           Served(call, answer), JobsGrow(jobs, jobs'), UNCHANGED Serving
    PROVE  ConsoleInv'
<1>1. PICK new : new = [call EXCEPT !.answer = answer]
  OBVIOUS
<1>2. IsAnswered(call, new, jobs')
  BY <1>1, ServedCall
<1> QED
  BY <1>1, <1>2, AnsweredKeepsConsoleInv DEF Served

LEMMA ServeStepInv ==
    ASSUME ConsoleInv, NEW call \in pending, call.job # 0, NEW taken, NEW refused,
           ServeStep(call, taken, refused), UNCHANGED jobs, UNCHANGED Serving
    PROVE  ConsoleInv'
<1>1. jobs[call.job].stage \in CallAnswers /\ "refused" \in CallAnswers
  BY CallJob DEF ServerJobs, CallAnswers
<1>2. PICK answer \in CallAnswers : Served(call, answer)
  BY <1>1 DEF ServeStep
<1>3. JobsGrow(jobs, jobs')
  BY DEF JobsGrow, ConsoleInv, ConsoleTypes
<1> QED
  BY <1>2, <1>3, ServedInv

LEMMA CloseRejectedInv ==
    ASSUME ConsoleInv, NEW call \in pending, call.job # 0, CloseRejected(call), UNCHANGED Serving
    PROVE  ConsoleInv'
<1>1. jobs \in [JobIds -> ServerJobs \cup {Nothing}]
  BY DEF ConsoleInv, ConsoleTypes
<1>2. call.job \in JobIds /\ jobs[call.job] \in ServerJobs
  BY CallJob
<1>3. PICK moved : moved = [jobs[call.job] EXCEPT !.stage = "completed"]
  OBVIOUS
<1>4. "completed" \in JobStages /\ "awaiting_approval" \in CallAnswers
  BY DEF JobStages, NextStages, CallAnswers
<1>5. moved \in ServerJobs /\ moved.production = jobs[call.job].production
  BY <1>2, <1>3, <1>4 DEF ServerJobs
<1>6. JobsGrow(jobs, [jobs EXCEPT ![call.job] = moved])
  BY <1>1, <1>2, <1>5, NothingIsNoRecord DEF JobsGrow
<1>7. JobsGrow(jobs, jobs')
  BY <1>3, <1>6 DEF CloseRejected
<1> QED
  BY <1>4, <1>7, ServedInv DEF CloseRejected

LEMMA ServeInv == ASSUME ConsoleInv, NEW call \in pending, Serve(call) PROVE ConsoleInv'
<1>1. UNCHANGED Serving
  BY DEF Serve
<1>3. call.kind # "submit" => call.job # 0
  BY CallJob DEF CallIsKnown, Serve, IsAboutJobs
<1>4. CASE call.kind = "submit"
  BY <1>1, <1>4, ServeSubmitInv DEF Serve
<1>5. CASE call.kind = "resolve"
  <2>1. ServeStep(call, {"resolving"}, DOMAIN NextStages \ {"resolving"}) /\ UNCHANGED jobs
    BY <1>5 DEF Serve
  <2> QED
    BY <1>1, <1>3, <1>5, <2>1, ServeStepInv
<1>6. CASE call.kind = "apply"
  <2>1. ServeStep(call, HasRequest, {"received", "resolving", "completed"}) /\ UNCHANGED jobs
    BY <1>6 DEF Serve
  <2> QED
    BY <1>1, <1>3, <1>6, <2>1, ServeStepInv
<1>7. CASE call.kind = "reject"
  <2>1. CASE CloseRejected(call)
    BY <1>1, <1>3, <1>7, <2>1, CloseRejectedInv
  <2>2. CASE /\ ServeStep(call, {"awaiting_approval", "completed"}, DOMAIN NextStages \ {"awaiting_approval"})
             /\ UNCHANGED jobs
    BY <1>1, <1>3, <1>7, <2>2, ServeStepInv
  <2> QED
    BY <1>7, <2>1, <2>2 DEF Serve
<1>8. CASE call.kind = "refresh"
  <2>1. Served(call, jobs[call.job].stage) /\ UNCHANGED jobs /\ call.job # 0
    BY <1>3, <1>8 DEF Serve
  <2>2. jobs[call.job].stage \in CallAnswers
    BY <2>1, CallJob DEF ServerJobs, CallAnswers
  <2>3. PICK answer \in CallAnswers : answer = jobs[call.job].stage
    BY <2>2
  <2>4. PICK new : new = [call EXCEPT !.answer = answer]
    OBVIOUS
  <2>5. JobsGrow(jobs, jobs')
    BY <2>1 DEF JobsGrow, ConsoleInv, ConsoleTypes
  <2>6. IsAnswered(call, new, jobs')
    BY <2>1, <2>4, <2>5, ServedCall
  <2> QED
    BY <1>1, <2>1, <2>3, <2>4, <2>5, <2>6, AnsweredKeepsConsoleInv DEF Served
<1> QED
  BY <1>4, <1>5, <1>6, <1>7, <1>8 DEF Serve, IsAboutJobs

-----------------------------------------------------------------------------
(* The workspace reads.                                                    *)

\* What an answer asks for is for the same job.
FollowsUp(call, next) ==
    \A c \in next :
      /\ c \in ConsoleCalls /\ c.kind \in {"refresh", "request", "impact", "apply"}
      /\ c.job = call.job /\ c.production = call.production
      /\ c.ends => c.kind # "apply"

\* The form still waits for exactly one call, or for none.
StillOneIsSent(call, next) ==
    IF IsSending(call)
    THEN /\ state' = "submitting" <=> \E c \in next : IsSending(c)
         /\ \A c, d \in next : IsSending(c) /\ IsSending(d) => c = d
         /\ \A c \in next : c.kind = "apply" => call.kind \in Decisions /\ job' = job
    ELSE /\ state' = state /\ \A c \in next : ~IsSending(c)
         /\ job' = Nothing <=> job = Nothing
         /\ job # Nothing => job'.id = job.id

ReturnStays ==
    UNCHANGED <<onWorkspace, opened, loadState, shown, followed, view, page, jobs, opens, failures, hurried>>

LEMMA ReturnKeepsConsoleInv ==
    ASSUME ConsoleInv, ReturnStays, NEW call \in pending, call.kind \notin {"load", "page"},
           NEW next, FollowsUp(call, next), call.job # 0 \/ next = {},
           pending' = (pending \ {call}) \cup next,
           job' \in TrackedJobs \cup {Nothing}, job' # Nothing => jobs[job'.id] # Nothing,
           state' \in {"idle", "submitting", "error"}, unread' \in BOOLEAN,
           ~hurried => StillOneIsSent(call, next) /\ TrackedIsShown',
           ReadIsDue'
    PROVE  ConsoleInv'
<1>1. UNCHANGED <<onWorkspace, opened, loadState, shown, followed, view, page, jobs, hurried>>
  BY DEF ReturnStays
<1>2. \A c \in pending' : c \in next \/ (c \in pending /\ c # call)
  OBVIOUS
<1>3. next \subseteq pending' /\ \A c \in pending : c = call \/ c \in pending'
  OBVIOUS
<1>4. CallIsKnown(call, jobs) /\ \A c \in pending : CallIsKnown(c, jobs)
  BY DEF ConsoleInv, JobsAreKnown
<1>5. ASSUME NEW c \in next PROVE CallIsKnown(c, jobs)
  BY <1>4 DEF FollowsUp, CallIsKnown
<1>6. ConsoleTypes'
  BY <1>1, <1>2 DEF ConsoleInv, ConsoleTypes, FollowsUp
<1>7. JobsAreKnown'
  BY <1>1, <1>2, <1>4, <1>5 DEF JobsAreKnown
<1>8. ASSUME ~hurried PROVE CalmInv'
  <2>1. LoadsAreOfTheOpened /\ OneIsSent /\ TrackedIsShown /\ CallsNameTheirProduction
    BY <1>8 DEF ConsoleInv, CalmInv
  <2>2. LoadsAreOfTheOpened'
    <3>1. \A c \in next : c.kind # "load"
      BY DEF FollowsUp
    <3>2. \A c : c.kind = "load" => (c \in pending' <=> c \in pending)
      BY <3>1
    <3> QED
      BY <1>1, <2>1, <3>2 DEF LoadsAreOfTheOpened
  <2>3. OneIsSent'
    <3>1. CASE IsSending(call)
      <4>1. \A c \in pending : IsSending(c) => c = call
        BY <2>1, <3>1 DEF OneIsSent
      <4>2. \A c \in pending' : IsSending(c) => c \in next
        BY <1>2, <4>1
      <4>3. /\ state' = "submitting" <=> \E c \in next : IsSending(c)
            /\ \A c, d \in next : IsSending(c) /\ IsSending(d) => c = d
            /\ \A c \in next : c.kind = "apply" => call.kind \in Decisions /\ job' = job
        BY <1>8, <3>1 DEF StillOneIsSent
      <4>4. CallFits(call, opened, job)
        BY <2>1, <3>1 DEF OneIsSent
      <4>5. \A c \in next : CallFits(c, opened, job')
        BY <4>3, <4>4 DEF CallFits, FollowsUp, Decisions
      <4> QED
        BY <1>1, <1>3, <4>2, <4>3, <4>5 DEF OneIsSent
    <3>2. CASE ~IsSending(call)
      <4>1. /\ state' = state /\ \A c \in next : ~IsSending(c)
            /\ job' = Nothing <=> job = Nothing
            /\ job # Nothing => job'.id = job.id
        BY <1>8, <3>2 DEF StillOneIsSent
      <4>2. \A c : IsSending(c) => (c \in pending' <=> c \in pending)
        BY <3>2, <4>1
      <4>3. \A c : CallFits(c, opened, job) => CallFits(c, opened, job')
        BY <4>1 DEF CallFits
      <4> QED
        BY <1>1, <2>1, <4>1, <4>2, <4>3 DEF OneIsSent
    <3> QED
      BY <3>1, <3>2
  <2>4. CallsNameTheirProduction'
    BY <1>1, <1>2, <2>1 DEF CallsNameTheirProduction, FollowsUp
  <2> QED
    BY <1>8, <2>2, <2>3, <2>4 DEF CalmInv
<1>9. onWorkspace /\ opened # Nothing
  BY DEF ConsoleInv, ConsoleTypes, PageOnly, NothingIsOpen
<1> QED
  BY <1>1, <1>6, <1>7, <1>8, <1>9 DEF ConsoleInv

\* What the workspace does with an answer it tracks.
LEMMA TrackedCall ==
    ASSUME ConsoleInv, ReturnStays, NEW call \in pending, call.job # 0, call.answer \in JobStages,
           NEW next, FollowsUp(call, next), Track(call, next)
    PROVE  /\ job' \in TrackedJobs /\ job' # Nothing /\ job'.id = call.job /\ job'.production = call.production
           /\ jobs[job'.id] # Nothing /\ unread' \in BOOLEAN
           /\ ReadIsDue'
           /\ \E all : /\ FollowsUp(call, all) /\ pending' = (pending \ {call}) \cup all
                       /\ \A c : IsSending(c) => (c \in all <=> c \in next)
<1>1. UNCHANGED <<view, jobs>>
  BY DEF ReturnStays
<1>2. call.job \in JobIds /\ call.production \in Homes /\ call.job \in 0..MaxTracked /\ CallIsKnown(call, jobs)
  BY CallJob
<1>3. PICK tracked : tracked = Tracked(call)
  OBVIOUS
<1>4. /\ tracked \in TrackedJobs /\ tracked # Nothing
      /\ tracked.id = call.job /\ tracked.production = call.production
  BY <1>2, <1>3, NothingIsNoRecord DEF Tracked, TrackedJobs
<1>5. job' = tracked /\ pending' = Look(tracked, view, (pending \ {call}) \cup next) /\ unread' = FALSE
  BY <1>3 DEF Track
<1>6. PICK reading : reading = Call("refresh", tracked.production, tracked.id)
  OBVIOUS
<1>7. reading \in ConsoleCalls /\ reading.kind = "refresh" /\ reading.production = call.production
      /\ reading.job = call.job /\ reading.ends = FALSE
  <2>1. "refresh" \in CallKinds
    BY DEF CallKinds
  <2>2. reading = Call("refresh", call.production, call.job)
    BY <1>4, <1>6
  <2> QED
    BY <1>2, <2>1, <2>2 DEF Call, ConsoleCalls, CallAnswers
<1>8. ~IsSending(reading)
  BY <1>7 DEF IsSending, Decisions
<1>9. FollowsUp(call, next \cup {reading})
  BY <1>7 DEF FollowsUp
<1>10. PICK due \in BOOLEAN :
         due = (tracked # Nothing /\ view # Nothing /\ tracked.id \in DOMAIN view /\ view[tracked.id] # tracked.stage)
  OBVIOUS
<1>11. pending' = IF due THEN ((pending \ {call}) \cup next) \cup {reading} ELSE (pending \ {call}) \cup next
  BY <1>5, <1>6, <1>10 DEF Look
<1>12. \E all : /\ FollowsUp(call, all) /\ pending' = (pending \ {call}) \cup all
                /\ \A c : IsSending(c) => (c \in all <=> c \in next)
  <2>1. CASE due
    <3>1. pending' = (pending \ {call}) \cup (next \cup {reading})
      BY <1>11, <2>1
    <3>2. \A c : IsSending(c) => (c \in next \cup {reading} <=> c \in next)
      BY <1>8
    <3> QED
      BY <1>9, <3>1, <3>2
  <2>2. CASE ~due
    BY <1>11, <2>2
  <2> QED
    BY <2>1, <2>2
<1>13. ReadIsDue'
  <2>1. due => reading \in pending'
    BY <1>11
  <2> QED
    BY <1>1, <1>4, <1>5, <1>7, <1>10, <2>1 DEF ReadIsDue
<1>14. jobs[job'.id] # Nothing
  BY <1>2, <1>4, <1>5 DEF CallIsKnown
<1> QED
  BY <1>4, <1>5, <1>12, <1>13, <1>14

LEMMA ReadStaysDue ==
    ASSUME ConsoleInv, ReturnStays, UNCHANGED job, NEW call \in pending, NEW next,
           pending' = (pending \ {call}) \cup next,
           unread => unread', call.kind = "refresh" /\ StillTracks(call) => unread'
    PROVE  ReadIsDue'
<1>1. UNCHANGED <<view, job>>
  BY DEF ReturnStays
<1>2. \A c \in pending : c # call => c \in pending'
  OBVIOUS
<1> QED
  BY <1>1, <1>2 DEF ConsoleInv, ReadIsDue, StillTracks

\* What the workspace knows between two steps in which nobody hurried.
LEMMA CalmFacts ==
    ASSUME ConsoleInv, ~hurried, NEW call \in pending
    PROVE  /\ IsSending(call) => state = "submitting" /\ CallFits(call, opened, job)
           /\ TrackedIsShown
           /\ call.job # 0 => jobs[call.job].production = call.production
  BY DEF ConsoleInv, CalmInv, OneIsSent, CallsNameTheirProduction

LEMMA ReadCall ==
    ASSUME ConsoleInv, NEW call \in pending, NEW kind \in {"request", "impact"}, NEW new,
           new = [Call(kind, call.production, call.job) EXCEPT !.ends = call.ends]
    PROVE  /\ new.kind = kind
           /\ FollowsUp(call, {new})
           /\ IsSending(new) <=> call.ends
<1>1. call.production \in Homes /\ call.job \in 0..MaxTracked /\ call.ends \in BOOLEAN
  BY CallJob
<1>2. kind \in CallKinds
  BY DEF CallKinds
<1>3. new \in ConsoleCalls /\ new.kind = kind /\ new.job = call.job /\ new.production = call.production
      /\ new.ends = call.ends
  BY <1>1, <1>2 DEF Call, ConsoleCalls, CallAnswers
<1> QED
  BY <1>3 DEF FollowsUp, IsSending, Decisions

LEMMA NextRead ==
    ASSUME ConsoleInv, NEW call \in pending, NEW next, next = LoadChangeRequestIfKnown(call)
    PROVE  /\ FollowsUp(call, next)
           /\ \A c, d \in next : c = d
           /\ \A c \in next : c.kind = "request" /\ (IsSending(c) <=> call.ends)
<1>1. PICK new : new = [Call("request", call.production, call.job) EXCEPT !.ends = call.ends]
  OBVIOUS
<1>2. next = {new} \/ next = {}
  BY <1>1 DEF LoadChangeRequestIfKnown
<1>3. new.kind = "request" /\ FollowsUp(call, {new}) /\ (IsSending(new) <=> call.ends)
  BY <1>1, ReadCall
<1> QED
  BY <1>2, <1>3 DEF FollowsUp

LEMMA DropInv ==
    ASSUME ConsoleInv, ReturnStays, NEW call \in pending, call.kind \in {"refresh", "request", "impact"},
           Drop(call), unread' \in BOOLEAN, unread => unread',
           call.kind = "refresh" /\ StillTracks(call) => unread'
    PROVE  ConsoleInv'
<1>1. PICK none : none = {}
  OBVIOUS
<1>2. UNCHANGED <<job, request, impact>> /\ pending' = (pending \ {call}) \cup none
      /\ state' = IF call.ends THEN "idle" ELSE state
  BY <1>1 DEF Drop, StateAfter
<1>3. FollowsUp(call, none)
  BY <1>1 DEF FollowsUp
<1>4. ReadIsDue'
  BY <1>2, ReadStaysDue
<1>5. job' \in TrackedJobs \cup {Nothing} /\ (job' # Nothing => jobs[job'.id] # Nothing)
      /\ state' \in {"idle", "submitting", "error"}
  BY <1>2 DEF ConsoleInv, ConsoleTypes, JobsAreKnown
<1>6. ASSUME ~hurried PROVE StillOneIsSent(call, none) /\ TrackedIsShown'
  <2>1. IsSending(call) <=> call.ends
    BY CallJob DEF IsSending, Decisions
  <2>2. StillOneIsSent(call, none)
    BY <1>1, <1>2, <2>1 DEF StillOneIsSent
  <2>3. UNCHANGED <<opened, jobs>>
    BY DEF ReturnStays
  <2>4. TrackedIsShown'
    BY <1>2, <1>6, <2>3, CalmFacts DEF TrackedIsShown
  <2> QED
    BY <2>2, <2>4
<1> QED
  BY <1>1, <1>2, <1>3, <1>4, <1>5, <1>6, ReturnKeepsConsoleInv

\* The job an answer carries is the one that is shown.
LEMMA AnswerIsShown ==
    ASSUME ConsoleInv, ReturnStays, ~hurried, NEW call \in pending, call.job # 0, UNCHANGED <<request, impact>>,
           StillTracks(call) \/ call.kind \in {"submit", "resolve", "apply"},
           job' # Nothing, job'.id = call.job, job'.production = call.production
    PROVE  TrackedIsShown'
<1>1. UNCHANGED <<opened, jobs>>
  BY DEF ReturnStays
<1>2. jobs[call.job].production = call.production /\ TrackedIsShown
  BY CalmFacts
<1>3. CASE StillTracks(call)
  BY <1>1, <1>2, <1>3 DEF TrackedIsShown, StillTracks
<1>4. CASE call.kind \in {"submit", "resolve", "apply"}
  <2>1. IsSending(call)
    BY <1>4 DEF IsSending, Decisions
  <2>2. CallFits(call, opened, job)
    BY <2>1, CalmFacts
  <2>3. call.production = opened /\ {request, impact} \subseteq {Nothing, call.job}
    BY <1>2, <1>4, <2>2 DEF CallFits, Decisions, TrackedIsShown
  <2> QED
    BY <1>1, <1>2, <2>3 DEF TrackedIsShown
<1> QED
  BY <1>3, <1>4

LEMMA ReturnRefreshInv ==
    ASSUME ConsoleInv, ReturnStays, NEW call \in pending, call.answer # Nothing, ReturnRefresh(call)
    PROVE  ConsoleInv'
<1>1. call.kind = "refresh" /\ unread \in BOOLEAN
  BY DEF ReturnRefresh, ConsoleInv, ConsoleTypes
<1>2. CASE call.answer = "refused"
  <2>1. Drop(call) /\ unread' = (unread \/ StillTracks(call))
    BY <1>2 DEF ReturnRefresh
  <2>2. StillTracks(call) \in BOOLEAN
    BY DEF StillTracks
  <2> QED
    BY <1>1, <2>1, <2>2, DropInv
<1>3. CASE call.answer # "refused" /\ ~StillTracks(call)
  <2>1. Drop(call) /\ unread' = unread
    BY <1>3 DEF ReturnRefresh
  <2> QED
    BY <1>1, <1>3, <2>1, DropInv
<1>4. CASE call.answer # "refused" /\ StillTracks(call)
  <2>1. PICK next : next = LoadChangeRequestIfKnown(call)
    OBVIOUS
  <2>2. Track(call, next) /\ state' = StateAfter(call, next) /\ UNCHANGED <<request, impact>>
    BY <1>4, <2>1 DEF ReturnRefresh
  <2>3. call.job # 0 /\ call.answer \in JobStages /\ call.ends \in BOOLEAN
    BY <1>1, <1>4, CallJob DEF CallIsKnown, CallAnswers
  <2>4. /\ FollowsUp(call, next)
        /\ \A c, d \in next : c = d
        /\ \A c \in next : c.kind = "request" /\ (IsSending(c) <=> call.ends)
    BY <2>1, NextRead
  <2>5. /\ job' \in TrackedJobs /\ job' # Nothing /\ job'.id = call.job /\ job'.production = call.production
        /\ jobs[job'.id] # Nothing /\ unread' \in BOOLEAN
        /\ ReadIsDue'
    BY <2>2, <2>3, <2>4, TrackedCall
  <2>6. PICK all : /\ FollowsUp(call, all) /\ pending' = (pending \ {call}) \cup all
                   /\ \A c : IsSending(c) => (c \in all <=> c \in next)
    BY <2>2, <2>3, <2>4, TrackedCall
  <2>7. state' = IF call.ends /\ next = {} THEN "idle" ELSE state
    BY <2>2 DEF StateAfter
  <2>8. state' \in {"idle", "submitting", "error"}
    BY <2>7 DEF ConsoleInv, ConsoleTypes
  <2>9. ASSUME ~hurried PROVE StillOneIsSent(call, all)
    <3>1. IsSending(call) <=> call.ends
      BY <1>1 DEF IsSending, Decisions
    <3>2. CASE IsSending(call)
      <4>1. state = "submitting"
        BY <2>9, <3>2, CalmFacts
      <4>2. (next # {}) <=> \E c \in all : IsSending(c)
        BY <2>4, <2>6, <3>1, <3>2
      <4>3. \A c \in all : c.kind # "apply"
        <5>1. \A c \in all : c.kind = "apply" => IsSending(c)
          BY DEF IsSending, Decisions
        <5> QED
          BY <2>4, <2>6, <5>1
      <4> QED
        BY <2>4, <2>6, <2>7, <3>1, <3>2, <4>1, <4>2, <4>3 DEF StillOneIsSent
    <3>3. CASE ~IsSending(call)
      <4>1. \A c \in all : ~IsSending(c)
        BY <2>4, <2>6, <3>1, <3>3
      <4> QED
        BY <1>4, <2>5, <2>7, <3>1, <3>3, <4>1 DEF StillOneIsSent, StillTracks
    <3> QED
      BY <3>2, <3>3
  <2>10. ~hurried => TrackedIsShown'
    BY <1>4, <2>2, <2>3, <2>5, AnswerIsShown
  <2>11. call.kind \notin {"load", "page"}
    BY <1>1
  <2> QED
    BY <2>3, <2>5, <2>6, <2>8, <2>9, <2>10, <2>11, ReturnKeepsConsoleInv
<1> QED
  BY <1>2, <1>3, <1>4

LEMMA ReturnRequestInv ==
    ASSUME ConsoleInv, ReturnStays, NEW call \in pending, ReturnRequest(call)
    PROVE  ConsoleInv'
<1>1. call.kind = "request" /\ unread' = unread /\ unread \in BOOLEAN
  BY DEF ReturnRequest, ConsoleInv, ConsoleTypes
<1>2. CASE call.answer = "refused" \/ ~StillTracks(call)
  <2>1. Drop(call)
    BY <1>2 DEF ReturnRequest
  <2> QED
    BY <1>1, <2>1, DropInv
<1>3. CASE ~(call.answer = "refused" \/ ~StillTracks(call))
  <2>1. PICK new : new = [Call("impact", call.production, call.job) EXCEPT !.ends = call.ends]
    OBVIOUS
  <2>2. PICK next : next = {new}
    OBVIOUS
  <2>3. request' = call.job /\ pending' = (pending \ {call}) \cup next /\ UNCHANGED <<job, impact, state>>
    BY <1>3, <2>1, <2>2 DEF ReturnRequest
  <2>4. new.kind = "impact" /\ FollowsUp(call, next) /\ (IsSending(new) <=> call.ends)
    BY <2>1, <2>2, ReadCall
  <2>5. ReadIsDue'
    BY <1>1, <2>3, ReadStaysDue
  <2>6. job' \in TrackedJobs \cup {Nothing} /\ (job' # Nothing => jobs[job'.id] # Nothing)
        /\ state' \in {"idle", "submitting", "error"}
    BY <2>3 DEF ConsoleInv, ConsoleTypes, JobsAreKnown
  <2>7. call.job # 0 /\ call.kind \notin {"load", "page"}
    BY <1>1, CallJob DEF CallIsKnown
  <2>8. ASSUME ~hurried PROVE StillOneIsSent(call, next) /\ TrackedIsShown'
    <3>1. IsSending(call) <=> call.ends
      BY <1>1 DEF IsSending, Decisions
    <3>2. IsSending(call) => state = "submitting"
      BY <2>8, CalmFacts
    <3>3. StillOneIsSent(call, next)
      BY <2>2, <2>3, <2>4, <3>1, <3>2 DEF StillOneIsSent
    <3>4. TrackedIsShown'
      <4>1. UNCHANGED <<opened, jobs>>
        BY DEF ReturnStays
      <4> QED
        BY <1>3, <2>3, <2>8, <4>1, CalmFacts DEF TrackedIsShown, StillTracks
    <3> QED
      BY <3>3, <3>4
  <2> QED
    BY <1>1, <2>3, <2>4, <2>5, <2>6, <2>7, <2>8, ReturnKeepsConsoleInv
<1> QED
  BY <1>2, <1>3

LEMMA ReturnImpactInv ==
    ASSUME ConsoleInv, ReturnStays, NEW call \in pending, ReturnImpact(call)
    PROVE  ConsoleInv'
<1>1. call.kind = "impact" /\ unread' = unread /\ unread \in BOOLEAN
  BY DEF ReturnImpact, ConsoleInv, ConsoleTypes
<1>2. CASE call.answer = "refused" \/ ~StillTracks(call)
  <2>1. Drop(call)
    BY <1>2 DEF ReturnImpact
  <2> QED
    BY <1>1, <2>1, DropInv
<1>3. CASE ~(call.answer = "refused" \/ ~StillTracks(call))
  <2>1. PICK none : none = {}
    OBVIOUS
  <2>2. /\ impact' = call.job /\ pending' = (pending \ {call}) \cup none /\ UNCHANGED <<job, request>>
        /\ state' = IF call.ends THEN "idle" ELSE state
    BY <1>3, <2>1 DEF ReturnImpact, StateAfter
  <2>3. FollowsUp(call, none) /\ call.kind \notin {"load", "page"}
    BY <1>1, <2>1 DEF FollowsUp
  <2>4. ReadIsDue'
    BY <1>1, <2>2, ReadStaysDue
  <2>5. job' \in TrackedJobs \cup {Nothing} /\ (job' # Nothing => jobs[job'.id] # Nothing)
        /\ state' \in {"idle", "submitting", "error"}
    BY <2>2 DEF ConsoleInv, ConsoleTypes, JobsAreKnown
  <2>6. ASSUME ~hurried PROVE StillOneIsSent(call, none) /\ TrackedIsShown'
    <3>1. IsSending(call) <=> call.ends
      BY <1>1 DEF IsSending, Decisions
    <3>2. StillOneIsSent(call, none)
      BY <2>1, <2>2, <3>1 DEF StillOneIsSent
    <3>3. TrackedIsShown'
      <4>1. UNCHANGED <<opened, jobs>>
        BY DEF ReturnStays
      <4> QED
        BY <1>3, <2>2, <2>6, <4>1, CalmFacts DEF TrackedIsShown, StillTracks
    <3> QED
      BY <3>2, <3>3
  <2> QED
    BY <1>1, <2>1, <2>2, <2>3, <2>4, <2>5, <2>6, ReturnKeepsConsoleInv
<1> QED
  BY <1>2, <1>3

LEMMA RefusedInv ==
    ASSUME ConsoleInv, ReturnStays, NEW call \in pending, Refused(call), call.kind \in Decisions \cup {"submit"}
    PROVE  ConsoleInv'
<1>1. PICK none : none = {}
  OBVIOUS
<1>2. pending' = (pending \ {call}) \cup none /\ UNCHANGED <<job, request, impact, unread>> /\ state' = "error"
  BY <1>1 DEF Refused
<1>3. FollowsUp(call, none) /\ call.kind \notin {"load", "page"} /\ call.kind # "refresh"
  BY <1>1 DEF FollowsUp, Decisions
<1>4. ReadIsDue'
  BY <1>2, <1>3, ReadStaysDue
<1>5. job' \in TrackedJobs \cup {Nothing} /\ (job' # Nothing => jobs[job'.id] # Nothing)
      /\ state' \in {"idle", "submitting", "error"} /\ unread' \in BOOLEAN
  BY <1>2 DEF ConsoleInv, ConsoleTypes, JobsAreKnown
<1>6. ASSUME ~hurried PROVE StillOneIsSent(call, none) /\ TrackedIsShown'
  <2>1. IsSending(call)
    BY DEF IsSending
  <2>2. StillOneIsSent(call, none)
    BY <1>1, <1>2, <2>1 DEF StillOneIsSent
  <2>3. UNCHANGED <<opened, jobs>>
    BY DEF ReturnStays
  <2>4. TrackedIsShown'
    BY <1>2, <1>6, <2>3, CalmFacts DEF TrackedIsShown
  <2> QED
    BY <2>2, <2>4
<1> QED
  BY <1>1, <1>2, <1>3, <1>4, <1>5, <1>6, ReturnKeepsConsoleInv

LEMMA ReturnRunInv ==
    ASSUME ConsoleInv, ReturnStays, NEW call \in pending, call.answer # Nothing, ReturnRun(call)
    PROVE  ConsoleInv'
<1>1. call.kind \in {"submit", "resolve", "apply"}
  BY DEF ReturnRun
<1>2. call.kind \in Decisions \cup {"submit"} /\ call.kind \notin {"load", "page"}
  BY <1>1 DEF Decisions
<1>3. CASE call.answer = "refused"
  BY <1>2, <1>3, RefusedInv DEF ReturnRun
<1>4. CASE call.answer # "refused"
  <2>1. PICK next : next = IF call.kind = "apply" THEN {} ELSE LoadChangeRequestIfKnown(call)
    OBVIOUS
  <2>2. Track(call, next) /\ state' = "idle" /\ UNCHANGED <<request, impact>>
    BY <1>4, <2>1 DEF ReturnRun
  <2>3. call.job # 0 /\ call.answer \in JobStages /\ ~call.ends
    BY <1>1, <1>4, CallJob DEF CallIsKnown, CallAnswers
  <2>4. FollowsUp(call, next) /\ \A c \in next : ~IsSending(c)
    <3>1. CASE call.kind = "apply"
      BY <2>1, <3>1 DEF FollowsUp
    <3>2. CASE call.kind # "apply"
      BY <2>1, <2>3, <3>2, NextRead
    <3> QED
      BY <3>1, <3>2
  <2>5. /\ job' \in TrackedJobs /\ job' # Nothing /\ job'.id = call.job /\ job'.production = call.production
        /\ jobs[job'.id] # Nothing /\ unread' \in BOOLEAN
        /\ ReadIsDue'
    BY <2>2, <2>3, <2>4, TrackedCall
  <2>6. PICK all : /\ FollowsUp(call, all) /\ pending' = (pending \ {call}) \cup all
                   /\ \A c : IsSending(c) => (c \in all <=> c \in next)
    BY <2>2, <2>3, <2>4, TrackedCall
  <2>7. IsSending(call) /\ \A c \in all : ~IsSending(c)
    BY <1>2, <2>4, <2>6 DEF IsSending
  <2>8. \A c \in all : c.kind # "apply"
    BY <2>7 DEF IsSending, Decisions
  <2>9. StillOneIsSent(call, all)
    BY <2>2, <2>7, <2>8 DEF StillOneIsSent
  <2>10. ~hurried => TrackedIsShown'
    BY <1>1, <2>2, <2>3, <2>5, AnswerIsShown
  <2> QED
    BY <1>2, <2>2, <2>3, <2>5, <2>6, <2>9, <2>10, ReturnKeepsConsoleInv
<1> QED
  BY <1>3, <1>4

LEMMA ReturnDecisionInv ==
    ASSUME ConsoleInv, ReturnStays, NEW call \in pending, ReturnDecision(call)
    PROVE  ConsoleInv'
<1>1. call.kind \in {"approve", "reject"} /\ call.kind \in Decisions
  BY DEF ReturnDecision, Decisions
<1>2. CASE call.answer = "refused"
  BY <1>1, <1>2, RefusedInv DEF ReturnDecision
<1>3. CASE call.answer # "refused"
  <2>1. PICK new : new = IF call.kind = "approve" THEN Call("apply", call.production, call.job)
                         ELSE [Call("refresh", call.production, call.job) EXCEPT !.ends = TRUE]
    OBVIOUS
  <2>2. PICK next : next = {new}
    OBVIOUS
  <2>3. pending' = (pending \ {call}) \cup next /\ UNCHANGED <<job, request, impact, state, unread>>
    BY <1>3, <2>1, <2>2 DEF ReturnDecision, workVars
  <2>4. call.job # 0 /\ call.production \in Homes /\ call.job \in 0..MaxTracked
    BY <1>1, CallJob DEF CallIsKnown
  <2>5. /\ new \in ConsoleCalls /\ new.job = call.job /\ new.production = call.production
        /\ \/ new.kind = "apply" /\ ~new.ends
           \/ new.kind = "refresh" /\ new.ends
    <3>1. "apply" \in CallKinds /\ "refresh" \in CallKinds
      BY DEF CallKinds, Decisions
    <3>2. CASE call.kind = "approve"
      BY <2>1, <2>4, <3>1, <3>2 DEF Call, ConsoleCalls, CallAnswers
    <3>3. CASE call.kind # "approve"
      BY <2>1, <2>4, <3>1, <3>3 DEF Call, ConsoleCalls, CallAnswers
    <3> QED
      BY <3>2, <3>3
  <2>6. FollowsUp(call, next) /\ IsSending(new)
    BY <2>2, <2>5 DEF FollowsUp, IsSending, Decisions
  <2>7. ReadIsDue'
    <3>1. call.kind # "refresh"
      BY <1>1
    <3> QED
      BY <2>3, <3>1, ReadStaysDue
  <2>8. job' \in TrackedJobs \cup {Nothing} /\ (job' # Nothing => jobs[job'.id] # Nothing)
        /\ state' \in {"idle", "submitting", "error"} /\ unread' \in BOOLEAN
    BY <2>3 DEF ConsoleInv, ConsoleTypes, JobsAreKnown
  <2>9. ASSUME ~hurried PROVE StillOneIsSent(call, next) /\ TrackedIsShown'
    <3>1. IsSending(call)
      BY <1>1 DEF IsSending
    <3>2. state = "submitting"
      BY <2>9, <3>1, CalmFacts
    <3>3. StillOneIsSent(call, next)
      BY <1>1, <2>2, <2>3, <2>6, <3>1, <3>2 DEF StillOneIsSent
    <3>4. UNCHANGED <<opened, jobs>>
      BY DEF ReturnStays
    <3>5. TrackedIsShown'
      BY <2>3, <2>9, <3>4, CalmFacts DEF TrackedIsShown
    <3> QED
      BY <3>3, <3>5
  <2>10. call.kind \notin {"load", "page"}
    BY <1>1
  <2> QED
    BY <2>3, <2>4, <2>6, <2>7, <2>8, <2>9, <2>10, ReturnKeepsConsoleInv
<1> QED
  BY <1>2, <1>3

-----------------------------------------------------------------------------
(* The workspace sends.                                                    *)

LEMMA SendKeepsConsoleInv ==
    ASSUME ConsoleInv, MaySend, UNCHANGED Acting, NEW new \in ConsoleCalls, IsSending(new), CallIsKnown(new, jobs),
           pending' = pending \cup {new}, state' = "submitting",
           job' \in TrackedJobs \cup {Nothing}, job' # Nothing => jobs[job'.id] # Nothing,
           ~hurried => /\ CallFits(new, opened, job') /\ TrackedIsShown'
                       /\ new.job # 0 => jobs[new.job].production = new.production,
           ReadIsDue'
    PROVE  ConsoleInv'
<1>1. UNCHANGED <<onWorkspace, opened, loadState, shown, followed, view, page, jobs, hurried, unread>>
  BY DEF Acting, storeVars, realtimeVars
<1>2. onWorkspace /\ opened # Nothing /\ state # "submitting"
  BY DEF MaySend
<1>3. \A c \in pending' : c = new \/ c \in pending
  OBVIOUS
<1>4. new \in pending' /\ pending \subseteq pending'
  OBVIOUS
<1>5. new.kind # "load"
  BY DEF IsSending, Decisions, CallIsKnown
<1>6. ConsoleTypes'
  BY <1>1, <1>3 DEF ConsoleInv, ConsoleTypes
<1>7. JobsAreKnown'
  BY <1>1, <1>3 DEF ConsoleInv, JobsAreKnown
<1>8. ASSUME ~hurried PROVE CalmInv'
  <2>1. LoadsAreOfTheOpened /\ OneIsSent /\ TrackedIsShown /\ CallsNameTheirProduction
    BY <1>8 DEF ConsoleInv, CalmInv
  <2>2. \A c : c.kind = "load" => (c \in pending' <=> c \in pending)
    BY <1>5
  <2>3. LoadsAreOfTheOpened'
    BY <1>1, <2>1, <2>2 DEF LoadsAreOfTheOpened
  <2>4. \A c \in pending : ~IsSending(c)
    BY <1>2, <2>1 DEF OneIsSent
  <2>5. \A c \in pending' : IsSending(c) => c = new
    BY <1>3, <2>4
  <2>6. OneIsSent'
    BY <1>1, <1>4, <1>8, <2>5 DEF OneIsSent
  <2>7. CallsNameTheirProduction'
    BY <1>1, <1>3, <1>8, <2>1 DEF CallsNameTheirProduction
  <2> QED
    BY <1>8, <2>3, <2>6, <2>7 DEF CalmInv
<1> QED
  BY <1>1, <1>2, <1>6, <1>7, <1>8 DEF ConsoleInv

LEMMA SubmitInv == ASSUME ConsoleInv, Submit PROVE ConsoleInv'
<1>1. PICK new : new = Call("submit", opened, 0)
  OBVIOUS
<1>2. /\ MaySend /\ UNCHANGED Acting /\ pending' = pending \cup {new} /\ state' = "submitting"
      /\ job' = Nothing /\ request' = Nothing /\ impact' = Nothing
  BY <1>1 DEF Submit, Reset
<1>3. opened \in Homes
  BY <1>2 DEF MaySend, ConsoleInv, ConsoleTypes
<1>4. "submit" \in CallKinds /\ 0 \in 0..MaxTracked
  BY JobNumbers DEF CallKinds
<1>5. /\ new \in ConsoleCalls /\ new.kind = "submit" /\ new.production = opened /\ new.job = 0
      /\ ~new.ends /\ new.answer = Nothing
  BY <1>1, <1>3, <1>4 DEF Call, ConsoleCalls, CallAnswers
<1>6. IsSending(new) /\ CallIsKnown(new, jobs)
  BY <1>5, NothingIsNoRecord DEF IsSending, CallIsKnown
<1>7. CallFits(new, opened, job')
  BY <1>2, <1>5 DEF CallFits, Decisions
<1>8. TrackedIsShown' /\ ReadIsDue'
  BY <1>2 DEF TrackedIsShown, ReadIsDue
<1> QED
  BY <1>2, <1>5, <1>6, <1>7, <1>8, SendKeepsConsoleInv

LEMMA SendForInv ==
    ASSUME ConsoleInv, NEW stage, NEW kind \in Decisions, SendFor(stage, kind)
    PROVE  ConsoleInv'
<1>1. PICK new : new = Call(kind, opened, job.id)
  OBVIOUS
<1>2. /\ MaySend /\ UNCHANGED Acting /\ pending' = pending \cup {new} /\ state' = "submitting"
      /\ UNCHANGED <<job, request, impact>> /\ job # Nothing
  BY <1>1 DEF SendFor
<1>3. UNCHANGED <<opened, view, jobs, unread>>
  BY <1>2 DEF Acting, storeVars, realtimeVars
<1>4. opened \in Homes
  BY <1>2 DEF MaySend, ConsoleInv, ConsoleTypes
<1>5. job \in TrackedJobs /\ job.id \in JobIds /\ jobs[job.id] # Nothing
  BY <1>2 DEF ConsoleInv, ConsoleTypes, JobsAreKnown, TrackedJobs
<1>6. kind \in CallKinds /\ job.id \in 0..MaxTracked /\ job.id # 0
  BY <1>5, JobNumbers DEF CallKinds
<1>7. new \in ConsoleCalls /\ new.kind = kind /\ new.production = opened /\ new.job = job.id /\ ~new.ends
  BY <1>1, <1>4, <1>6 DEF Call, ConsoleCalls, CallAnswers
<1>8. IsSending(new) /\ CallIsKnown(new, jobs)
  BY <1>5, <1>6, <1>7 DEF IsSending, CallIsKnown, Decisions
<1>9. ASSUME ~hurried
      PROVE  /\ CallFits(new, opened, job') /\ TrackedIsShown'
             /\ new.job # 0 => jobs[new.job].production = new.production
  <2>1. TrackedIsShown
    BY <1>9 DEF ConsoleInv, CalmInv
  <2>2. CallFits(new, opened, job')
    BY <1>2, <1>7 DEF CallFits, Decisions
  <2>3. TrackedIsShown'
    BY <1>2, <1>3, <2>1 DEF TrackedIsShown
  <2> QED
    BY <1>2, <1>7, <2>1, <2>2, <2>3 DEF TrackedIsShown
<1>10. ReadIsDue'
  BY <1>2, <1>3 DEF ConsoleInv, ReadIsDue
<1> QED
  BY <1>2, <1>5, <1>7, <1>8, <1>9, <1>10, SendKeepsConsoleInv

-----------------------------------------------------------------------------
(* Productions, pages and the view.                                        *)

LEMMA ReturnLoadInv ==
    ASSUME ConsoleInv, NEW call \in pending, ReturnLoad(call), UNCHANGED <<onWorkspace, jobs, opens, failures, hurried>>
    PROVE  ConsoleInv'
<1>1. call.kind = "load" /\ pending' = pending \ {call}
  BY DEF ReturnLoad
<1>2. UNCHANGED <<onWorkspace, opened, job, request, impact, state, page, jobs, hurried, unread>>
  BY DEF ReturnLoad, workVars
<1>3. /\ loadState' \in {"error", "ready"}
      /\ loadState' = "ready" => shown' = call.production /\ followed' = call.production
      /\ view' = view \/ view' = Nothing
  BY DEF ReturnLoad, realtimeVars, Follow
<1>4. opened # Nothing
  BY DEF ConsoleInv, NothingIsOpen
<1>5. \A c \in pending : IsSending(c) => c.kind # "load"
  BY DEF ConsoleInv, JobsAreKnown, CallIsKnown, IsSending, Decisions
<1>6. ConsoleTypes'
  BY <1>1, <1>2, <1>3 DEF ConsoleInv, ConsoleTypes
<1>7. JobsAreKnown'
  BY <1>1, <1>2 DEF ConsoleInv, JobsAreKnown
<1>8. ASSUME ~hurried PROVE CalmInv'
  <2>1. LoadsAreOfTheOpened /\ OneIsSent /\ TrackedIsShown /\ CallsNameTheirProduction
    BY <1>8 DEF ConsoleInv, CalmInv
  <2>2. (\A c \in pending' : c.kind # "load") /\ call.production = opened
    BY <1>1, <2>1 DEF LoadsAreOfTheOpened
  <2>3. LoadsAreOfTheOpened'
    BY <1>2, <1>3, <2>2 DEF LoadsAreOfTheOpened
  <2>4. \A c : IsSending(c) => (c \in pending' <=> c \in pending)
    BY <1>1, <1>5
  <2>5. OneIsSent'
    BY <1>2, <2>1, <2>4 DEF OneIsSent
  <2>6. TrackedIsShown'
    BY <1>2, <2>1 DEF TrackedIsShown
  <2>7. CallsNameTheirProduction'
    BY <1>1, <1>2, <2>1 DEF CallsNameTheirProduction
  <2> QED
    BY <2>3, <2>5, <2>6, <2>7 DEF CalmInv
<1>9. ~onWorkspace => PageOnly'
  BY <1>1, <1>2 DEF ConsoleInv, PageOnly
<1>10. ReadIsDue'
  BY <1>1, <1>2, <1>3 DEF ConsoleInv, ReadIsDue
<1> QED
  BY <1>2, <1>4, <1>6, <1>7, <1>8, <1>9, <1>10 DEF ConsoleInv

LEMMA ReturnPageInv ==
    ASSUME ConsoleInv, NEW call \in pending, ReturnPage(call), UNCHANGED <<onWorkspace, jobs, opens, failures, hurried>>
    PROVE  ConsoleInv'
<1>1. call.kind = "page" /\ pending' = pending \ {call}
  BY DEF ReturnPage
<1>2. UNCHANGED <<onWorkspace, opened, loadState, shown, followed, view, job, request, impact, state, jobs, hurried,
                  unread>>
  BY DEF ReturnPage, storeVars, realtimeVars, workVars
<1>3. page' = page \/ (call.newest /\ page' \in {"error", call.production})
  BY DEF ReturnPage, ShowPage
<1>4. opened # Nothing
  BY DEF ConsoleInv, NothingIsOpen
<1>5. ~IsSending(call)
  BY <1>1, CallJob DEF CallIsKnown, IsSending, Decisions
<1>6. ConsoleTypes'
  BY <1>1, <1>2 DEF ConsoleInv, ConsoleTypes
<1>7. JobsAreKnown'
  BY <1>1, <1>2 DEF ConsoleInv, JobsAreKnown
<1>8. ASSUME ~hurried PROVE CalmInv'
  <2>1. LoadsAreOfTheOpened /\ OneIsSent /\ TrackedIsShown /\ CallsNameTheirProduction
    BY <1>8 DEF ConsoleInv, CalmInv
  <2>2. \A c : IsSending(c) \/ c.kind = "load" => (c \in pending' <=> c \in pending)
    BY <1>1, <1>5
  <2>3. LoadsAreOfTheOpened'
    BY <1>2, <2>1, <2>2 DEF LoadsAreOfTheOpened
  <2>4. OneIsSent'
    BY <1>2, <2>1, <2>2 DEF OneIsSent
  <2>5. TrackedIsShown'
    BY <1>2, <2>1 DEF TrackedIsShown
  <2>6. CallsNameTheirProduction'
    BY <1>1, <1>2, <2>1 DEF CallsNameTheirProduction
  <2> QED
    BY <2>3, <2>4, <2>5, <2>6 DEF CalmInv
<1>9. ~onWorkspace => PageOnly'
  BY <1>1, <1>2, <1>3 DEF ConsoleInv, PageOnly
<1>10. ReadIsDue'
  BY <1>1, <1>2 DEF ConsoleInv, ReadIsDue
<1> QED
  BY <1>2, <1>4, <1>6, <1>7, <1>8, <1>9, <1>10 DEF ConsoleInv

LEMMA ViewArrivesInv == ASSUME ConsoleInv, ViewArrives PROVE ConsoleInv'
<1>1. UNCHANGED <<onWorkspace, opened, loadState, shown, followed, job, request, impact, state, page, jobs, hurried>>
  BY DEF ViewArrives, storeVars, workVars
<1>2. pending' = Look(job, view', pending) /\ unread' = FALSE
  BY DEF ViewArrives
<1>3. PICK due \in BOOLEAN :
        due = (job # Nothing /\ view' # Nothing /\ job.id \in DOMAIN view' /\ view'[job.id] # job.stage)
  OBVIOUS
<1>4. PICK reading : reading = Call("refresh", job.production, job.id)
  OBVIOUS
<1>5. pending' = IF due THEN pending \cup {reading} ELSE pending
  BY <1>2, <1>3, <1>4 DEF Look
<1>6. ASSUME due
      PROVE  /\ reading \in ConsoleCalls /\ reading.kind = "refresh" /\ reading.job = job.id
             /\ reading.production = job.production /\ ~reading.ends /\ CallIsKnown(reading, jobs)
  <2>1. job \in TrackedJobs /\ jobs[job.id] # Nothing
    BY <1>3, <1>6 DEF ConsoleInv, ConsoleTypes, JobsAreKnown
  <2>2. job.id \in 0..MaxTracked /\ job.id # 0 /\ job.production \in Homes
    BY <2>1, JobNumbers DEF TrackedJobs
  <2>3. "refresh" \in CallKinds
    BY DEF CallKinds
  <2>4. reading \in ConsoleCalls /\ reading.kind = "refresh" /\ reading.job = job.id
        /\ reading.production = job.production /\ ~reading.ends
    BY <1>4, <2>2, <2>3 DEF Call, ConsoleCalls, CallAnswers
  <2> QED
    BY <2>1, <2>2, <2>4 DEF CallIsKnown
<1>7. \A c \in pending' : c \in pending \/ (due /\ c = reading)
  BY <1>5
<1>8. pending \subseteq pending'
  BY <1>5
<1>9. ConsoleTypes'
  BY <1>1, <1>2, <1>6, <1>7 DEF ConsoleInv, ConsoleTypes
<1>10. JobsAreKnown'
  BY <1>1, <1>6, <1>7 DEF ConsoleInv, JobsAreKnown
<1>11. ASSUME ~hurried PROVE CalmInv'
  <2>1. LoadsAreOfTheOpened /\ OneIsSent /\ TrackedIsShown /\ CallsNameTheirProduction
    BY <1>11 DEF ConsoleInv, CalmInv
  <2>2. due => reading.kind # "load" /\ ~IsSending(reading)
    BY <1>6 DEF IsSending, Decisions
  <2>3. \A c : IsSending(c) \/ c.kind = "load" => (c \in pending' <=> c \in pending)
    BY <1>7, <1>8, <2>2
  <2>4. LoadsAreOfTheOpened'
    BY <1>1, <2>1, <2>3 DEF LoadsAreOfTheOpened
  <2>5. OneIsSent'
    BY <1>1, <2>1, <2>3 DEF OneIsSent
  <2>6. TrackedIsShown'
    BY <1>1, <2>1 DEF TrackedIsShown
  <2>7. CallsNameTheirProduction'
    BY <1>1, <1>3, <1>6, <1>7, <2>1 DEF CallsNameTheirProduction, TrackedIsShown
  <2> QED
    BY <2>4, <2>5, <2>6, <2>7 DEF CalmInv
<1>12. ~onWorkspace => PageOnly'
  BY <1>1, <1>3, <1>7 DEF ConsoleInv, PageOnly
<1>13. opened = Nothing => NothingIsOpen'
  BY <1>1, <1>3, <1>7 DEF ConsoleInv, NothingIsOpen
<1>14. ReadIsDue'
  <2>1. due => reading \in pending'
    BY <1>5
  <2> QED
    BY <1>1, <1>3, <1>6, <2>1 DEF ReadIsDue
<1> QED
  BY <1>1, <1>9, <1>10, <1>11, <1>12, <1>13, <1>14 DEF ConsoleInv

\* Nobody hurried: nothing was being read or sent when the production was opened.
LEMMA OpenedCalmly ==
    ASSUME ConsoleInv, ~hurried, opened = Nothing \/ ~Busy
    PROVE  /\ state # "submitting"
           /\ \A c \in pending : c.kind # "load" /\ ~IsSending(c)
           /\ TrackedIsShown /\ CallsNameTheirProduction
<1>1. LoadsAreOfTheOpened /\ OneIsSent /\ TrackedIsShown /\ CallsNameTheirProduction
  BY DEF ConsoleInv, CalmInv
<1>2. CASE opened = Nothing
  BY <1>1, <1>2 DEF ConsoleInv, NothingIsOpen
<1>3. CASE ~Busy
  BY <1>1, <1>3 DEF Busy, LoadsAreOfTheOpened, OneIsSent
<1> QED
  BY <1>1, <1>2, <1>3

\* The calls on their way when a production was opened: those there were, an
\* older read of the page perhaps marked so, and what the opening asks for.
IsOpened(production, load) ==
    /\ load \in pending' /\ load.kind = "load" /\ load.production = production
    /\ pending' \subseteq ConsoleCalls
    /\ \A c \in pending' : \/ c = load
                           \/ c \in pending
                           \/ c.kind = "page" /\ c.job = 0 /\ ~c.ends /\ c.answer \in {Nothing, "refused"}
    /\ load.job = 0 /\ ~load.ends /\ load.answer = Nothing

LEMMA OpenKeepsConsoleInv ==
    ASSUME ConsoleInv, NEW production \in Homes, NEW load, IsOpened(production, load),
           opened' = production, loadState' = "loading", hurried' = (hurried \/ (opened # Nothing /\ Busy)),
           UNCHANGED <<onWorkspace, followed, view, jobs, unread>>,
           job' = job \/ job' = Nothing, state' = state \/ state' = "idle",
           \A c \in pending : c.kind = "refresh" => c \in pending',
           ~hurried /\ TrackedIsShown => TrackedIsShown',
           ~onWorkspace => PageOnly'
    PROVE  ConsoleInv'
<1>1. ConsoleTypes'
  <2>1. hurried' \in BOOLEAN
    BY DEF ConsoleInv, ConsoleTypes, Busy
  <2> QED
    BY <2>1 DEF ConsoleInv, ConsoleTypes, IsOpened
<1>2. JobsAreKnown'
  <2>1. job' # Nothing => jobs'[job'.id] # Nothing
    BY DEF ConsoleInv, JobsAreKnown
  <2>2. ASSUME NEW c \in pending' PROVE CallIsKnown(c, jobs')
    <3>1. CASE c \in pending
      BY <3>1 DEF ConsoleInv, JobsAreKnown
    <3>2. CASE c = load
      BY <3>2, NothingIsNoRecord DEF IsOpened, CallIsKnown
    <3>3. CASE c.kind = "page" /\ c.job = 0 /\ ~c.ends /\ c.answer \in {Nothing, "refused"}
      <4>1. "refused" \notin JobStages
        BY DEF JobStages, NextStages
      <4> QED
        BY <3>3, <4>1, NothingIsNoRecord DEF CallIsKnown
    <3> QED
      BY <3>1, <3>2, <3>3 DEF IsOpened
  <2> QED
    BY <2>1, <2>2 DEF JobsAreKnown
<1>3. ASSUME ~hurried' PROVE CalmInv'
  <2>1. ~hurried /\ (opened = Nothing \/ ~Busy)
    BY <1>3
  <2>2. /\ state # "submitting"
        /\ \A c \in pending : c.kind # "load" /\ ~IsSending(c)
        /\ TrackedIsShown /\ CallsNameTheirProduction
    BY <2>1, OpenedCalmly
  <2>3. \A c \in pending' : c = load \/ (c.kind # "load" /\ ~IsSending(c))
    BY <2>2 DEF IsOpened, IsSending, Decisions
  <2>4. ~IsSending(load)
    BY DEF IsOpened, IsSending, Decisions
  <2>5. LoadsAreOfTheOpened'
    BY <2>3 DEF IsOpened, LoadsAreOfTheOpened
  <2>6. OneIsSent'
    BY <2>2, <2>3, <2>4 DEF OneIsSent
  <2>7. CallsNameTheirProduction'
    BY <2>2 DEF IsOpened, CallsNameTheirProduction
  <2> QED
    BY <2>1, <2>2, <2>5, <2>6, <2>7 DEF CalmInv
<1>4. opened' # Nothing
  BY NothingIsNoRecord
<1>5. ReadIsDue'
  BY DEF ConsoleInv, ReadIsDue
<1> QED
  BY <1>1, <1>2, <1>3, <1>4, <1>5 DEF ConsoleInv

LEMMA OpenInv == ASSUME ConsoleInv, NEW production \in Homes, Open(production) PROVE ConsoleInv'
<1>1. UNCHANGED <<onWorkspace, followed, view, jobs, unread>>
  BY DEF Open, realtimeVars
<1>2. CASE AlreadyOpen(production)
  <2>1. ConsoleStands
    BY <1>2 DEF Open, ConsoleStands
  <2> QED
    BY <2>1, ConsoleUnchanged
<1>3. CASE ~AlreadyOpen(production)
  <2>1. PICK load : load = Call("load", production, 0)
    OBVIOUS
  <2>2. PICK asked : asked = pending \cup {load}
    OBVIOUS
  <2>3. /\ opened' = production /\ loadState' = "loading"
        /\ hurried' = (hurried \/ (opened # Nothing /\ Busy))
        /\ IF opened = production THEN pending' = asked /\ UNCHANGED <<workVars, page>>
           ELSE IF onWorkspace THEN pending' = asked /\ OpenOnWorkspace
           ELSE pending' = Begin(asked, production) /\ OpenOnPage
    BY <1>3, <2>1, <2>2 DEF Open
  <2>4. "load" \in CallKinds /\ "page" \in CallKinds /\ 0 \in 0..MaxTracked
    BY JobNumbers DEF CallKinds
  <2>5. /\ load \in ConsoleCalls /\ load.kind = "load" /\ load.production = production
        /\ load.job = 0 /\ ~load.ends /\ load.answer = Nothing
    BY <2>1, <2>4 DEF Call, ConsoleCalls, CallAnswers
  <2>6. pending \subseteq ConsoleCalls
    BY DEF ConsoleInv, ConsoleTypes
  <2>7. ASSUME pending' = asked
        PROVE  IsOpened(production, load) /\ \A c \in pending : c.kind = "refresh" => c \in pending'
    <3>1. IsOpened(production, load)
      BY <2>2, <2>5, <2>6, <2>7 DEF IsOpened
    <3> QED
      BY <2>2, <2>7, <3>1
  <2>8. CASE opened = production
    <3>1. UNCHANGED <<opened, job, request, impact, state, page>> /\ pending' = asked
      BY <2>3, <2>8 DEF workVars
    <3>2. TrackedIsShown => TrackedIsShown'
      BY <1>1, <3>1 DEF TrackedIsShown
    <3>3. ~onWorkspace => PageOnly'
      BY <2>2, <2>5, <3>1 DEF ConsoleInv, PageOnly
    <3> QED
      BY <1>1, <2>3, <2>7, <3>1, <3>2, <3>3, OpenKeepsConsoleInv
  <2>9. CASE opened # production /\ onWorkspace
    <3>1. /\ job' = Nothing /\ request' = Nothing /\ impact' = Nothing /\ state' = "idle"
          /\ pending' = asked
      BY <2>3, <2>9 DEF OpenOnWorkspace, Reset
    <3>2. TrackedIsShown'
      BY <3>1 DEF TrackedIsShown
    <3> QED
      BY <1>1, <2>3, <2>7, <2>9, <3>1, <3>2, OpenKeepsConsoleInv
  <2>10. CASE opened # production /\ ~onWorkspace
    <3>1. /\ UNCHANGED <<job, request, impact, state>> /\ page' = Nothing
          /\ pending' = Begin(asked, production)
      BY <2>3, <2>10 DEF OpenOnPage, workVars
    <3>2. PageOnly
      BY <2>10 DEF ConsoleInv
    <3>3. PICK new : new = Call("page", production, 0)
      OBVIOUS
    <3>4. /\ new \in ConsoleCalls /\ new.kind = "page" /\ new.production = production
          /\ new.job = 0 /\ ~new.ends /\ new.answer = Nothing
      BY <2>4, <3>3 DEF Call, ConsoleCalls, CallAnswers
    <3>5. PICK older : older = [c \in ConsoleCalls |-> [c EXCEPT !.newest = FALSE]]
      OBVIOUS
    <3>6. ASSUME NEW c \in pending, c.kind = "page"
          PROVE  /\ older[c] \in ConsoleCalls /\ older[c].kind = "page" /\ older[c].job = 0 /\ ~older[c].ends
                 /\ older[c].answer \in {Nothing, "refused"} /\ ~older[c].newest
      <4>1. c \in ConsoleCalls /\ CallIsKnown(c, jobs) /\ c.ends \in BOOLEAN /\ c.answer \in CallAnswers
        BY CallJob
      <4>2. c.job = 0 /\ ~c.ends /\ c.answer \in {Nothing, "refused"}
        BY <3>6, <4>1 DEF CallIsKnown, CallAnswers
      <4>3. /\ older[c] \in ConsoleCalls /\ older[c].kind = c.kind /\ older[c].job = c.job
            /\ older[c].ends = c.ends /\ older[c].answer = c.answer /\ older[c].newest = FALSE
        BY <3>5, <4>1 DEF ConsoleCalls
      <4> QED
        BY <3>6, <4>2, <4>3
    <3>7. pending' = {IF c.kind = "page" THEN older[c] ELSE c : c \in asked} \cup {new}
      <4>1. asked \subseteq ConsoleCalls
        BY <2>2, <2>5, <2>6
      <4> QED
        BY <3>1, <3>3, <3>5, <4>1 DEF Begin
    <3>8. \A c \in asked : c.kind # "page" => c \in pending'
      BY <3>7
    <3>9. \A d \in pending' : \/ d = new
                              \/ d \in asked /\ d.kind # "page"
                              \/ \E c \in pending : c.kind = "page" /\ d = older[c]
      BY <2>2, <2>5, <3>7
    <3>10. IsOpened(production, load)
      <4>1. load \in pending'
        BY <2>2, <2>5, <3>8
      <4>2. pending' \subseteq ConsoleCalls
        BY <2>2, <2>5, <2>6, <3>4, <3>6, <3>9
      <4>3. \A d \in pending' : \/ d = load
                                \/ d \in pending
                                \/ d.kind = "page" /\ d.job = 0 /\ ~d.ends /\ d.answer \in {Nothing, "refused"}
        BY <2>2, <3>4, <3>6, <3>9
      <4> QED
        BY <2>5, <4>1, <4>2, <4>3 DEF IsOpened
    <3>11. PageOnly'
      <4>1. \A d \in pending' : d.kind \in {"load", "page"} /\ (d.kind = "page" /\ d.newest => d.production = production)
        BY <2>2, <2>5, <3>2, <3>4, <3>6, <3>9 DEF PageOnly
      <4> QED
        BY <2>3, <3>1, <3>2, <4>1 DEF PageOnly
    <3>12. TrackedIsShown'
      BY <3>1, <3>2 DEF PageOnly, TrackedIsShown
    <3>13. \A c \in pending : c.kind = "refresh" => c \in pending'
      BY <2>2, <3>8
    <3> QED
      BY <1>1, <2>3, <3>1, <3>10, <3>11, <3>12, <3>13, OpenKeepsConsoleInv
  <2> QED
    BY <2>8, <2>9, <2>10
<1> QED
  BY <1>2, <1>3

-----------------------------------------------------------------------------

LEMMA ReturnInv == ASSUME ConsoleInv, NEW call \in pending, Return(call) PROVE ConsoleInv'
<1>1. CASE ReturnLoad(call)
  BY <1>1, ReturnLoadInv DEF Return
<1>2. CASE ReturnPage(call)
  BY <1>2, ReturnPageInv DEF Return
<1>3. CASE /\ \/ ReturnRefresh(call) \/ ReturnRequest(call) \/ ReturnImpact(call)
              \/ ReturnRun(call) \/ ReturnDecision(call)
           /\ UNCHANGED <<storeVars, realtimeVars, page>>
  <2>1. ReturnStays
    BY <1>3 DEF Return, ReturnStays, storeVars, realtimeVars
  <2>2. call.kind \in {"refresh", "submit", "resolve", "apply"} => call.answer # Nothing
    BY DEF Return, IsAboutJobs
  <2>3. CASE ReturnRefresh(call)
    BY <2>1, <2>2, <2>3, ReturnRefreshInv DEF ReturnRefresh
  <2>4. CASE ReturnRequest(call)
    BY <2>1, <2>4, ReturnRequestInv
  <2>5. CASE ReturnImpact(call)
    BY <2>1, <2>5, ReturnImpactInv
  <2>6. CASE ReturnRun(call)
    BY <2>1, <2>2, <2>6, ReturnRunInv DEF ReturnRun
  <2>7. CASE ReturnDecision(call)
    BY <2>1, <2>7, ReturnDecisionInv
  <2> QED
    BY <1>3, <2>3, <2>4, <2>5, <2>6, <2>7
<1> QED
  BY <1>1, <1>2, <1>3 DEF Return

LEMMA ConsoleStep == ASSUME ConsoleInv, ConsoleNext PROVE ConsoleInv'
<1>1. CASE \E production \in Homes : Open(production)
  BY <1>1, OpenInv
<1>2. CASE Submit
  BY <1>2, SubmitInv
<1>3. CASE Resolve \/ Reject \/ ApproveAndApply
  <2>1. "resolve" \in Decisions /\ "reject" \in Decisions /\ "approve" \in Decisions
    BY DEF Decisions
  <2> QED
    BY <1>3, <2>1, SendForInv DEF Resolve, Reject, ApproveAndApply
<1>4. CASE \E call \in pending : Serve(call) \/ Fail(call) \/ Return(call)
  BY <1>4, ServeInv, FailInv, ReturnInv
<1>5. CASE ViewArrives
  BY <1>5, ViewArrivesInv
<1>6. CASE \E id \in JobIds : JobMoves(id)
  BY <1>6, JobMovesInv
<1> QED
  BY <1>1, <1>2, <1>3, <1>4, <1>5, <1>6 DEF ConsoleNext

LEMMA ConsoleInvSuffices == ConsoleInv => ConsoleIsConsistent
<1> SUFFICES ASSUME ConsoleInv PROVE ConsoleIsConsistent
  OBVIOUS
<1>1. OneProductionIsShown
  <2> SUFFICES ASSUME ~hurried PROVE OneProductionIsShown
    BY DEF OneProductionIsShown
  <2>1. LoadsAreOfTheOpened /\ OneIsSent /\ TrackedIsShown /\ CallsNameTheirProduction
    BY DEF ConsoleInv, CalmInv
  <2>2. \A c : IsSending(c) <=> c.kind \in {"submit", "resolve", "approve", "apply", "reject"} \/ c.ends
    BY DEF IsSending, Decisions
  <2>3. state = "submitting" <=> Sending # {}
    BY <2>1, <2>2 DEF Sending, OneIsSent
  <2>4. loadState = "ready" => shown = opened /\ followed = opened
    BY <2>1 DEF LoadsAreOfTheOpened
  <2>5. /\ job # Nothing => job.production = opened
        /\ {request, impact} \subseteq {Nothing, IF job = Nothing THEN Nothing ELSE job.id}
    BY <2>1 DEF TrackedIsShown
  <2>6. \A call \in pending : call.job # 0 => jobs[call.job].production = call.production
    BY <2>1 DEF CallsNameTheirProduction
  <2> QED
    BY <2>3, <2>4, <2>5, <2>6 DEF OneProductionIsShown
<1>2. PageIsOfItsProduction
  BY DEF ConsoleInv, PageOnly, PageIsOfItsProduction
<1>3. TrackedJobIsRead
  BY DEF ConsoleInv, ReadIsDue, TrackedJobIsRead
<1> QED
  BY <1>1, <1>2, <1>3 DEF ConsoleIsConsistent

\* Whatever two answers overtake each other and whoever moves the jobs: while
\* nobody navigates under a call, everything on the screen is about one
\* production and one job; a page shows the rows of its production; and once
\* nothing is on its way the tracked job is as the view says
\* (change-submission.service.ts, production.store.ts, page-load.ts).
THEOREM ConsoleStaysConsistent == EdgesSpec => []ConsoleIsConsistent
<1>1. EdgesInit => ConsoleInv
  BY ConsoleInitInv DEF EdgesInit
<1>2. ConsoleInv /\ [EdgesNext]_edgeVars => ConsoleInv'
  <2> SUFFICES ASSUME ConsoleInv, [EdgesNext]_edgeVars PROVE ConsoleInv'
    OBVIOUS
  <2>1. CASE ConsoleNext
    BY <2>1, ConsoleStep
  <2>2. CASE UNCHANGED consoleVars
    BY <2>2, ConsoleUnchanged DEF consoleVars, ConsoleStands
  <2> QED
    BY <2>1, <2>2 DEF EdgesNext, edgeVars
<1> QED
  BY <1>1, <1>2, ConsoleInvSuffices, PTL DEF EdgesSpec

=============================================================================
