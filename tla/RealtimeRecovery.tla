--------------------------- MODULE RealtimeRecovery ---------------------------
(***************************************************************************)
(* How a browser stays up to date: the server writes its records and then  *)
(* publishes notifications (packages/application/src/realtime), the        *)
(* gateway forwards them to the subscribed sockets (packages/adapters/     *)
(* ws-gateway), and the reconnecting client (packages/realtime-client)     *)
(* merges them into what its last recovery snapshot said (use-cases/       *)
(* recovery.ts).  The socket says that something changed, the records say  *)
(* what.                                                                   *)
(*                                                                         *)
(* One client that follows one production with one job run.  A socket is   *)
(* two queues; losing it loses what is in them.  A snapshot is read by     *)
(* one call to the repositories after another, so writes fall between its  *)
(* parts.                                                                  *)
(*                                                                         *)
(* Abstractions.  A run is the number of its moves; the two events of a    *)
(* move are published together and are one message.  The list of open      *)
(* proposals is, for each proposal, the sequence of its copies in it: the  *)
(* client looks for the first, and the order of different proposals does   *)
(* not matter.  The validation status and the summary are merged as the    *)
(* status is, and left out.  DRAFT is AWAITING_APPROVAL: neither becomes   *)
(* the other, and the snapshot reads both before APPROVED.  A read whose   *)
(* production was unfollowed is forgotten, as its answer is.  The          *)
(* gateway's refusals (authorization, limits) are left out: the client     *)
(* ignores them.                                                           *)
(***************************************************************************)
EXTENDS Integers, SequencesExt

CONSTANTS
    Proposals,
    PublishedInOrder,   \* FALSE: a store that answers two writes in either order (Mongo)
    MaxWrites,          \* bounds of the model: writes, lost sockets and failed reads,
    MaxFaults,          \* calls of the client's methods
    MaxCalls,           \* (connect, unfollow, recover, close), calls of follow
    MaxFollows,
    None

ASSUME PublishedInOrderIsBoolean == PublishedInOrder \in BOOLEAN
ASSUME BudgetsAreNatural == MaxWrites \in Nat /\ MaxFaults \in Nat /\ MaxCalls \in Nat /\ MaxFollows \in Nat

VARIABLES
    version,            \* the production's version
    run,                \* the moves of the job run, 0 before it starts
    records,            \* the proposals, None when there is none
    outbox,             \* writes done and not yet published, in order
    link,               \* the socket
    subscribed,         \* what the gateway knows of it
    up, down,           \* messages on the way to the gateway, to the client
    status,             \* what the client says of its connection
    closedByUser,
    reconnecting,       \* the reconnect timer is running
    entry,              \* the followed production, None when it is not followed
    budget              \* what is left of each bound

serverVars == <<version, run, records, outbox>>
socketVars == <<link, subscribed, up, down>>
clientVars == <<status, closedByUser, reconnecting, entry>>
vars == <<serverVars, socketVars, clientVars, budget>>

-----------------------------------------------------------------------------
(* Records, messages and views.                                            *)

OpenStatuses == {"AWAITING_APPROVAL", "APPROVED"}
ClosedStatuses == {"REJECTED", "APPLIED", "FAILED"}
Statuses == OpenStatuses \cup ClosedStatuses

Notifications ==
    [type : {"job"}, move : Nat]
    \cup [type : {"proposal"}, id : Proposals, status : Statuses]
ServerMessages == Notifications \cup [type : {"welcome", "subscribed", "unsubscribed"}]
ClientMessages == {"subscribe", "unsubscribe"}

Copies == [Proposals -> Seq(Statuses)]
NoCopies == [p \in Proposals |-> <<>>]
ReadPoints == {"version", "undecided", "approved", "jobs", "answer"}
Reads == [at : ReadPoints, version : Nat, run : Nat, open : Copies]
FirstRead == [at |-> "version", version |-> 0, run |-> 0, open |-> NoCopies]

\* A followed production: its view, and the bookkeeping of its recovery.
Entries ==
    [version : Nat, run : Nat, open : Copies, recovering : BOOLEAN,
     held : Seq(Notifications), dirty : BOOLEAN, retrying : BOOLEAN, read : Reads \cup {None}]
EmptyEntry ==
    [version |-> 0, run |-> 0, open |-> NoCopies, recovering |-> FALSE,
     held |-> <<>>, dirty |-> FALSE, retrying |-> FALSE, read |-> None]

ASSUME NoneIsNothingElse == None \notin Entries \cup Reads \cup Statuses

Budgets == [writes : 0..MaxWrites, faults : 0..MaxFaults, calls : 0..MaxCalls, follows : 0..MaxFollows]

RealtimeTypeOK ==
    /\ version \in Nat /\ run \in Nat
    /\ records \in [Proposals -> Statuses \cup {None}]
    /\ outbox \in Seq(Notifications)
    /\ link \in {"none", "connecting", "open", "lost", "closing"}
    /\ subscribed \in BOOLEAN
    /\ up \in Seq(ClientMessages) /\ down \in Seq(ServerMessages)
    /\ status \in {"idle", "connecting", "open", "reconnecting", "closed"}
    /\ closedByUser \in BOOLEAN /\ reconnecting \in BOOLEAN
    /\ entry \in Entries \cup {None}
    /\ entry # None => \A p \in Proposals : Len(entry.open[p]) <= 2     \* one copy for each list read
    /\ budget \in Budgets

Init ==
    /\ version = 1 /\ run = 0 /\ records = [p \in Proposals |-> None] /\ outbox = <<>>
    /\ link = "none" /\ subscribed = FALSE /\ up = <<>> /\ down = <<>>
    /\ status = "idle" /\ closedByUser = FALSE /\ reconnecting = FALSE /\ entry = None
    /\ budget = [writes |-> MaxWrites, faults |-> MaxFaults, calls |-> MaxCalls, follows |-> MaxFollows]

Spend(kind) == budget[kind] > 0 /\ budget' = [budget EXCEPT ![kind] = @ - 1]

-----------------------------------------------------------------------------
(* The server.                                                             *)

\* What a write makes of a proposal: it is created, decided, applied; a
\* validation that read it before a decision writes the earlier status back.
Written(old) ==
    CASE old = "AWAITING_APPROVAL" -> {"APPROVED", "REJECTED"}
      [] old = "APPROVED" -> {"AWAITING_APPROVAL", "APPLIED", "FAILED"}
      [] OTHER -> {"AWAITING_APPROVAL"}

WriteProposal(p) ==
    /\ Spend("writes")
    /\ \E new \in Written(records[p]) :
         /\ records' = [records EXCEPT ![p] = new]
         /\ version' = IF new = "APPLIED" THEN version + 1 ELSE version
         /\ outbox' = Append(outbox, [type |-> "proposal", id |-> p, status |-> new])
    /\ UNCHANGED <<run, socketVars, clientVars>>

MoveRun ==
    /\ Spend("writes")
    /\ run' = run + 1
    /\ outbox' = Append(outbox, [type |-> "job", move |-> run'])
    /\ UNCHANGED <<version, records, socketVars, clientVars>>

IsConnected == link \in {"open", "closing"}

\* The hub calls the gateway, which writes to the socket if it is subscribed.
Publish ==
    /\ \E i \in DOMAIN outbox :
         /\ PublishedInOrder => i = 1
         /\ outbox' = RemoveAt(outbox, i)
         /\ down' = IF IsConnected /\ subscribed THEN Append(down, outbox[i]) ELSE down
    /\ UNCHANGED <<version, run, records, link, subscribed, up, clientVars, budget>>

\* The gateway accepts the socket and speaks first.
Accept ==
    /\ link = "connecting"
    /\ link' = "open"
    /\ subscribed' = FALSE
    /\ down' = <<[type |-> "welcome"]>>
    /\ UNCHANGED <<up, serverVars, clientVars, budget>>

AnswerClient ==
    /\ IsConnected /\ up # <<>>
    /\ up' = Tail(up)
    /\ subscribed' = (Head(up) = "subscribe")
    /\ down' = Append(down, [type |-> IF Head(up) = "subscribe" THEN "subscribed" ELSE "unsubscribed"])
    /\ UNCHANGED <<link, serverVars, clientVars, budget>>

\* The socket is lost, with what is on its way; or the server stops, with
\* what it has not published.
LoseSocket ==
    /\ Spend("faults")
    /\ link \in {"connecting", "open"}
    /\ link' = "lost" /\ subscribed' = FALSE /\ up' = <<>> /\ down' = <<>>
    /\ outbox' \in {outbox, <<>>}
    /\ UNCHANGED <<version, run, records, clientVars>>

-----------------------------------------------------------------------------
(* The client: recovery and merging.                                       *)

ReadSnapshot(e) == [e EXCEPT !.recovering = TRUE, !.retrying = FALSE, !.read = FirstRead]

\* Mutant: a recovery asked for while one is running is not repeated.
RecoverOnce(e) == IF e.recovering /\ ~e.retrying THEN e ELSE ReadSnapshot(e)

RecoverProduction(e) ==
    IF e.recovering /\ ~e.retrying THEN [e EXCEPT !.dirty = TRUE] ELSE ReadSnapshot(e)

\* Mutant: what was held is kept when the socket is lost.
AbandonTimerOnly(e) == [e EXCEPT !.retrying = FALSE]

AbandonRecovery(e) ==
    [e EXCEPT !.held = <<>>, !.dirty = FALSE, !.retrying = FALSE,
              !.recovering = e.recovering /\ ~e.retrying]

ApplyJobEvent(e, event) ==
    IF e.run = 0 THEN RecoverProduction(e)
    ELSE IF event.move <= e.run THEN e
    ELSE [e EXCEPT !.run = event.move]

MergeProposal(e, notice) ==
    IF e.open[notice.id] = <<>> THEN RecoverProduction(e)
    ELSE IF notice.status \in OpenStatuses
    THEN [e EXCEPT !.open[notice.id] = [e.open[notice.id] EXCEPT ![1] = notice.status]]
    ELSE LET closed == [e EXCEPT !.open[notice.id] = Tail(@)] IN
         IF notice.status = "APPLIED" THEN RecoverProduction(closed) ELSE closed

ApplyNotification(e, notice) ==
    IF e.recovering THEN [e EXCEPT !.held = Append(@, notice)]
    ELSE IF notice.type = "job" THEN ApplyJobEvent(e, notice)
    ELSE MergeProposal(e, notice)

Snapshot(e) ==
    [e EXCEPT !.version = e.read.version, !.run = e.read.run, !.open = e.read.open,
              !.recovering = FALSE, !.read = None, !.held = <<>>]

\* The entry after each of the notices was merged into it.
Merging(e, notices) ==
    LET merged[n \in 0..Len(notices)] ==
          IF n = 0 THEN e ELSE ApplyNotification(merged[n - 1], notices[n])
    IN merged

\* The snapshot becomes the view, what was held is merged into it, and a
\* recovery that was asked for meanwhile begins.
Recovered(e) ==
    LET merged == Merging(Snapshot(e), e.held)[Len(e.held)]
    IN IF merged.dirty THEN RecoverProduction([merged EXCEPT !.dirty = FALSE]) ELSE merged

Update(e) == entry' = e /\ UNCHANGED <<status, closedByUser, reconnecting>>

IsReading(point) == entry # None /\ entry.read # None /\ entry.read.at = point

\* The next call of the recovery query: loadState, two lists, the runs.
ReadOn(point, next, read) ==
    /\ IsReading(point)
    /\ Update([entry EXCEPT !.read = [read EXCEPT !.at = next]])
    /\ UNCHANGED <<serverVars, socketVars, budget>>

Listed(wanted) ==
    [p \in Proposals |->
       IF records[p] = wanted THEN Append(entry.read.open[p], wanted) ELSE entry.read.open[p]]

LoadVersion == ReadOn("version", "undecided", [entry.read EXCEPT !.version = version])
ListUndecided ==
    ReadOn("undecided", "approved", [entry.read EXCEPT !.open = Listed("AWAITING_APPROVAL")])
ListApproved == ReadOn("approved", "jobs", [entry.read EXCEPT !.open = Listed("APPROVED")])
ListJobs == ReadOn("jobs", "answer", [entry.read EXCEPT !.run = run])

SnapshotArrives ==
    /\ IsReading("answer")
    /\ Update(Recovered(entry))
    /\ UNCHANGED <<serverVars, socketVars, budget>>

\* Mutant: a failed read is not tried again.
ReadGivesUp ==
    /\ entry # None /\ entry.read # None
    /\ Spend("faults")
    /\ Update([entry EXCEPT !.recovering = FALSE, !.read = None])
    /\ UNCHANGED <<serverVars, socketVars>>

\* The read fails at any point of it; unless the client was closed it is tried
\* again after a while.
ReadFails ==
    /\ entry # None /\ entry.read # None
    /\ Spend("faults")
    /\ Update(IF closedByUser
              THEN [AbandonRecovery(entry) EXCEPT !.recovering = FALSE, !.read = None]
              ELSE [entry EXCEPT !.retrying = TRUE, !.read = None])
    /\ UNCHANGED <<serverVars, socketVars>>

RetryFires ==
    /\ entry # None /\ entry.retrying
    /\ Update(ReadSnapshot(entry))
    /\ UNCHANGED <<serverVars, socketVars, budget>>

-----------------------------------------------------------------------------
(* The client: its socket.                                                 *)

\* Nothing reaches a socket that is not open.
Send(message) == up' = IF link = "open" THEN Append(up, message) ELSE up

ReceiveWelcome ==
    /\ status' = "open"
    /\ IF entry # None THEN Send("subscribe") ELSE UNCHANGED up
    /\ UNCHANGED <<closedByUser, reconnecting, entry>>

ReceiveSubscribed ==
    /\ IF entry # None THEN Update(RecoverProduction(entry)) ELSE UNCHANGED clientVars
    /\ UNCHANGED up

ReceiveNotification(notice) ==
    /\ IF entry # None THEN Update(ApplyNotification(entry, notice)) ELSE UNCHANGED clientVars
    /\ UNCHANGED up

Receive ==
    /\ IsConnected /\ down # <<>>
    /\ down' = Tail(down)
    /\ LET message == Head(down) IN
         CASE message.type = "welcome" -> ReceiveWelcome
           [] message.type = "subscribed" -> ReceiveSubscribed
           [] message.type \in {"job", "proposal"} -> ReceiveNotification(message)
           [] OTHER -> UNCHANGED <<up, clientVars>>
    /\ UNCHANGED <<link, subscribed, serverVars, budget>>

\* createSocket; a client that reconnects says so until it is welcomed.
OpenSocket ==
    /\ link' = "connecting"
    /\ status' = IF status = "reconnecting" THEN status ELSE "connecting"

ReconnectFires ==
    /\ reconnecting
    /\ reconnecting' = FALSE
    /\ OpenSocket
    /\ UNCHANGED <<closedByUser, entry, subscribed, up, down, serverVars, budget>>

\* The close event of a socket that was lost or that the client closed.
SocketCloses ==
    /\ link \in {"lost", "closing"}
    /\ link' = "none" /\ subscribed' = FALSE /\ up' = <<>> /\ down' = <<>>
    /\ entry' = IF entry = None THEN None ELSE AbandonRecovery(entry)
    /\ status' = IF closedByUser THEN "closed" ELSE "reconnecting"
    /\ reconnecting' = ~closedByUser
    /\ UNCHANGED <<closedByUser, serverVars, budget>>

-----------------------------------------------------------------------------
(* The client's methods.                                                   *)

Connect ==
    /\ Spend("calls")
    /\ link = "none" /\ ~reconnecting
    /\ closedByUser' = FALSE
    /\ OpenSocket
    /\ UNCHANGED <<reconnecting, entry, subscribed, up, down, serverVars>>

Follow ==
    /\ Spend("follows")
    /\ entry = None
    /\ entry' = EmptyEntry
    /\ IF status = "open" THEN Send("subscribe") ELSE UNCHANGED up
    /\ UNCHANGED <<status, closedByUser, reconnecting, link, subscribed, down, serverVars>>

Unfollow ==
    /\ Spend("calls")
    /\ entry # None
    /\ entry' = None
    /\ Send("unsubscribe")
    /\ UNCHANGED <<status, closedByUser, reconnecting, link, subscribed, down, serverVars>>

Recover ==
    /\ Spend("calls")
    /\ entry # None
    /\ Update(RecoverProduction(entry))
    /\ UNCHANGED <<serverVars, socketVars>>

Close ==
    /\ Spend("calls")
    /\ closedByUser' = TRUE
    /\ reconnecting' = FALSE
    /\ entry' = IF entry = None THEN None ELSE AbandonRecovery(entry)
    /\ status' = IF link = "none" THEN "closed" ELSE status
    /\ link' = IF link \in {"connecting", "open"} THEN "closing" ELSE link
    /\ UNCHANGED <<subscribed, up, down, serverVars>>

-----------------------------------------------------------------------------
Server == Publish \/ Accept \/ AnswerClient
Reading == LoadVersion \/ ListUndecided \/ ListApproved \/ ListJobs \/ SnapshotArrives
User == Connect \/ Follow \/ Unfollow \/ Recover \/ Close

Next ==
    \/ (\E p \in Proposals : WriteProposal(p)) \/ MoveRun
    \/ Server \/ LoseSocket
    \/ Reading \/ ReadFails \/ RetryFires
    \/ Receive \/ ReconnectFires \/ SocketCloses
    \/ User

Spec == Init /\ [][Next]_vars

\* Messages and answers arrive, timers fire and closed sockets say so; nobody
\* has to write, call or fail.
FairSpec ==
    /\ Spec
    /\ WF_vars(Publish) /\ WF_vars(Accept) /\ WF_vars(AnswerClient)
    /\ WF_vars(Reading) /\ WF_vars(RetryFires)
    /\ WF_vars(Receive) /\ WF_vars(ReconnectFires) /\ WF_vars(SocketCloses)

-----------------------------------------------------------------------------
(* Properties.                                                             *)

Shows(e) ==
    /\ e.version = version
    /\ e.run = run
    /\ \A p \in Proposals : records[p] \in OpenStatuses => e.open[p] # <<>> /\ Head(e.open[p]) = records[p]

IsQuiet ==
    /\ entry # None /\ link = "open" /\ subscribed
    /\ up = <<>> /\ down = <<>> /\ outbox = <<>>
    /\ ~entry.recovering

\* Whenever nothing is on its way, a subscribed client shows the records:
\* wherever a write fell between the parts of a snapshot, the subscription and
\* the notifications, and whatever was lost, held or retried before.  The code
\* keeps this for a client that follows its production once on a socket.
QuietViewIsCurrent == IsQuiet => Shows(entry)

\* A view that says it is recovering is being recovered, by a read or by a
\* timer that will start one; only such a view holds notifications back.
RecoveryIsUnderWay ==
    entry # None =>
      /\ entry.recovering <=> entry.read # None \/ entry.retrying
      /\ entry.read # None => ~entry.retrying
      /\ entry.held # <<>> \/ entry.dirty => entry.recovering

\* The records of a followed production are well formed, and a recovery that is
\* shown as running is running (realtime-client/src/index.ts).
RecoveryIsSound == RealtimeTypeOK /\ RecoveryIsUnderWay

\* A client that follows a production and is not closed shows its records for
\* good once writes and faults are over.
EveryViewConverges ==
    <>[](entry # None /\ ~closedByUser /\ status # "idle" => Shows(entry))

=============================================================================
