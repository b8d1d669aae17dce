----------------------------- MODULE IpcChannels -----------------------------
(***************************************************************************)
(* ChannelClient and ChannelServer of base/parts/ipc/common/ipc.ts: calls  *)
(* that return promises and can be cancelled, and events that are          *)
(* subscribed to while somebody listens, over one connection and for one   *)
(* channel name.                                                           *)
(*                                                                         *)
(* The connection keeps order and loses nothing (ReliableChannel).  What a *)
(* message carries besides its header is the name of the call or the       *)
(* number of the event, so an answer that reaches the wrong caller shows.  *)
(* A callback is one action; a promise's then-callback is an action of its *)
(* own, because other callbacks may run before it.                         *)
(***************************************************************************)
EXTENDS Integers, FiniteSets, SequencesExt

CONSTANTS
    MaxCalls,   \* bound: how many calls are made
    Events,     \* events that will be listened to
    None,
    MaxListens, \* bound: how often an event gets its first listener
    MaxFires,   \* bound: how often the server fires an event
    MaxUses     \* bound: calls and first listeners together, if there are several calls

Calls == 1..MaxCalls    \* in the order in which they are made
Requests == Calls \cup Events

ASSUME IpcBounds ==
    /\ MaxCalls \in Nat
    /\ IsFiniteSet(Events) /\ Calls \cap Events = {}
    /\ None \notin Requests
    /\ MaxListens \in Nat /\ MaxFires \in Nat /\ MaxUses \in Nat

Ids == 0..(Cardinality(Requests) - 1)

\* What is sent to the server and to the client, and what waits there for its
\* channel.
RequestMessages ==
    [type : {"Promise", "PromiseCancel", "EventListen", "EventDispose"}, id : Ids, name : Requests]
ResponseMessages ==
    [type : {"Initialize", "PromiseSuccess", "PromiseError", "EventFire"}, id : Nat, data : Nat \cup {None}]
PendingRequests == [request : RequestMessages, timer : BOOLEAN]

VARIABLES
    state,          \* ChannelClient.state
    isDisposed,     \* ChannelClient.isDisposed
    lastRequestId,  \* ChannelClient.lastRequestId
    id,             \* the id of each request, -1 before it has one
    handlers,       \* ChannelClient.handlers: the request that handles an id
    active,         \* ChannelClient.activeRequests
    uninitialized,  \* requests whose uninitializedPromise is not null
    due,            \* requests whose then-callback, doRequest, is queued
    outcome,        \* what became of each call's promise
    answer,         \* the call that the answer to each call belongs to
    listening,      \* events whose emitter has a listener
    listens,        \* how often each event has got its first listener
    toServer,       \* messages in flight
    toClient,
    registered,     \* the channel is in ChannelServer.channels
    flushDue,       \* the timeout of registerChannel has still to run
    pending,        \* ChannelServer.pendingRequests of the channel
    serverActive,   \* ChannelServer.activeRequests, by id
    running,        \* requests whose channel.call has not settled yet
    cancelled,      \* calls whose CancellationTokenSource was cancelled
    subs,           \* how many listeners the server has on each event
    serverDisposed, \* ChannelServer.dispose was called
    fires,          \* history: how often each event was fired
    heard,          \* history: what the client's listeners were told
    sentLate,       \* history: requests sent although nobody waits any more
    missed          \* history: requests whose cancellation or dispose came while they were pending

client  == <<state, isDisposed, lastRequestId, id, handlers, active, uninitialized, due,
             outcome, answer, listening, listens>>
server  == <<registered, flushDue, pending, serverActive, running, cancelled, subs, serverDisposed>>
history == <<fires, heard, sentLate, missed>>
vars    == <<client, toServer, toClient, server, history>>

\* The ChannelServer has sent Initialize in its constructor.
Init ==
    /\ state = "Uninitialized"
    /\ isDisposed = FALSE
    /\ lastRequestId = 0
    /\ id = [r \in Requests |-> -1]
    /\ handlers = [i \in Ids |-> None]
    /\ active = {} /\ uninitialized = {} /\ due = {}
    /\ outcome = [c \in Calls |-> "none"]
    /\ answer = [c \in Calls |-> None]
    /\ listening = {}
    /\ listens = [e \in Events |-> 0]
    /\ toServer = <<>>
    /\ toClient = <<[type |-> "Initialize", id |-> 0, data |-> None]>>
    /\ registered \in BOOLEAN
    /\ flushDue = FALSE
    /\ pending = <<>>
    /\ serverActive = [i \in Ids |-> None]
    /\ running = {} /\ cancelled = {}
    /\ subs = [e \in Events |-> 0]
    /\ serverDisposed = FALSE
    /\ fires = [e \in Events |-> 0]
    /\ heard = [e \in Events |-> <<>>]
    /\ sentLate = {} /\ missed = {}

-----------------------------------------------------------------------------
(* ChannelClient *)

\* sendRequest.  Whoever disposes the client ends the protocol with it.
Request(type, i, r) == [type |-> type, id |-> i, name |-> r]

SendRequest(request) == toServer' = IF isDisposed THEN toServer ELSE Append(toServer, request)

\* Mutant: only subscriptions use up an id.
NextIdOfEvents(r) == IF r \in Events THEN lastRequestId + 1 ELSE lastRequestId

NextId(r) == lastRequestId + 1

\* How much the client uses the channel, within bounds: one call next to
\* MaxListens listeners, or more calls and fewer listeners.
Made == {c \in Calls : outcome[c] # "none"}
Uses == Cardinality(Made) + Cardinality({x \in Events \X (1..MaxListens) : x[2] <= listens[x[1]]})
MayCall(c) == c = Cardinality(Made) + 1 /\ (Made = {} \/ Uses < MaxUses)
MayListen == Cardinality(Made) <= 1 \/ Uses < MaxUses

\* call of getChannel's result, requestPromise.
Call(c) ==
    /\ outcome[c] = "none" /\ MayCall(c) /\ ~isDisposed
    /\ id' = [id EXCEPT ![c] = lastRequestId]
    /\ lastRequestId' = NextId(c)
    /\ outcome' = [outcome EXCEPT ![c] = "pending"]
    /\ active' = active \cup {c}
    /\ IF state = "Idle"
       THEN /\ handlers' = [handlers EXCEPT ![lastRequestId] = c]
            /\ SendRequest(Request("Promise", lastRequestId, c))
            /\ UNCHANGED uninitialized
       ELSE /\ uninitialized' = uninitialized \cup {c}
            /\ UNCHANGED <<handlers, toServer>>
    /\ UNCHANGED <<state, isDisposed, due, answer, listening, listens, toClient, server, history>>

\* The client is disposed, or the token is cancelled already.
CallRejected(c) ==
    /\ outcome[c] = "none" /\ MayCall(c)
    /\ outcome' = [outcome EXCEPT ![c] = "cancelled"]
    /\ lastRequestId' = IF isDisposed THEN lastRequestId ELSE NextId(c)
    /\ UNCHANGED <<state, isDisposed, id, handlers, active, uninitialized, due, answer,
                   listening, listens, toServer, toClient, server, history>>

\* Mutant: a call that was sent is given up without telling the server.
CancelSilently(c) ==
    /\ outcome[c] = "pending"
    /\ outcome' = [outcome EXCEPT ![c] = "cancelled"]
    /\ active' = active \ {c}
    /\ uninitialized' = uninitialized \ {c}
    /\ UNCHANGED <<state, isDisposed, lastRequestId, id, handlers, due, answer, listening, listens,
                   toServer, toClient, server, history>>

\* The caller's token is cancelled: cancel of requestPromise.
Cancel(c) ==
    /\ outcome[c] = "pending"
    /\ outcome' = [outcome EXCEPT ![c] = "cancelled"]
    /\ active' = active \ {c}
    /\ uninitialized' = uninitialized \ {c}
    /\ IF c \in uninitialized
       THEN UNCHANGED toServer
       ELSE SendRequest(Request("PromiseCancel", id[c], c))
    /\ UNCHANGED <<state, isDisposed, lastRequestId, id, handlers, due, answer, listening, listens,
                   toClient, server, history>>

\* The first listener of the event that listen has returned: requestEvent,
\* onWillAddFirstListener.
AddFirstListener(e) ==
    /\ e \notin listening /\ listens[e] < MaxListens /\ MayListen /\ ~isDisposed
    /\ LET i == IF id[e] = -1 THEN lastRequestId ELSE id[e]
       IN  /\ id' = [id EXCEPT ![e] = i]
           /\ handlers' = [handlers EXCEPT ![i] = e]
           /\ lastRequestId' = IF id[e] = -1 THEN NextId(e) ELSE lastRequestId
           /\ IF state = "Idle"
              THEN /\ active' = active \cup {e}
                   /\ SendRequest(Request("EventListen", i, e))
                   /\ UNCHANGED uninitialized
              ELSE /\ uninitialized' = uninitialized \cup {e}
                   /\ UNCHANGED <<active, toServer>>
    /\ listening' = listening \cup {e}
    /\ listens' = [listens EXCEPT ![e] = @ + 1]
    /\ UNCHANGED <<state, isDisposed, due, outcome, answer, toClient, server, history>>

\* Mutant: the server is not told that nobody listens any more.
RemoveLastListenerSilently(e) ==
    /\ e \in listening
    /\ listening' = listening \ {e}
    /\ uninitialized' = uninitialized \ {e}
    /\ active' = active \ {e}
    /\ UNCHANGED <<state, isDisposed, lastRequestId, id, handlers, due, outcome, answer, listens,
                   toServer, toClient, server, history>>

\* onDidRemoveLastListener.
RemoveLastListener(e) ==
    /\ e \in listening
    /\ listening' = listening \ {e}
    /\ uninitialized' = uninitialized \ {e}
    /\ IF e \in uninitialized
       THEN UNCHANGED <<active, toServer>>
       ELSE /\ active' = active \ {e}
            /\ SendRequest(Request("EventDispose", id[e], e))
    /\ UNCHANGED <<state, isDisposed, lastRequestId, id, handlers, due, outcome, answer, listens,
                   toClient, server, history>>

\* Once the client is initialized, the promise of a waiting request is
\* resolved in a microtask, and in a later one doRequest runs, cancelled
\* meanwhile or not.
Initialized(r) ==
    /\ state = "Idle"
    /\ r \in uninitialized \ due
    /\ due' = due \cup {r}
    /\ UNCHANGED <<state, isDisposed, lastRequestId, id, handlers, active, uninitialized,
                   outcome, answer, listening, listens, toServer, toClient, server, history>>

DoRequest(r) ==
    /\ r \in due
    /\ due' = due \ {r}
    /\ uninitialized' = uninitialized \ {r}
    /\ handlers' = [handlers EXCEPT ![id[r]] = r]
    /\ active' = active \cup (Events \cap {r})
    /\ SendRequest(Request(IF r \in Calls THEN "Promise" ELSE "EventListen", id[r], r))
    /\ sentLate' = IF r \in uninitialized THEN sentLate ELSE sentLate \cup {r}
    /\ UNCHANGED <<state, isDisposed, lastRequestId, id, outcome, answer, listening, listens,
                   toClient, server, fires, heard, missed>>

\* Mutant: the handler of an answered call is kept.
SettleKeepHandler(c, m) ==
    /\ handlers' = handlers
    /\ IF outcome[c] = "pending"
       THEN /\ outcome' = [outcome EXCEPT ![c] = IF m.type = "PromiseSuccess" THEN "ok" ELSE "error"]
            /\ answer' = [answer EXCEPT ![c] = m.data]
            /\ active' = active \ {c}
       ELSE UNCHANGED <<outcome, answer, active>>

\* The handler of requestPromise: the promise settles unless it has already.
Settle(c, m) ==
    /\ handlers' = [handlers EXCEPT ![m.id] = None]
    /\ IF outcome[c] = "pending"
       THEN /\ outcome' = [outcome EXCEPT ![c] = IF m.type = "PromiseSuccess" THEN "ok" ELSE "error"]
            /\ answer' = [answer EXCEPT ![c] = m.data]
            /\ active' = active \ {c}
       ELSE UNCHANGED <<outcome, answer, active>>

\* onResponse of an Initialize message.
ReceiveInitialize ==
    /\ toClient # <<>> /\ ~isDisposed
    /\ Head(toClient).type = "Initialize"
    /\ state' = "Idle"
    /\ toClient' = Tail(toClient)
    /\ UNCHANGED <<isDisposed, lastRequestId, id, handlers, active, uninitialized, due, outcome, answer,
                   listening, listens, toServer, server, history>>

\* onResponse: the handler that the message's id finds, if there is one.
ReceiveResponse ==
    /\ toClient # <<>> /\ ~isDisposed
    /\ Head(toClient).type # "Initialize"
    /\ LET m == Head(toClient)
           r == handlers[m.id]
       IN  /\ IF r \in Calls /\ m.type # "EventFire"
              THEN Settle(r, m)
              ELSE UNCHANGED <<handlers, outcome, answer, active>>
           /\ heard' = IF r \in listening THEN [heard EXCEPT ![r] = Append(@, m.data)] ELSE heard
    /\ toClient' = Tail(toClient)
    /\ UNCHANGED <<state, isDisposed, lastRequestId, id, uninitialized, due, listening, listens,
                   toServer, server, fires, sentLate, missed>>

\* Mutant: promises of calls that still wait for the server stay as they are.
DisposeClientQuietly ==
    /\ ~isDisposed
    /\ isDisposed' = TRUE
    /\ active' = {}
    /\ listening' = listening \ active
    /\ toClient' = <<>>
    /\ UNCHANGED <<state, lastRequestId, id, handlers, uninitialized, due, outcome, answer, listens,
                   toServer, server, history>>

\* dispose: every active request is disposed, which cancels the calls and
\* removes the listeners, and the protocol ends.
DisposeClient ==
    /\ ~isDisposed
    /\ isDisposed' = TRUE
    /\ active' = {}
    /\ outcome' = [c \in Calls |-> IF c \in active THEN "cancelled" ELSE outcome[c]]
    /\ listening' = listening \ active
    /\ uninitialized' = uninitialized \ active
    /\ LET farewell(r) == Request(IF r \in Calls THEN "PromiseCancel" ELSE "EventDispose", id[r], r)
       IN  \E s \in SetToSeqs({farewell(r) : r \in active \ uninitialized}) : toServer' = toServer \o s
    /\ toClient' = <<>>
    /\ UNCHANGED <<state, lastRequestId, id, handlers, due, answer, listens, server, history>>

-----------------------------------------------------------------------------
(* ChannelServer *)

\* sendResponse.
Response(type, i, data) == [type |-> type, id |-> i, data |-> data]

SendResponses(responses) == toClient' = IF isDisposed THEN toClient ELSE toClient \o responses

\* onPromise and onEventListen for a registered channel, for each request of
\* a sequence: the channel is called, or listened to, and the id is active.
Start(requests) ==
    LET of(i) == {k \in DOMAIN requests : requests[k].id = i}
        last(i) == CHOOSE k \in of(i) : \A j \in of(i) : j <= k
        calls == {requests[k] : k \in {j \in DOMAIN requests : requests[j].type = "Promise"}}
    IN  /\ running' = running \cup calls
        /\ subs' = [e \in Events |-> subs[e] + Cardinality({k \in DOMAIN requests :
                        requests[k].type = "EventListen" /\ requests[k].name = e})]
        /\ serverActive' = [i \in Ids |-> IF of(i) = {} THEN serverActive[i] ELSE requests[last(i)].name]

\* A request; collectPendingRequest if the channel is not known.
ReceiveRequest ==
    /\ toServer # <<>> /\ ~serverDisposed
    /\ Head(toServer).type \in {"Promise", "EventListen"}
    /\ toServer' = Tail(toServer)
    /\ IF registered
       THEN Start(<<Head(toServer)>>) /\ UNCHANGED pending
       ELSE /\ pending' = Append(pending, [request |-> Head(toServer), timer |-> TRUE])
            /\ UNCHANGED <<running, subs, serverActive>>
    /\ UNCHANGED <<client, toClient, registered, flushDue, cancelled, serverDisposed,
                   fires, heard, sentLate, missed>>

\* Mutant: the listener on the service's event is kept.
ReceiveDisposeKeepSub ==
    /\ toServer # <<>> /\ ~serverDisposed
    /\ Head(toServer).type \in {"PromiseCancel", "EventDispose"}
    /\ toServer' = Tail(toServer)
    /\ serverActive' = [serverActive EXCEPT ![Head(toServer).id] = None]
    /\ cancelled' = cancelled \cup (Calls \cap {serverActive[Head(toServer).id]})
    /\ UNCHANGED <<client, toClient, registered, flushDue, pending, running, subs, serverDisposed, history>>

\* disposeActiveRequest: cancels the call, or ends the subscription, that is
\* active with this id.
ReceiveDispose ==
    /\ toServer # <<>> /\ ~serverDisposed
    /\ Head(toServer).type \in {"PromiseCancel", "EventDispose"}
    /\ toServer' = Tail(toServer)
    /\ LET i == Head(toServer).id
           r == serverActive[i]
       IN  /\ serverActive' = [serverActive EXCEPT ![i] = None]
           /\ cancelled' = cancelled \cup (Calls \cap {r})
           /\ subs' = [e \in Events |-> IF e = r THEN subs[e] - 1 ELSE subs[e]]
    /\ missed' = missed \cup {x \in Requests : \E k \in DOMAIN pending :
                                pending[k].request.name = x /\ x = Head(toServer).name}
    /\ UNCHANGED <<client, toClient, registered, flushDue, pending, running, serverDisposed,
                   fires, heard, sentLate>>

\* The promise of channel.call settles, cancelled or not: the answer, and the
\* finally-callback, which also cancels the token that nobody needs any more.
Finish(x, type) ==
    /\ running' = running \ {x}
    /\ SendResponses(<<Response(type, x.id, x.name)>>)
    /\ serverActive' = [serverActive EXCEPT ![x.id] = None]
    /\ cancelled' = cancelled \cup {x.name}
    /\ UNCHANGED <<client, toServer, registered, flushDue, pending, subs, serverDisposed, history>>

\* An event of the service fires: every subscription passes it on.
Fire(e) ==
    /\ subs[e] > 0 /\ fires[e] < MaxFires
    /\ fires' = [fires EXCEPT ![e] = @ + 1]
    /\ SendResponses([k \in 1..subs[e] |-> Response("EventFire", id[e], fires[e] + 1)])
    /\ UNCHANGED <<client, toServer, server, heard, sentLate, missed>>

\* registerChannel.
RegisterChannel ==
    /\ ~registered /\ ~serverDisposed
    /\ registered' = TRUE
    /\ flushDue' = TRUE
    /\ UNCHANGED <<client, toServer, toClient, pending, serverActive, running, cancelled, subs,
                   serverDisposed, history>>

\* flushPendingRequests: all that were collected, in order, whether their
\* timer has run or not.
FlushPendingRequests ==
    /\ flushDue
    /\ flushDue' = FALSE
    /\ pending' = <<>>
    /\ Start([k \in DOMAIN pending |-> pending[k].request])
    /\ UNCHANGED <<client, toServer, toClient, registered, cancelled, serverDisposed,
                   fires, heard, sentLate, missed>>

\* Pending request p after its timeout.
TimedOut(p) == [p EXCEPT !.timer = FALSE]

\* Mutant: a call to an unknown channel is only logged.
PendingTimeoutSilent(k) ==
    /\ pending[k].timer
    /\ pending' = [pending EXCEPT ![k] = TimedOut(@)]
    /\ UNCHANGED <<client, toServer, toClient, registered, flushDue, serverActive, running, cancelled, subs,
                   serverDisposed, fires, heard, sentLate, missed>>

\* The timer of collectPendingRequest.
PendingTimeout(k) ==
    /\ pending[k].timer
    /\ pending' = [pending EXCEPT ![k] = TimedOut(@)]
    /\ IF pending[k].request.type = "Promise"
       THEN SendResponses(<<Response("PromiseError", pending[k].request.id, pending[k].request.name)>>)
       ELSE UNCHANGED toClient
    /\ UNCHANGED <<client, toServer, registered, flushDue, serverActive, running, cancelled, subs,
                   serverDisposed, fires, heard, sentLate, missed>>

\* dispose, when the connection has ended.
DisposeServer ==
    /\ ~serverDisposed
    /\ serverDisposed' = TRUE
    /\ cancelled' = cancelled \cup {c \in Calls : \E i \in Ids : serverActive[i] = c}
    /\ subs' = [e \in Events |-> subs[e] - Cardinality({i \in Ids : serverActive[i] = e})]
    /\ serverActive' = [i \in Ids |-> None]
    /\ UNCHANGED <<client, toServer, toClient, registered, flushDue, pending, running, history>>

-----------------------------------------------------------------------------

Next ==
    \/ \E c \in Calls : Call(c) \/ CallRejected(c) \/ Cancel(c)
    \/ \E e \in Events : AddFirstListener(e) \/ RemoveLastListener(e) \/ Fire(e)
    \/ \E r \in Requests : Initialized(r) \/ DoRequest(r)
    \/ ReceiveInitialize \/ ReceiveResponse \/ DisposeClient
    \/ ReceiveRequest \/ ReceiveDispose
    \/ \E x \in running, type \in {"PromiseSuccess", "PromiseError"} : Finish(x, type)
    \/ RegisterChannel \/ FlushPendingRequests
    \/ \E k \in DOMAIN pending : PendingTimeout(k)
    \/ DisposeServer

\* Messages are read, queued callbacks and timers run, and the services
\* answer every call in the end.
Fairness ==
    /\ WF_vars(ReceiveInitialize) /\ WF_vars(ReceiveResponse)
    /\ WF_vars(ReceiveRequest) /\ WF_vars(ReceiveDispose)
    /\ \A r \in Requests : WF_vars(Initialized(r)) /\ WF_vars(DoRequest(r))
    /\ WF_vars(FlushPendingRequests)
    /\ WF_vars(\E k \in DOMAIN pending : PendingTimeout(k))
    /\ \A c \in Calls : WF_vars(\E x \in running, type \in {"PromiseSuccess", "PromiseError"} :
                                    x.name = c /\ Finish(x, type))

Spec == Init /\ [][Next]_vars /\ Fairness

-----------------------------------------------------------------------------
(* Properties *)

TypeOK ==
    /\ state \in {"Uninitialized", "Idle"}
    /\ isDisposed \in BOOLEAN /\ serverDisposed \in BOOLEAN
    /\ lastRequestId \in 0..Cardinality(Requests)
    /\ id \in [Requests -> Ids \cup {-1}]
    /\ handlers \in [Ids -> Requests \cup {None}]
    /\ active \subseteq Requests /\ uninitialized \subseteq Requests /\ due \subseteq Requests
    /\ outcome \in [Calls -> {"none", "pending", "ok", "error", "cancelled"}]
    /\ answer \in [Calls -> Calls \cup {None}]
    /\ listening \subseteq Events
    /\ listens \in [Events -> 0..MaxListens]
    /\ registered \in BOOLEAN /\ flushDue \in BOOLEAN
    /\ serverActive \in [Ids -> Requests \cup {None}]
    /\ toServer \in Seq(RequestMessages) /\ toClient \in Seq(ResponseMessages)
    /\ pending \in Seq(PendingRequests) /\ running \subseteq RequestMessages
    /\ cancelled \subseteq Calls
    /\ subs \in [Events -> Nat]
    /\ fires \in [Events -> 0..MaxFires] /\ heard \in [Events -> Seq(Nat)]
    /\ sentLate \subseteq Requests /\ missed \subseteq Requests

\* Nothing is on its way and no callback of either side is queued.
Quiet ==
    /\ toServer = <<>> /\ toClient = <<>>
    /\ uninitialized = {} /\ due = {}
    /\ pending = <<>> /\ ~flushDue
    /\ ~isDisposed /\ ~serverDisposed

\* A promise that an answer settles was settled by the answer to its own
\* call, although calls and events of both kinds share one space of ids.
OwnAnswer == \A c \in Calls : outcome[c] \in {"ok", "error"} => answer[c] = c

\* When the caller has given up and the messages have arrived, the service's
\* token is cancelled if the call still runs.  (Except when the caller gives
\* up between the two microtasks that start a call made before Initialize, or
\* when the cancellation finds the call still waiting for its channel.)
CancelReaches ==
    Quiet => \A x \in running :
        outcome[x.name] = "cancelled" /\ x.name \notin sentLate \cup missed => x.name \in cancelled

\* When the messages have arrived, the server listens to an event exactly
\* once while somebody at the client does, and not at all otherwise, however
\* often listeners have come and gone.  (With the same exceptions.)
SubscriptionsMatch ==
    Quiet => \A e \in Events \ (sentLate \cup missed) : subs[e] = IF e \in listening THEN 1 ELSE 0

\* Listeners hear an event once, in the order in which events were fired.
HeardOnce ==
    \A e \in Events \ (sentLate \cup missed) : \A i, j \in DOMAIN heard[e] : i < j => heard[e][i] < heard[e][j]

\* Finished calls leave nothing behind: no handler, no active request.
NothingLeaks ==
    Quiet /\ running = {} =>
        /\ \A i \in Ids : handlers[i] \notin Calls /\ serverActive[i] \notin Calls
        /\ active \cap Calls = {}

\* Every promise settles: answered, timed out, cancelled, or by dispose;
\* unless the server's end of the connection is gone.
EveryCallSettles ==
    \A c \in Calls : outcome[c] = "pending" ~> (outcome[c] # "pending" \/ serverDisposed)

\* dispose leaves no promise pending.
DisposeSettlesAll == isDisposed => \A c \in Calls : outcome[c] # "pending"

=============================================================================
