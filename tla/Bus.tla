--------------------------------- MODULE Bus ---------------------------------
(***************************************************************************)
(* The message bus between browser windows (packages/sdk/browser-bus):     *)
(* Bus.ts over WindowAdapter.ts and WindowProtocol.ts.  A bus sends        *)
(* requests to the buses that listen to its window and settles the promise *)
(* of a request with the first answer, a timeout or its own destruction;   *)
(* every bus answers the requests it has a handler for; events are         *)
(* delivered to the handlers that are subscribed.                          *)
(*                                                                         *)
(* One request name and one event name.  Between two windows the browser   *)
(* neither loses nor repeats a message; a window hears nothing before its  *)
(* adapter is complete (what createSimpleWindowAdapter keeps until then is *)
(* replayed to an adapter without listeners) nor after destroy().          *)
(***************************************************************************)
EXTENDS Naturals, Sequences, Functions

CONSTANTS
  Buses,
  Peers,      \* the buses that listen to what each bus sends
  Requests,
  Owner,      \* the bus of each request
  Timed,      \* requests whose timeout is not -1
  Servers,    \* buses that get a request handler
  Listeners,  \* buses that get event handlers
  Handlers,   \* event handlers
  Once,       \* those subscribed by once()
  MaxEvents,  \* bound: events dispatched
  Uses        \* bound: which requests and handlers occur together

ASSUME BusAssumption ==
  /\ Peers \in [Buses -> SUBSET Buses] /\ Owner \in [Requests -> Buses]
  /\ Servers \cup Listeners \subseteq Buses /\ "none" \notin Buses
  /\ Timed \subseteq Requests /\ Once \subseteq Handlers /\ MaxEvents \in Nat
  /\ Uses \subseteq [requests : SUBSET Requests, handlers : SUBSET Handlers]

VARIABLES
  adapter,     \* of each bus: being created, open or destroyed
  registered,  \* the buses with a request handler
  promise,     \* what request() returned
  active,      \* _activeRequestHash
  timers,      \* requests whose timer is set
  network,     \* messages between windows
  running,     \* asynchronous request handlers
  ran,         \* requests some handler has run for
  handlers,    \* _eventHandlers of each bus
  firing,      \* the event that is being delivered
  calls,       \* how often each event handler ran
  off,         \* event handlers that were unsubscribed
  events,      \* counter for the bound
  uses         \* the requests and event handlers of the behaviour

requestVars == <<promise, active, timers, running, ran>>
eventVars == <<handlers, firing, calls, off>>
bounds == <<events, uses>>
vars == <<adapter, registered, network, requestVars, eventVars, bounds>>

Idle == [bus |-> "none", rest |-> <<>>, kept |-> <<>>]
Answers == {"value", "error"}
Subscriptions == Buses \X Handlers

Messages ==
  [type : {"action"} \cup Answers, to : Buses, request : Requests]
    \cup [type : {"event"}, to : Buses, number : 1..MaxEvents]

TypeOK ==
  /\ adapter \in [Buses -> {"opening", "open", "destroyed"}]
  /\ registered \subseteq Buses
  /\ promise \in [Requests -> {"new", "pending"} \cup Answers]
  /\ active \subseteq Requests /\ timers \subseteq Timed
  /\ network \subseteq Messages
  /\ running \subseteq Buses \X Requests
  /\ ran \subseteq Requests
  /\ handlers \in [Buses -> Seq(Handlers)]
  /\ \/ firing = Idle
     \/ firing \in [bus : Buses, rest : Seq(Handlers), kept : Seq(Handlers)]
  /\ calls \in [Subscriptions -> Nat]
  /\ off \subseteq Subscriptions
  /\ events \in 0..MaxEvents
  /\ uses \in Uses

Init ==
  /\ adapter = [b \in Buses |-> "opening"]
  /\ registered = {}
  /\ promise = [q \in Requests |-> "new"]
  /\ active = {} /\ timers = {}
  /\ network = {}
  /\ running = {} /\ ran = {}
  /\ handlers = [b \in Buses |-> <<>>]
  /\ firing = Idle
  /\ calls = [s \in Subscriptions |-> 0]
  /\ off = {}
  /\ events = 0
  /\ uses \in Uses

-----------------------------------------------------------------------------
\* The code runs to completion: while an event is delivered, only its
\* handlers run.
Calm == firing = Idle

\* createSimpleWindowAdapter resolved and the bus was made on the adapter.
Open(b) ==
  /\ Calm
  /\ adapter[b] = "opening"
  /\ adapter' = [adapter EXCEPT ![b] = "open"]
  /\ UNCHANGED <<registered, network, requestVars, eventVars, bounds>>

\* A bus on a new adapter, with the handlers of another one.
ChangeAdapter(old, b) ==
  /\ Calm
  /\ adapter[old] # "opening" /\ adapter[b] = "opening"
  /\ adapter' = [adapter EXCEPT ![b] = "open"]
  /\ registered' = IF old \in registered THEN registered \cup {b} ELSE registered
  /\ handlers' = [handlers EXCEPT ![b] = handlers[old]]
  /\ UNCHANGED <<network, requestVars, firing, calls, off, bounds>>

\* A second handler for the name throws.
RegisterRequestHandler(b) ==
  /\ Calm
  /\ b \in Servers \ registered /\ adapter[b] # "opening"
  /\ registered' = registered \cup {b}
  /\ UNCHANGED <<adapter, network, requestVars, eventVars, bounds>>

UnregisterHandler(b) ==
  /\ Calm
  /\ b \in registered
  /\ registered' = registered \ {b}
  /\ UNCHANGED <<adapter, network, requestVars, eventVars, bounds>>

-----------------------------------------------------------------------------
(* Requests and answers.                                                   *)

\* adapter.send: a destroyed adapter dispatches to a window that is not there.
Send(b, messages) ==
  network' = IF adapter[b] = "open" THEN network \cup messages ELSE network

NoTimer(q) == timers   \* mutant

\* setTimeout, unless the timeout is -1.
SetTimer(q) == timers \cup ({q} \cap Timed)

Request(q) ==
  LET b == Owner[q] IN
    /\ Calm
    /\ q \in uses.requests
    /\ promise[q] = "new" /\ adapter[b] # "opening"
    /\ promise' = [promise EXCEPT ![q] = "pending"]
    /\ active' = active \cup {q}
    /\ timers' = SetTimer(q)
    /\ Send(b, [type : {"action"}, to : Peers[b], request : {q}])
    /\ UNCHANGED <<adapter, registered, running, ran, eventVars, bounds>>

\* postMessage refuses the data: the executor throws after the timer was set
\* and the entry made.
RequestThrows(q) ==
  /\ Calm
  /\ q \in uses.requests
  /\ promise[q] = "new" /\ adapter[Owner[q]] = "open"
  /\ promise' = [promise EXCEPT ![q] = "error"]
  /\ active' = active \cup {q}
  /\ timers' = SetTimer(q)
  /\ UNCHANGED <<adapter, registered, network, running, ran, eventVars, bounds>>

\* A promise is settled once; resolve and reject do nothing after that.
SettledAs(qs, outcome) ==
  [q \in Requests |-> IF q \in qs /\ promise[q] = "pending" THEN outcome ELSE promise[q]]

NotCleared(qs) == timers   \* mutant

\* cancelTimeout, in resolve and reject of the entry.
Cleared(qs) == timers \ qs

Timeout(q) ==
  /\ Calm
  /\ q \in timers
  /\ timers' = timers \ {q}
  /\ active' = active \ {q}
  /\ promise' = SettledAs({q}, "error")
  /\ UNCHANGED <<adapter, registered, network, running, ran, eventVars, bounds>>

AnswerValue(q, answer) ==     \* mutant: an error is sent as a value
  [type : {"value"}, to : {Owner[q]}, request : {q}]

Answer(q, answer) ==
  [type : {answer}, to : {Owner[q]}, request : {q}]

\* _createResponse: no handler, a handler that throws or returns something
\* that cannot be sent, one that returns a value, and one that returns a
\* promise.
CreateResponse(m) ==
  LET b == m.to  q == m.request IN
    /\ Calm
    /\ m \in network /\ m.type = "action" /\ adapter[b] = "open"
    /\ \/ /\ b \notin registered
          /\ network' = (network \ {m}) \cup Answer(q, "error")
          /\ UNCHANGED <<running, ran>>
       \/ /\ b \in registered
          /\ ran' = ran \cup {q}
          /\ \/ /\ \E answer \in Answers :
                     network' = (network \ {m}) \cup Answer(q, answer)
                /\ UNCHANGED running
             \/ /\ running' = running \cup {<<b, q>>}
                /\ network' = network \ {m}
    /\ UNCHANGED <<adapter, registered, promise, active, timers, eventVars, bounds>>

\* The promise of a handler was settled.  A value that cannot be sent throws
\* in the callback of then(), where nothing catches it: there is no answer.
HandlerSettles(b, q) ==
  /\ Calm
  /\ <<b, q>> \in running
  /\ running' = running \ {<<b, q>>}
  /\ \/ \E answer \in Answers : Send(b, Answer(q, answer))
     \/ UNCHANGED network
  /\ UNCHANGED <<adapter, registered, promise, active, timers, ran, eventVars, bounds>>

\* _fireEndAction: an answer without an active request is ignored.
FireEndAction(m) ==
  LET q == m.request IN
    /\ Calm
    /\ m \in network /\ m.type \in Answers /\ adapter[m.to] = "open"
    /\ network' = network \ {m}
    /\ IF q \in active
       THEN /\ promise' = SettledAs({q}, m.type)
            /\ active' = active \ {q}
            /\ timers' = Cleared({q})
       ELSE UNCHANGED <<promise, active, timers>>
    /\ UNCHANGED <<adapter, registered, running, ran, eventVars, bounds>>

\* The window has no listener that would pass the message on to a bus.
NobodyHears(m) ==
  /\ Calm
  /\ m \in network /\ adapter[m.to] # "open"
  /\ network' = network \ {m}
  /\ UNCHANGED <<adapter, registered, requestVars, eventVars, bounds>>

\* Event handlers may destroy their bus as well.
Destroy(b) ==
  LET own == {q \in active : Owner[q] = b} IN
    /\ adapter[b] = "open"
    /\ adapter' = [adapter EXCEPT ![b] = "destroyed"]
    /\ promise' = SettledAs(own, "error")
    /\ active' = active \ own
    /\ timers' = Cleared(own)
    /\ handlers' = [handlers EXCEPT ![b] = <<>>]
    /\ off' = off \cup {<<b, h>> : h \in Range(handlers[b])}
    /\ UNCHANGED <<registered, network, running, ran, firing, calls, bounds>>

-----------------------------------------------------------------------------
(* Events.                                                                 *)

\* A bus without handlers ignores the event.
DispatchEvent(b) ==
  LET hearers == Peers[b] \cap Listeners IN
    /\ Calm
    /\ events < MaxEvents /\ adapter[b] = "open" /\ hearers # {}
    /\ events' = events + 1
    /\ network' = network \cup [type : {"event"}, to : hearers, number : {events'}]
    /\ UNCHANGED <<adapter, registered, requestVars, eventVars, uses>>

Subscribed(b, h) ==
  h \in Range(handlers[b]) \/ calls[<<b, h>>] > 0 \/ <<b, h>> \in off

\* on() and once(), each handler once in the life of a bus.
On(b, h) ==
  /\ h \in uses.handlers
  /\ b \in Listeners /\ adapter[b] = "open" /\ ~Subscribed(b, h)
  /\ handlers' = [handlers EXCEPT ![b] = Append(@, h)]
  /\ UNCHANGED <<adapter, registered, network, requestVars, firing, calls, off, bounds>>

\* The list without a handler, which is on it once.
Without(list, h) ==
  LET at == CHOOSE i \in DOMAIN list : list[i] = h
  IN  [i \in 1..(Len(list) - 1) |-> list[IF i < at THEN i ELSE i + 1]]

Off(b, h) ==
  /\ h \in Range(handlers[b])
  /\ handlers' = [handlers EXCEPT ![b] = Without(@, h)]
  /\ off' = off \cup {<<b, h>>}
  /\ UNCHANGED <<adapter, registered, network, requestVars, firing, calls, bounds>>

KeepAll(h, kept) == Append(kept, h)   \* mutant

\* The delivery goes through a copy of the handler list and keeps the
\* handlers that were not subscribed by once().
Keep(h, kept) == IF h \in Once THEN kept ELSE Append(kept, h)

Call(b, list, kept) ==
  LET h == Head(list) IN
    /\ calls' = [calls EXCEPT ![<<b, h>>] = @ + 1]
    /\ firing' = [bus |-> b, rest |-> Tail(list), kept |-> Keep(h, kept)]

FireEvent(m) ==
  LET b == m.to IN
    /\ Calm
    /\ m \in network /\ m.type = "event" /\ adapter[b] = "open"
    /\ network' = network \ {m}
    /\ IF handlers[b] = <<>> THEN UNCHANGED <<calls, firing>>
                             ELSE Call(b, handlers[b], <<>>)
    /\ UNCHANGED <<adapter, registered, requestVars, handlers, off, bounds>>

FireNext ==
  /\ firing.rest # <<>>
  /\ Call(firing.bus, firing.rest, firing.kept)
  /\ UNCHANGED <<adapter, registered, network, requestVars, handlers, off, bounds>>

\* The handlers that were kept replace the list.
FireEnds ==
  /\ ~Calm /\ firing.rest = <<>>
  /\ handlers' = [handlers EXCEPT ![firing.bus] = firing.kept]
  /\ firing' = Idle
  /\ UNCHANGED <<adapter, registered, network, requestVars, calls, off, bounds>>

-----------------------------------------------------------------------------
Next ==
  \/ \E b \in Buses :
       \/ Open(b) \/ RegisterRequestHandler(b) \/ UnregisterHandler(b) \/ Destroy(b)
       \/ DispatchEvent(b)
       \/ \E old \in Buses : ChangeAdapter(old, b)
       \/ \E h \in Handlers : On(b, h) \/ Off(b, h)
       \/ \E q \in Requests : HandlerSettles(b, q)
  \/ \E q \in Requests : Request(q) \/ RequestThrows(q) \/ Timeout(q)
  \/ \E m \in network :
       CreateResponse(m) \/ FireEndAction(m) \/ NobodyHears(m) \/ FireEvent(m)
  \/ FireNext \/ FireEnds

\* A timer that was not cleared fires, and a delivery goes on to its end.
Fairness ==
  /\ \A q \in Timed : WF_vars(Timeout(q))
  /\ WF_vars(FireNext) /\ WF_vars(FireEnds)

Spec == Init /\ [][Next]_vars /\ Fairness

-----------------------------------------------------------------------------
\* A request that is not settled can still be: its entry is there for the
\* answer, and its timer, unless it has none, is set.
NoStrandedRequest ==
  \A q \in Requests :
    promise[q] = "pending" => q \in active /\ (q \in Timed => q \in timers)

\* destroy(): "clear their timers to prevent dangling closures, memory leaks,
\* and stale timeout callbacks".  Nothing is left of a settled request, on a
\* destroyed bus or not, unless its send threw.
NoDanglingTimer ==
  \A q \in timers \cup active :
    \/ promise[q] = "pending"
    \/ promise[q] = "error" /\ q \notin ran /\ adapter[Owner[q]] = "open"

(* Promises, entries and timers agree: no timeout, answer, destruction or  *)
(* failed send removes one without settling the other, and nothing stays   *)
(* behind that would settle a request again.                               *)
EntriesMatchPromises == NoStrandedRequest /\ NoDanglingTimer

(* A subscription by once() is called once, whatever its handler and the   *)
(* others do to the list while an event is delivered.                      *)
OnceFiresOnce ==
  \A b \in Buses, h \in Once : calls[<<b, h>>] <= 1

(* A request with a timeout is settled in the end, whatever becomes of the *)
(* other windows.                                                          *)
EventuallySettled ==
  \A q \in Timed : promise[q] = "pending" ~> promise[q] \in Answers

(* request() keeps what Reply promises: late, second and foreign answers   *)
(* change nothing, and a value comes from a handler that ran for it.       *)
Promise == INSTANCE Reply WITH
  Calls <- Requests,
  call <- [q \in Requests |-> CASE promise[q] = "value" -> "result"
                                [] promise[q] = "error" -> "refusal"
                                [] OTHER -> "unsettled"],
  granted <- ran

KeepsPromise == Promise!Spec
=============================================================================
