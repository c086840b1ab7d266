------------------------------- MODULE BusProofs -------------------------------
(***************************************************************************)
(* Proofs about Bus, for any windows, requests and handlers: every entry   *)
(* of a bus belongs to a promise that can still be settled, once() means   *)
(* once, and the bus implements Reply.                                     *)
(*                                                                         *)
(* That entries match promises is not inductive.  An answer can only be on *)
(* its way, a handler can only run, for a request that was sent; so the    *)
(* entry that a send which threw leaves behind is never met by an answer,  *)
(* and nothing but its timer or destroy() removes it.                      *)
(*                                                                         *)
(* Nor is it that once() means once: what counts is the copy that a        *)
(* delivery goes through, and that the list which replaces it keeps none   *)
(* of those handlers.                                                      *)
(***************************************************************************)
EXTENDS Bus, TLAPS

\* What the invariant needs of the types; those of the events are left to
\* TypeOK.
RequestTypes ==
  /\ adapter \in [Buses -> {"opening", "open", "destroyed"}]
  /\ promise \in [Requests -> {"new", "pending"} \cup Answers]
  /\ active \subseteq Requests /\ timers \subseteq Timed
  /\ network \subseteq Messages
  /\ running \subseteq Buses \X Requests
  /\ ran \subseteq Requests

\* Nothing was sent for the request.
Unsent(q) ==
  /\ q \notin ran
  /\ \A m \in network : m.type # "event" => m.request # q
  /\ \A b \in Buses : <<b, q>> \notin running

Entries ==
  /\ timers \subseteq active
  /\ \A q \in Requests : promise[q] = "new" => q \notin active /\ Unsent(q)
  /\ \A q \in active :
       \/ promise[q] = "pending"
       \/ promise[q] = "error" /\ Unsent(q) /\ adapter[Owner[q]] = "open"
  /\ NoStrandedRequest

\* Values come from handlers.
Served ==
  /\ \A m \in network : m.type = "value" => m.request \in ran
  /\ \A b \in Buses, q \in Requests : <<b, q>> \in running => q \in ran

IInv == RequestTypes /\ Entries /\ Served

EventCount == events \in 0..MaxEvents

(* A message is of one of two kinds. *)
LEMMA MessageKinds ==
  ASSUME NEW m \in Messages
  PROVE  \/ /\ m.type \in {"action", "value", "error"}
            /\ m.to \in Buses /\ m.request \in Requests
         \/ m.type = "event" /\ m.to \in Buses
  BY DEF Messages, Answers

(* What a send adds to the network. *)
LEMMA SendFacts ==
  ASSUME NEW b \in Buses, NEW messages, Send(b, messages)
  PROVE  network' \subseteq network \cup messages
  BY DEF Send

LEMMA AnswerFacts ==
  ASSUME NEW q \in Requests, NEW answer \in Answers, BusAssumption
  PROVE  /\ Answer(q, answer) \subseteq Messages
         /\ \A m \in Answer(q, answer) : m.type = answer /\ m.request = q
  BY DEF Answer, Messages, Answers, BusAssumption

LEMMA InitInv == Init => IInv
  BY DEF Init, IInv, RequestTypes, Entries, Served, Unsent, NoStrandedRequest

(* Steps that leave the requests alone, whatever they do to events and     *)
(* handlers.                                                               *)
LEMMA OtherStep ==
  ASSUME IInv, UNCHANGED requestVars, adapter' \in [Buses -> {"opening", "open", "destroyed"}],
         \A b \in Buses : adapter[b] = "open" => adapter'[b] = "open",
         network' \subseteq Messages,
         \A m \in network' : m \in network \/ m.type = "event"
  PROVE  IInv'
<1> USE BusAssumption DEF IInv
<1>1. RequestTypes'
  BY DEF RequestTypes, requestVars
<1>2. \A q \in Requests : Unsent(q) => Unsent(q)'
  BY DEF Unsent, requestVars
<1>3. NoStrandedRequest'
  BY DEF NoStrandedRequest, Entries, requestVars
<1>4. Entries'
  BY <1>2, <1>3 DEF Entries, requestVars, RequestTypes, BusAssumption
<1>5. Served'
  BY DEF Served, requestVars, RequestTypes
<1> QED
  BY <1>1, <1>4, <1>5

-----------------------------------------------------------------------------
(* One lemma per step of a request.                                        *)

LEMMA RequestStep ==
  ASSUME IInv, NEW q \in Requests, Request(q)
  PROVE  IInv'
<1> USE BusAssumption DEF IInv
<1> DEFINE sent == [type : {"action"}, to : Peers[Owner[q]], request : {q}]
<1>1. sent \subseteq Messages /\ \A m \in sent : m.type = "action" /\ m.request = q
  BY DEF Messages, BusAssumption
<1>2. network' \subseteq network \cup sent
  BY DEF Request, Send
<1>3. /\ promise' = [promise EXCEPT ![q] = "pending"] /\ promise[q] = "new"
      /\ active' = active \cup {q} /\ timers' = timers \cup ({q} \cap Timed)
      /\ running' = running /\ ran' = ran /\ adapter' = adapter
  BY DEF Request, SetTimer
<1> HIDE DEF sent
<1>4. RequestTypes'
  BY <1>1, <1>2, <1>3 DEF RequestTypes, Answers, BusAssumption
<1>5. \A p \in Requests : p # q /\ Unsent(p) => Unsent(p)'
  BY <1>1, <1>2, <1>3 DEF Unsent
<1>6. NoStrandedRequest'
  BY <1>3 DEF NoStrandedRequest, Entries, RequestTypes
<1>7. Entries'
  BY <1>3, <1>5, <1>6 DEF Entries, RequestTypes
<1>8. Served'
  BY <1>1, <1>2, <1>3 DEF Served
<1> QED
  BY <1>4, <1>7, <1>8

LEMMA RequestThrowsStep ==
  ASSUME IInv, NEW q \in Requests, RequestThrows(q)
  PROVE  IInv'
<1> USE BusAssumption DEF IInv
<1>1. /\ promise' = [promise EXCEPT ![q] = "error"] /\ promise[q] = "new"
      /\ active' = active \cup {q} /\ timers' = timers \cup ({q} \cap Timed)
      /\ running' = running /\ ran' = ran /\ adapter' = adapter
      /\ network' = network /\ adapter[Owner[q]] = "open"
  BY DEF RequestThrows, SetTimer
<1>2. RequestTypes'
  BY <1>1 DEF RequestTypes, Answers, BusAssumption
<1>3. \A p \in Requests : Unsent(p) => Unsent(p)'
  BY <1>1 DEF Unsent
<1>4. NoStrandedRequest'
  BY <1>1 DEF NoStrandedRequest, Entries, RequestTypes
<1>5. Entries'
  BY <1>1, <1>3, <1>4 DEF Entries, RequestTypes
<1>6. Served'
  BY <1>1 DEF Served
<1> QED
  BY <1>2, <1>5, <1>6

(* A timeout, an answer or destroy() settles some requests and removes     *)
(* their entries and timers; destroy() closes the adapter as well, but all *)
(* entries of its bus are among them.                                      *)
LEMMA SettleStep ==
  ASSUME IInv, NEW qs \in SUBSET Requests, NEW outcome \in Answers,
         promise' = SettledAs(qs, outcome), active' = active \ qs, timers' = timers \ qs,
         adapter' \in [Buses -> {"opening", "open", "destroyed"}],
         \A q \in active : q \in qs \/ adapter'[Owner[q]] = adapter[Owner[q]],
         network' \subseteq network, running' = running, ran' = ran
  PROVE  IInv'
<1> USE BusAssumption DEF IInv
<1>1. RequestTypes'
  BY DEF RequestTypes, SettledAs, Answers
<1>2. \A q \in Requests : Unsent(q) => Unsent(q)'
  BY DEF Unsent
<1>3. \A q \in Requests : \/ promise'[q] = promise[q]
                          \/ q \in qs /\ promise[q] = "pending" /\ promise'[q] = outcome
  BY DEF SettledAs, RequestTypes
<1>4. \A q \in qs : promise'[q] # "pending"
  BY DEF SettledAs, RequestTypes, Answers
<1>5. NoStrandedRequest'
  BY <1>3, <1>4 DEF NoStrandedRequest, Entries, Answers
<1>6. \A q \in Requests : promise'[q] = "new" => q \notin active' /\ Unsent(q)'
  BY <1>2, <1>3 DEF Entries, Answers
<1>7. \A q \in active' :
        \/ promise'[q] = "pending"
        \/ promise'[q] = "error" /\ Unsent(q)' /\ adapter'[Owner[q]] = "open"
  <2> SUFFICES ASSUME NEW q \in active' PROVE
        \/ promise'[q] = "pending"
        \/ promise'[q] = "error" /\ Unsent(q)' /\ adapter'[Owner[q]] = "open"
    OBVIOUS
  <2>1. q \in active /\ q \notin qs /\ q \in Requests
    BY DEF RequestTypes
  <2>2. promise'[q] = promise[q] /\ adapter'[Owner[q]] = adapter[Owner[q]]
    BY <1>3, <2>1
  <2> QED
    BY <1>2, <2>1, <2>2 DEF Entries
<1>8. Entries'
  BY <1>5, <1>6, <1>7 DEF Entries
<1>9. Served'
  BY DEF Served
<1> QED
  BY <1>1, <1>8, <1>9

LEMMA TimeoutStep ==
  ASSUME IInv, NEW q \in Requests, Timeout(q)
  PROVE  IInv'
<1>1. /\ promise' = SettledAs({q}, "error") /\ active' = active \ {q}
      /\ timers' = timers \ {q} /\ adapter' = adapter /\ network' = network
      /\ running' = running /\ ran' = ran
  BY DEF Timeout
<1>2. adapter' \in [Buses -> {"opening", "open", "destroyed"}]
  BY <1>1 DEF IInv, RequestTypes
<1> QED
  BY <1>1, <1>2, SettleStep DEF Answers

LEMMA FireEndActionStep ==
  ASSUME IInv, NEW m \in network, FireEndAction(m)
  PROVE  IInv'
<1> DEFINE q == m.request
<1>1. /\ m.type \in Answers /\ network' \subseteq network /\ adapter' = adapter
      /\ running' = running /\ ran' = ran
  BY DEF FireEndAction
<1>2. adapter' \in [Buses -> {"opening", "open", "destroyed"}]
  BY <1>1 DEF IInv, RequestTypes
<1>3. m \in Messages /\ q \in Requests
  BY <1>1, MessageKinds DEF IInv, RequestTypes, Answers
<1>4. CASE q \in active
  <2>1. /\ promise' = SettledAs({q}, m.type) /\ active' = active \ {q}
        /\ timers' = timers \ {q}
    BY <1>4 DEF FireEndAction, Cleared
  <2> HIDE DEF q
  <2> QED
    BY <1>1, <1>2, <1>3, <2>1, SettleStep
<1>5. CASE q \notin active
  <2>1. UNCHANGED requestVars
    BY <1>5 DEF FireEndAction, requestVars
  <2>2. network' \subseteq Messages
    BY <1>1 DEF IInv, RequestTypes
  <2> QED
    BY <1>1, <1>2, <2>1, <2>2, OtherStep
<1> QED
  BY <1>4, <1>5

LEMMA DestroyStep ==
  ASSUME IInv, NEW b \in Buses, Destroy(b)
  PROVE  IInv'
<1> DEFINE own == {q \in active : Owner[q] = b}
<1>1. /\ promise' = SettledAs(own, "error") /\ active' = active \ own
      /\ timers' = timers \ own /\ adapter' = [adapter EXCEPT ![b] = "destroyed"]
      /\ network' = network /\ running' = running /\ ran' = ran
  BY DEF Destroy, Cleared
<1>2. adapter' \in [Buses -> {"opening", "open", "destroyed"}] /\ own \in SUBSET Requests
  BY <1>1 DEF IInv, RequestTypes
<1>3. \A q \in active : q \in own \/ adapter'[Owner[q]] = adapter[Owner[q]]
  BY <1>1, BusAssumption DEF IInv, RequestTypes, BusAssumption
<1> HIDE DEF own
<1> QED
  BY <1>1, <1>2, <1>3, SettleStep DEF Answers

(* Handlers and their answers concern requests that were sent.             *)
LEMMA ServeStep ==
  ASSUME IInv, NEW q \in Requests, ~Unsent(q),
         UNCHANGED <<promise, active, timers, adapter>>,
         ran \subseteq ran', ran' \subseteq ran \cup {q},
         running' \subseteq running \cup (Buses \X {q}),
         \A b \in Buses : <<b, q>> \in running' => q \in ran',
         network' \subseteq Messages,
         \A m \in network' :
           \/ m \in network
           \/ m.type \in Answers /\ m.request = q /\ (m.type = "value" => q \in ran')
  PROVE  IInv'
<1> USE DEF IInv
<1>1. RequestTypes'
  BY DEF RequestTypes
<1>2. \A p \in Requests : Unsent(p) => Unsent(p)'
  <2> SUFFICES ASSUME NEW p \in Requests, Unsent(p) PROVE Unsent(p)'
    OBVIOUS
  <2>1. p # q
    OBVIOUS
  <2>2. p \notin ran'
    BY <2>1 DEF Unsent
  <2>3. \A m \in network' : m.type # "event" => m.request # p
    BY <2>1 DEF Unsent
  <2>4. \A b \in Buses : <<b, p>> \notin running'
    BY <2>1 DEF Unsent
  <2> QED
    BY <2>2, <2>3, <2>4 DEF Unsent
<1>3. Entries'
  BY <1>2 DEF Entries, NoStrandedRequest, RequestTypes
<1>4. Served'
  <2>1. \A m \in network' : m.type = "value" => m.request \in ran'
    BY DEF Served
  <2>2. \A b \in Buses, p \in Requests : <<b, p>> \in running' => p \in ran'
    BY DEF Served
  <2> QED
    BY <2>1, <2>2 DEF Served
<1> QED
  BY <1>1, <1>3, <1>4

LEMMA CreateResponseStep ==
  ASSUME IInv, NEW m \in network, CreateResponse(m)
  PROVE  IInv'
<1> USE BusAssumption
<1> DEFINE q == m.request
           b == m.to
<1>1. m \in Messages /\ m.type = "action"
  BY DEF CreateResponse, IInv, RequestTypes
<1>2. q \in Requests /\ b \in Buses
  BY <1>1, MessageKinds
<1>3. ~Unsent(q)
  BY <1>1 DEF Unsent
<1>4. UNCHANGED <<promise, active, timers, adapter>>
  BY DEF CreateResponse
<1>5. network \subseteq Messages /\ (<<b, q>> \in running => q \in ran)
  BY <1>2 DEF IInv, RequestTypes, Served
<1>6. \A answer \in Answers :
         /\ Answer(q, answer) \subseteq Messages
         /\ \A n \in Answer(q, answer) : n.type = answer /\ n.request = q
  BY <1>2, AnswerFacts
<1>7. CASE b \notin registered
  <2>1. network' = (network \ {m}) \cup Answer(q, "error") /\ ran' = ran /\ running' = running
    BY <1>7 DEF CreateResponse
  <2>2. \A a \in Buses : <<a, q>> \in running' => q \in ran'
    BY <1>2, <2>1 DEF IInv, Served
  <2> HIDE DEF q, b
  <2> QED
    BY <1>2, <1>3, <1>4, <1>5, <1>6, <2>1, <2>2, ServeStep DEF Answers
<1>8. CASE b \in registered
  <2>1. ran' = ran \cup {q}
    BY <1>8 DEF CreateResponse
  <2>2. \/ running' = running /\ \E answer \in Answers :
                network' = (network \ {m}) \cup Answer(q, answer)
        \/ running' = running \cup {<<b, q>>} /\ network' = network \ {m}
    BY <1>8 DEF CreateResponse
  <2> HIDE DEF q, b
  <2>3. network' \subseteq Messages
    BY <1>5, <1>6, <2>2
  <2>4. \A n \in network' :
           \/ n \in network
           \/ n.type \in Answers /\ n.request = q /\ (n.type = "value" => q \in ran')
    BY <1>6, <2>1, <2>2
  <2>5. running' \subseteq running \cup (Buses \X {q})
    BY <1>2, <2>2
  <2> QED
    BY <1>2, <1>3, <1>4, <2>1, <2>3, <2>4, <2>5, ServeStep
<1> QED
  BY <1>7, <1>8

LEMMA HandlerSettlesStep ==
  ASSUME IInv, NEW b \in Buses, NEW q \in Requests, HandlerSettles(b, q)
  PROVE  IInv'
<1> USE BusAssumption
<1>1. <<b, q>> \in running /\ q \in ran
  BY DEF HandlerSettles, IInv, Served
<1>2. ~Unsent(q)
  BY <1>1 DEF Unsent
<1>3. /\ UNCHANGED <<promise, active, timers, adapter, ran>>
      /\ running' = running \ {<<b, q>>}
  BY DEF HandlerSettles
<1>4. network \subseteq Messages
  BY DEF IInv, RequestTypes
<1>5. \/ network' = network
      \/ \E answer \in Answers : network' \subseteq network \cup Answer(q, answer)
  BY DEF HandlerSettles, Send
<1>6. \A answer \in Answers :
         /\ Answer(q, answer) \subseteq Messages
         /\ \A n \in Answer(q, answer) : n.type = answer /\ n.request = q
  BY AnswerFacts
<1>7. network' \subseteq Messages
  BY <1>4, <1>5, <1>6
<1>8. \A n \in network' :
         \/ n \in network
         \/ n.type \in Answers /\ n.request = q /\ (n.type = "value" => q \in ran')
  BY <1>1, <1>3, <1>5, <1>6
<1> QED
  BY <1>1, <1>2, <1>3, <1>7, <1>8, ServeStep

-----------------------------------------------------------------------------
LEMMA CountStep == EventCount /\ [Next]_vars => EventCount'
<1> SUFFICES ASSUME EventCount, [Next]_vars PROVE EventCount'
  OBVIOUS
<1> USE DEF EventCount
<1>1. ASSUME NEW b \in Buses, DispatchEvent(b) PROVE EventCount'
  BY <1>1, BusAssumption DEF DispatchEvent, BusAssumption
<1>2. CASE UNCHANGED vars
  BY <1>2 DEF vars, bounds
<1>3. ASSUME NEW b \in Buses,
             \/ Open(b) \/ RegisterRequestHandler(b) \/ UnregisterHandler(b) \/ Destroy(b)
             \/ \E old \in Buses : ChangeAdapter(old, b)
             \/ \E h \in Handlers : On(b, h) \/ Off(b, h)
             \/ \E q \in Requests : HandlerSettles(b, q)
      PROVE EventCount'
  BY <1>3 DEF Open, RegisterRequestHandler, UnregisterHandler, Destroy, ChangeAdapter,
              On, Off, HandlerSettles, bounds
<1>4. ASSUME NEW q \in Requests, Request(q) \/ RequestThrows(q) \/ Timeout(q)
      PROVE EventCount'
  BY <1>4 DEF Request, RequestThrows, Timeout, bounds
<1>5. ASSUME NEW m \in network,
             CreateResponse(m) \/ FireEndAction(m) \/ NobodyHears(m) \/ FireEvent(m)
      PROVE EventCount'
  BY <1>5 DEF CreateResponse, FireEndAction, NobodyHears, FireEvent, bounds
<1>6. CASE FireNext \/ FireEnds
  BY <1>6 DEF FireNext, FireEnds, bounds
<1> QED
  BY <1>1, <1>2, <1>3, <1>4, <1>5, <1>6 DEF Next

LEMMA StepInv == IInv /\ EventCount /\ [Next]_vars => IInv'
<1> SUFFICES ASSUME IInv, EventCount, [Next]_vars PROVE IInv'
  OBVIOUS
<1>1. adapter \in [Buses -> {"opening", "open", "destroyed"}] /\ network \subseteq Messages
  BY DEF IInv, RequestTypes
<1>2. ASSUME NEW b \in Buses, Open(b) PROVE IInv'
  BY <1>1, <1>2, OtherStep DEF Open, requestVars
<1>3. ASSUME NEW b \in Buses, RegisterRequestHandler(b) PROVE IInv'
  BY <1>1, <1>3, OtherStep DEF RegisterRequestHandler, requestVars
<1>4. ASSUME NEW b \in Buses, UnregisterHandler(b) PROVE IInv'
  BY <1>1, <1>4, OtherStep DEF UnregisterHandler, requestVars
<1>5. ASSUME NEW b \in Buses, DispatchEvent(b) PROVE IInv'
  <2> DEFINE sent == [type : {"event"}, to : Peers[b] \cap Listeners, number : {events'}]
  <2>1. UNCHANGED requestVars /\ adapter' = adapter /\ network' = network \cup sent
    BY <1>5 DEF DispatchEvent
  <2>2. \A m \in sent : m.type = "event"
    OBVIOUS
  <2>3. sent \subseteq Messages
    BY <1>5, BusAssumption DEF DispatchEvent, Messages, BusAssumption, EventCount
  <2> HIDE DEF sent
  <2> QED
    BY <1>1, <2>1, <2>2, <2>3, OtherStep
<1>6. ASSUME NEW b \in Buses, NEW old \in Buses, ChangeAdapter(old, b) PROVE IInv'
  BY <1>1, <1>6, OtherStep DEF ChangeAdapter, requestVars
<1>7. ASSUME NEW b \in Buses, NEW h \in Handlers, On(b, h) \/ Off(b, h) PROVE IInv'
  BY <1>1, <1>7, OtherStep DEF On, Off, requestVars
<1>8. ASSUME NEW m \in network, NobodyHears(m) PROVE IInv'
  BY <1>1, <1>8, OtherStep DEF NobodyHears, requestVars
<1>9. ASSUME NEW m \in network, FireEvent(m) PROVE IInv'
  BY <1>1, <1>9, OtherStep DEF FireEvent, requestVars
<1>10. ASSUME FireNext \/ FireEnds \/ UNCHANGED vars PROVE IInv'
  BY <1>1, <1>10, OtherStep DEF FireNext, FireEnds, vars, requestVars
<1> QED
  BY <1>2, <1>3, <1>4, <1>5, <1>6, <1>7, <1>8, <1>9, <1>10, RequestStep,
     RequestThrowsStep, TimeoutStep, FireEndActionStep, DestroyStep,
     CreateResponseStep, HandlerSettlesStep DEF Next

LEMMA Invariant == Spec => [](IInv /\ EventCount)
<1>1. Init => EventCount
  BY BusAssumption DEF Init, EventCount, BusAssumption
<1> QED
  BY InitInv, CountStep, StepInv, <1>1, PTL DEF Spec

(* Promises, entries and timers agree in every reachable state: nothing    *)
(* strands a request, and nothing is left of one that is settled.          *)
THEOREM EntriesKept == Spec => []EntriesMatchPromises
<1>1. IInv => EntriesMatchPromises
  BY DEF IInv, Entries, EntriesMatchPromises, NoStrandedRequest, NoDanglingTimer, Unsent,
         RequestTypes
<1> QED
  BY Invariant, <1>1, PTL

-----------------------------------------------------------------------------
(* Events.                                                                 *)

EventTypes ==
  /\ adapter \in [Buses -> {"opening", "open", "destroyed"}]
  /\ handlers \in [Buses -> Seq(Handlers)]
  /\ \/ firing = Idle
     \/ firing \in [bus : Buses, rest : Seq(Handlers), kept : Seq(Handlers)]
  /\ calls \in [Subscriptions -> Nat]

\* No handler is on a list twice, nor both called and still to be called.
Distinct(list) == \A i, j \in DOMAIN list : list[i] = list[j] => i = j

Lists ==
  /\ \A b \in Buses : Distinct(handlers[b])
  /\ Distinct(firing.rest) /\ Distinct(firing.kept)
  /\ Range(firing.rest) \cap Range(firing.kept) = {}

\* The bus goes through the copy of its handlers.
Delivering(b) == ~Calm /\ firing.bus = b

(* A handler that is still to be called was not called before.  While an   *)
(* event is delivered that holds of the rest of the copy and not of the    *)
(* list, which is replaced by handlers that are kept.                      *)
OnceCounts ==
  /\ Range(firing.kept) \cap Once = {}
  /\ ~Calm => adapter[firing.bus] # "opening"
  /\ \A b \in Buses, h \in Once :
       /\ calls[<<b, h>>] <= 1
       /\ ~Delivering(b) /\ h \in Range(handlers[b]) => calls[<<b, h>>] = 0
       /\ Delivering(b) /\ h \in Range(firing.rest) => calls[<<b, h>>] = 0
       /\ adapter[b] = "opening" => calls[<<b, h>>] = 0

EventInv == EventTypes /\ Lists /\ OnceCounts

(* Off takes the handler off the list, and nothing else.                   *)
LEMMA WithoutFacts ==
  ASSUME NEW S, NEW list \in Seq(S), Distinct(list), NEW h \in Range(list)
  PROVE  /\ Without(list, h) \in Seq(S) /\ Distinct(Without(list, h))
         /\ Range(Without(list, h)) = Range(list) \ {h}
<1> DEFINE at == CHOOSE i \in DOMAIN list : list[i] = h
           n == Len(list)
           src(i) == IF i < at THEN i ELSE i + 1
<1>1. n \in Nat /\ DOMAIN list = 1..n /\ \A i \in 1..n : list[i] \in S
  OBVIOUS
<1>2. at \in 1..n /\ list[at] = h
  <2>1. \E i \in DOMAIN list : list[i] = h
    BY DEF Range
  <2> QED
    BY <1>1, <2>1
<1>3. Without(list, h) = [i \in 1..(n - 1) |-> list[src(i)]]
  BY DEF Without
<1> HIDE DEF at, n
<1>4. n - 1 \in Nat
  BY <1>1, <1>2
<1>5. ASSUME NEW i \in 1..(n - 1) PROVE src(i) \in 1..n /\ src(i) # at
  BY <1>1, <1>2
<1>6. ASSUME NEW i \in 1..(n - 1), NEW j \in 1..(n - 1), src(i) = src(j) PROVE i = j
  BY <1>1, <1>2, <1>6
<1>7. ASSUME NEW k \in 1..n, k # at PROVE \E i \in 1..(n - 1) : src(i) = k
  <2>1. CASE k < at
    <3>1. k \in 1..(n - 1) /\ src(k) = k
      BY <1>1, <1>2, <2>1
    <3> QED
      BY <3>1
  <2>2. CASE k > at
    <3>1. k - 1 \in 1..(n - 1) /\ src(k - 1) = k
      BY <1>1, <1>2, <2>2
    <3> QED
      BY <3>1
  <2> QED
    BY <1>1, <1>2, <1>7, <2>1, <2>2
<1> HIDE DEF src
<1>8. Without(list, h) \in Seq(S)
  BY <1>1, <1>3, <1>4, <1>5
<1>9. Distinct(Without(list, h))
  BY <1>1, <1>3, <1>5, <1>6 DEF Distinct
<1>10. Range(Without(list, h)) = {list[k] : k \in (1..n) \ {at}}
  BY <1>3, <1>5, <1>7 DEF Range
<1>11. {list[k] : k \in (1..n) \ {at}} = Range(list) \ {h}
  BY <1>1, <1>2 DEF Distinct, Range
<1> QED
  BY <1>8, <1>9, <1>10, <1>11

LEMMA AppendFacts ==
  ASSUME NEW S, NEW list \in Seq(S), Distinct(list), NEW h \in S, h \notin Range(list)
  PROVE  /\ Append(list, h) \in Seq(S) /\ Distinct(Append(list, h))
         /\ Range(Append(list, h)) = Range(list) \cup {h}
<1> DEFINE n == Len(list)
<1>1. n \in Nat /\ DOMAIN list = 1..n
  OBVIOUS
<1>2. /\ Append(list, h) \in Seq(S) /\ DOMAIN Append(list, h) = 1..(n + 1)
      /\ \A i \in 1..n : Append(list, h)[i] = list[i]
      /\ Append(list, h)[n + 1] = h
  OBVIOUS
<1> HIDE DEF n
<1>3. \A i \in 1..(n + 1) : i \in 1..n \/ i = n + 1
  BY <1>1
<1>4. \A i \in 1..n : list[i] \in Range(list) /\ i \in 1..(n + 1)
  BY <1>1 DEF Range
<1>5. Distinct(Append(list, h))
  BY <1>1, <1>2, <1>3, <1>4 DEF Distinct
<1>6. Range(Append(list, h)) \subseteq Range(list) \cup {h}
  BY <1>2, <1>3, <1>4 DEF Range
<1>7. n + 1 \in 1..(n + 1)
  BY <1>1
<1>8. Range(list) \cup {h} \subseteq Range(Append(list, h))
  BY <1>1, <1>2, <1>4, <1>7 DEF Range
<1> QED
  BY <1>2, <1>5, <1>6, <1>8

LEMMA TailFacts ==
  ASSUME NEW S, NEW list \in Seq(S), Distinct(list), list # <<>>
  PROVE  /\ Head(list) \in S /\ Head(list) \in Range(list)
         /\ Tail(list) \in Seq(S) /\ Distinct(Tail(list))
         /\ Range(Tail(list)) \subseteq Range(list)
         /\ Head(list) \notin Range(Tail(list))
<1> DEFINE n == Len(list)
<1>1. n \in Nat /\ n >= 1 /\ DOMAIN list = 1..n /\ Head(list) = list[1] /\ 1 \in 1..n
  OBVIOUS
<1>2. /\ Tail(list) \in Seq(S) /\ DOMAIN Tail(list) = 1..(n - 1)
      /\ \A i \in 1..(n - 1) : Tail(list)[i] = list[i + 1]
  OBVIOUS
<1> HIDE DEF n
<1>3. \A i \in 1..(n - 1) : i + 1 \in 1..n /\ i + 1 # 1
  BY <1>1
<1>4. \A i, j \in 1..(n - 1) : i + 1 = j + 1 => i = j
  BY <1>1
<1>5. Distinct(Tail(list))
  BY <1>1, <1>2, <1>3, <1>4 DEF Distinct
<1>6. Range(Tail(list)) \subseteq Range(list)
  BY <1>1, <1>2, <1>3 DEF Range
<1>7. Head(list) \notin Range(Tail(list))
  BY <1>1, <1>2, <1>3 DEF Distinct, Range
<1>8. Head(list) \in S /\ Head(list) \in Range(list)
  BY <1>1 DEF Range
<1> QED
  BY <1>2, <1>5, <1>6, <1>7, <1>8

LEMMA EventInit == Init => EventInv
<1> SUFFICES ASSUME Init PROVE EventInv
  OBVIOUS
<1>1. /\ handlers = [b \in Buses |-> <<>>] /\ firing = Idle
      /\ calls = [s \in Subscriptions |-> 0]
      /\ adapter = [b \in Buses |-> "opening"]
  BY DEF Init
<1>2. EventTypes
  BY <1>1 DEF EventTypes
<1>3. Distinct(<<>>) /\ Range(<<>>) = {}
  BY DEF Distinct, Range
<1>4. firing.rest = <<>> /\ firing.kept = <<>> /\ Calm
  BY <1>1 DEF Idle, Calm
<1>5. Lists
  BY <1>1, <1>3, <1>4 DEF Lists
<1>6. \A b \in Buses, h \in Once : calls[<<b, h>>] = 0
  BY <1>1, BusAssumption DEF Subscriptions, BusAssumption
<1>7. OnceCounts
  BY <1>3, <1>4, <1>6 DEF OnceCounts, Delivering
<1> QED
  BY <1>2, <1>5, <1>7 DEF EventInv

(* Steps that leave the events alone; no adapter is being created again.   *)
LEMMA EventOther ==
  ASSUME EventInv, UNCHANGED <<handlers, firing, calls>>,
         adapter' \in [Buses -> {"opening", "open", "destroyed"}],
         \A b \in Buses : adapter'[b] = "opening" => adapter[b] = "opening"
  PROVE  EventInv'
<1>1. EventTypes'
  BY DEF EventInv, EventTypes
<1>2. Lists'
  BY DEF EventInv, Lists
<1>3. OnceCounts'
  BY DEF EventInv, EventTypes, OnceCounts, Delivering, Calm
<1> QED
  BY <1>1, <1>2, <1>3 DEF EventInv

(* The list of one bus changes, to handlers that were not called.          *)
LEMMA ListStep ==
  ASSUME EventInv, NEW b \in Buses, NEW list \in Seq(Handlers), Distinct(list),
         \A h \in Once : ~Delivering(b) /\ h \in Range(list) => calls[<<b, h>>] = 0,
         handlers' = [handlers EXCEPT ![b] = list], UNCHANGED <<firing, calls>>,
         adapter' \in [Buses -> {"opening", "open", "destroyed"}],
         \A a \in Buses : adapter'[a] = "opening" => adapter[a] = "opening"
  PROVE  EventInv'
<1>1. EventTypes'
  BY DEF EventInv, EventTypes
<1>2. handlers'[b] = list /\ \A a \in Buses \ {b} : handlers'[a] = handlers[a]
  BY DEF EventInv, EventTypes
<1>3. Lists'
  BY <1>2 DEF EventInv, Lists
<1>4. \A a \in Buses : Delivering(a)' <=> Delivering(a)
  BY DEF Delivering, Calm
<1>5. Calm' <=> Calm
  BY DEF Calm
<1>6. ~Calm => firing.bus \in Buses
  BY DEF EventInv, EventTypes, Calm
<1>7. OnceCounts'
  BY <1>2, <1>4, <1>5, <1>6 DEF EventInv, OnceCounts
<1> QED
  BY <1>1, <1>3, <1>7 DEF EventInv

(* A handler is called, the first of a copy or the next.                   *)
LEMMA CallStep ==
  ASSUME EventInv, BusAssumption, NEW b \in Buses, adapter[b] # "opening",
         Calm \/ firing.bus = b,
         NEW list \in Seq(Handlers), list # <<>>, Distinct(list),
         NEW kept \in Seq(Handlers), Distinct(kept),
         Range(list) \cap Range(kept) = {}, Range(kept) \cap Once = {},
         \A h \in Once : h \in Range(list) => calls[<<b, h>>] = 0,
         Call(b, list, kept), UNCHANGED <<handlers, adapter>>
  PROVE  EventInv'
<1> DEFINE h == Head(list)
           rest == Tail(list)
           more == Keep(h, kept)
<1>1. /\ h \in Handlers /\ h \in Range(list) /\ h \notin Range(rest)
      /\ rest \in Seq(Handlers) /\ Distinct(rest) /\ Range(rest) \subseteq Range(list)
  BY TailFacts
<1>2. /\ calls' = [calls EXCEPT ![<<b, h>>] = @ + 1]
      /\ firing' = [bus |-> b, rest |-> rest, kept |-> more]
  BY DEF Call
<1> HIDE DEF h, rest
<1>3. /\ more \in Seq(Handlers) /\ Distinct(more)
      /\ Range(more) \subseteq Range(kept) \cup {h} /\ Range(more) \cap Once = {}
  <2>1. CASE h \in Once
    BY <2>1 DEF Keep
  <2>2. CASE h \notin Once
    <3>1. /\ Append(kept, h) \in Seq(Handlers) /\ Distinct(Append(kept, h))
          /\ Range(Append(kept, h)) = Range(kept) \cup {h}
      BY <1>1, AppendFacts
    <3> QED
      BY <2>2, <3>1 DEF Keep
  <2> QED
    BY <2>1, <2>2
<1> HIDE DEF more
<1>4. b # "none" /\ Once \subseteq Handlers
  BY DEF BusAssumption
<1>5. firing'.bus = b /\ firing'.rest = rest /\ firing'.kept = more
  BY <1>2
<1>6. \A a \in Buses : Delivering(a)' <=> a = b
  BY <1>4, <1>5 DEF Delivering, Calm, Idle
<1>7. \A a \in Buses : a # b => ~Delivering(a)
  BY DEF Delivering
<1>8. /\ calls[<<b, h>>] \in Nat /\ calls'[<<b, h>>] = calls[<<b, h>>] + 1
      /\ \A a \in Buses, g \in Handlers : a # b \/ g # h => calls'[<<a, g>>] = calls[<<a, g>>]
      /\ calls' \in [Subscriptions -> Nat]
  BY <1>1, <1>2 DEF EventInv, EventTypes, Subscriptions
<1>9. EventTypes'
  BY <1>1, <1>2, <1>3, <1>8 DEF EventInv, EventTypes
<1>10. Lists'
  BY <1>1, <1>3, <1>5 DEF EventInv, Lists
<1>11. ASSUME NEW a \in Buses, NEW g \in Once
       PROVE  /\ calls'[<<a, g>>] <= 1
              /\ ~Delivering(a)' /\ g \in Range(handlers'[a]) => calls'[<<a, g>>] = 0
              /\ Delivering(a)' /\ g \in Range(firing'.rest) => calls'[<<a, g>>] = 0
              /\ adapter'[a] = "opening" => calls'[<<a, g>>] = 0
  <2>1. /\ calls[<<a, g>>] <= 1 /\ g \in Handlers
        /\ ~Delivering(a) /\ g \in Range(handlers[a]) => calls[<<a, g>>] = 0
        /\ adapter[a] = "opening" => calls[<<a, g>>] = 0
    BY <1>4 DEF EventInv, OnceCounts
  <2>2. CASE a # b
    <3>1. calls'[<<a, g>>] = calls[<<a, g>>]
      BY <1>8, <2>1, <2>2
    <3> QED
      BY <1>6, <1>7, <2>1, <2>2, <3>1
  <2>3. CASE a = b
    <3>1. CASE g = h
      BY <1>1, <1>5, <1>6, <1>8, <2>3, <3>1
    <3>2. CASE g # h
      <4>1. calls'[<<a, g>>] = calls[<<a, g>>]
        BY <1>8, <2>1, <3>2
      <4> QED
        BY <1>1, <1>5, <1>6, <2>1, <2>3, <4>1
    <3> QED
      BY <3>1, <3>2
  <2> QED
    BY <2>2, <2>3
<1>12. OnceCounts'
  BY <1>3, <1>5, <1>11 DEF OnceCounts
<1> QED
  BY <1>9, <1>10, <1>12 DEF EventInv

LEMMA FireEventEvents ==
  ASSUME EventInv, BusAssumption, NEW m \in network, m.to \in Buses, FireEvent(m)
  PROVE  EventInv'
<1> DEFINE b == m.to
<1>1. /\ Calm /\ b \in Buses /\ adapter[b] = "open" /\ UNCHANGED <<handlers, adapter>>
      /\ handlers[b] = <<>> => UNCHANGED <<calls, firing>>
      /\ handlers[b] # <<>> => Call(b, handlers[b], <<>>)
  BY DEF FireEvent
<1>2. handlers[b] \in Seq(Handlers) /\ Distinct(handlers[b])
  BY <1>1 DEF EventInv, EventTypes, Lists
<1>3. <<>> \in Seq(Handlers) /\ Distinct(<<>>) /\ Range(<<>>) = {}
  BY DEF Distinct, Range
<1>4. \A h \in Once : h \in Range(handlers[b]) => calls[<<b, h>>] = 0
  BY <1>1 DEF EventInv, OnceCounts, Delivering
<1>5. adapter' \in [Buses -> {"opening", "open", "destroyed"}]
  BY <1>1 DEF EventInv, EventTypes
<1> HIDE DEF b
<1>6. CASE handlers[b] = <<>>
  BY <1>1, <1>5, <1>6, EventOther
<1>7. CASE handlers[b] # <<>>
  BY <1>1, <1>2, <1>3, <1>4, <1>7, CallStep
<1> QED
  BY <1>6, <1>7

LEMMA FireNextEvents ==
  ASSUME EventInv, BusAssumption, FireNext
  PROVE  EventInv'
<1> DEFINE b == firing.bus
<1>1. /\ firing.rest # <<>> /\ Call(b, firing.rest, firing.kept)
      /\ UNCHANGED <<handlers, adapter>>
  BY DEF FireNext
<1>2. ~Calm
  BY <1>1 DEF Calm, Idle
<1>3. b \in Buses /\ firing.rest \in Seq(Handlers) /\ firing.kept \in Seq(Handlers)
  BY <1>2 DEF EventInv, EventTypes, Calm
<1>4. /\ Distinct(firing.rest) /\ Distinct(firing.kept)
      /\ Range(firing.rest) \cap Range(firing.kept) = {}
  BY DEF EventInv, Lists
<1>5. /\ Range(firing.kept) \cap Once = {} /\ adapter[b] # "opening"
      /\ \A h \in Once : h \in Range(firing.rest) => calls[<<b, h>>] = 0
  BY <1>2, <1>3 DEF EventInv, OnceCounts, Delivering
<1> HIDE DEF b
<1>6. firing.bus = b
  BY DEF b
<1> QED
  BY <1>1, <1>3, <1>4, <1>5, <1>6, CallStep

(* The handlers that were kept are none of once(), so the list that they   *)
(* replace, with what a handler did to it, is of no consequence.           *)
LEMMA FireEndsEvents ==
  ASSUME EventInv, FireEnds
  PROVE  EventInv'
<1> DEFINE b == firing.bus
<1>1. /\ ~Calm /\ handlers' = [handlers EXCEPT ![b] = firing.kept] /\ firing' = Idle
      /\ UNCHANGED <<adapter, calls>>
  BY DEF FireEnds
<1>2. b \in Buses /\ firing.kept \in Seq(Handlers)
  BY <1>1 DEF EventInv, EventTypes, Calm
<1>3. Distinct(<<>>) /\ Range(<<>>) = {}
  BY DEF Distinct, Range
<1>4. firing'.rest = <<>> /\ firing'.kept = <<>> /\ Calm' /\ \A a \in Buses : ~Delivering(a)'
  BY <1>1 DEF Idle, Calm, Delivering
<1>5. /\ handlers'[b] = firing.kept /\ \A a \in Buses \ {b} : handlers'[a] = handlers[a]
      /\ \A a \in Buses \ {b} : ~Delivering(a)
  BY <1>1, <1>2 DEF EventInv, EventTypes, Delivering
<1>6. EventTypes'
  BY <1>1, <1>2 DEF EventInv, EventTypes
<1>7. Distinct(firing.kept) /\ Range(firing.kept) \cap Once = {}
  BY DEF EventInv, Lists, OnceCounts
<1> HIDE DEF b
<1>8. Lists'
  BY <1>3, <1>4, <1>5, <1>7 DEF EventInv, Lists
<1>9. OnceCounts'
  BY <1>1, <1>3, <1>4, <1>5, <1>7 DEF EventInv, OnceCounts
<1> QED
  BY <1>6, <1>8, <1>9 DEF EventInv

LEMMA SubscriptionEvents ==
  ASSUME EventInv, BusAssumption, NEW b \in Buses, NEW h \in Handlers, On(b, h) \/ Off(b, h)
  PROVE  EventInv'
<1>1. /\ handlers[b] \in Seq(Handlers) /\ Distinct(handlers[b])
      /\ adapter \in [Buses -> {"opening", "open", "destroyed"}]
      /\ adapter' = adapter /\ UNCHANGED <<firing, calls>>
      /\ calls[<<b, h>>] \in Nat
  BY DEF EventInv, EventTypes, Lists, On, Off, Subscriptions
<1>2. \A g \in Once : ~Delivering(b) /\ g \in Range(handlers[b]) => calls[<<b, g>>] = 0
  BY DEF EventInv, OnceCounts
<1>3. CASE On(b, h)
  <2>1. /\ handlers' = [handlers EXCEPT ![b] = Append(handlers[b], h)]
        /\ h \notin Range(handlers[b]) /\ ~(calls[<<b, h>>] > 0)
    BY <1>3 DEF On, Subscribed
  <2>2. calls[<<b, h>>] = 0
    BY <1>1, <2>1
  <2>3. /\ Append(handlers[b], h) \in Seq(Handlers) /\ Distinct(Append(handlers[b], h))
        /\ Range(Append(handlers[b], h)) = Range(handlers[b]) \cup {h}
    BY <1>1, <2>1, AppendFacts
  <2> QED
    BY <1>1, <1>2, <2>1, <2>2, <2>3, ListStep
<1>4. CASE Off(b, h)
  <2>1. /\ handlers' = [handlers EXCEPT ![b] = Without(handlers[b], h)]
        /\ h \in Range(handlers[b])
    BY <1>4 DEF Off
  <2>2. /\ Without(handlers[b], h) \in Seq(Handlers) /\ Distinct(Without(handlers[b], h))
        /\ Range(Without(handlers[b], h)) = Range(handlers[b]) \ {h}
    BY <1>1, <2>1, WithoutFacts
  <2> QED
    BY <1>1, <1>2, <2>1, <2>2, ListStep
<1> QED
  BY <1>3, <1>4

LEMMA ChangeAdapterEvents ==
  ASSUME EventInv, BusAssumption, NEW old \in Buses, NEW b \in Buses, ChangeAdapter(old, b)
  PROVE  EventInv'
<1>1. /\ adapter[b] = "opening" /\ adapter' = [adapter EXCEPT ![b] = "open"]
      /\ handlers' = [handlers EXCEPT ![b] = handlers[old]] /\ UNCHANGED <<firing, calls>>
  BY DEF ChangeAdapter
<1>2. /\ handlers[old] \in Seq(Handlers) /\ Distinct(handlers[old])
      /\ adapter \in [Buses -> {"opening", "open", "destroyed"}]
  BY DEF EventInv, EventTypes, Lists
<1>3. \A h \in Once : calls[<<b, h>>] = 0
  BY <1>1 DEF EventInv, OnceCounts
<1>4. /\ adapter' \in [Buses -> {"opening", "open", "destroyed"}]
      /\ \A a \in Buses : adapter'[a] = "opening" => adapter[a] = "opening"
  BY <1>1, <1>2
<1> QED
  BY <1>1, <1>2, <1>3, <1>4, ListStep

LEMMA DestroyEvents ==
  ASSUME EventInv, NEW b \in Buses, Destroy(b)
  PROVE  EventInv'
<1>1. /\ adapter' = [adapter EXCEPT ![b] = "destroyed"]
      /\ handlers' = [handlers EXCEPT ![b] = <<>>] /\ UNCHANGED <<firing, calls>>
  BY DEF Destroy
<1>2. <<>> \in Seq(Handlers) /\ Distinct(<<>>) /\ Range(<<>>) = {}
  BY DEF Distinct, Range
<1>3. /\ adapter' \in [Buses -> {"opening", "open", "destroyed"}]
      /\ \A a \in Buses : adapter'[a] = "opening" => adapter[a] = "opening"
  BY <1>1 DEF EventInv, EventTypes
<1> QED
  BY <1>1, <1>2, <1>3, ListStep

LEMMA EventStep == EventInv /\ RequestTypes /\ [Next]_vars => EventInv'
<1> SUFFICES ASSUME EventInv, RequestTypes, [Next]_vars PROVE EventInv'
  OBVIOUS
<1> USE BusAssumption
<1>1. adapter \in [Buses -> {"opening", "open", "destroyed"}]
  BY DEF EventInv, EventTypes
<1>2. ASSUME UNCHANGED <<handlers, firing, calls, adapter>> PROVE EventInv'
  BY <1>1, <1>2, EventOther
<1>3. ASSUME NEW b \in Buses, Open(b) PROVE EventInv'
  <2>1. UNCHANGED <<handlers, firing, calls>> /\ adapter' = [adapter EXCEPT ![b] = "open"]
    BY <1>3 DEF Open, eventVars
  <2>2. /\ adapter' \in [Buses -> {"opening", "open", "destroyed"}]
        /\ \A a \in Buses : adapter'[a] = "opening" => adapter[a] = "opening"
    BY <1>1, <2>1
  <2> QED
    BY <2>1, <2>2, EventOther
<1>4. ASSUME NEW b \in Buses,
             \/ RegisterRequestHandler(b) \/ UnregisterHandler(b) \/ DispatchEvent(b)
             \/ \E q \in Requests : HandlerSettles(b, q)
      PROVE EventInv'
  BY <1>2, <1>4 DEF RegisterRequestHandler, UnregisterHandler, DispatchEvent, HandlerSettles,
                    eventVars
<1>5. ASSUME NEW q \in Requests, Request(q) \/ RequestThrows(q) \/ Timeout(q)
      PROVE EventInv'
  BY <1>2, <1>5 DEF Request, RequestThrows, Timeout, eventVars
<1>6. ASSUME NEW m \in network, CreateResponse(m) \/ FireEndAction(m) \/ NobodyHears(m)
      PROVE EventInv'
  BY <1>2, <1>6 DEF CreateResponse, FireEndAction, NobodyHears, eventVars
<1>7. ASSUME NEW m \in network, FireEvent(m) PROVE EventInv'
  <2>1. m.to \in Buses
    BY MessageKinds DEF RequestTypes
  <2> QED
    BY <1>7, <2>1, FireEventEvents
<1>8. CASE UNCHANGED vars
  BY <1>2, <1>8 DEF vars, eventVars
<1> QED
  BY <1>3, <1>4, <1>5, <1>6, <1>7, <1>8, FireNextEvents, FireEndsEvents,
     SubscriptionEvents, ChangeAdapterEvents, DestroyEvents DEF Next

(* A handler of once() is called at most once, for any handlers, windows   *)
(* and events, and whatever the handlers do to the lists meanwhile.        *)
THEOREM OnceIsOnce == Spec => []OnceFiresOnce
<1>1. IInv => RequestTypes
  BY DEF IInv
<1>2. EventInv => OnceFiresOnce
  BY DEF EventInv, OnceCounts, OnceFiresOnce
<1> QED
  BY Invariant, EventInit, EventStep, <1>1, <1>2, PTL DEF Spec

-----------------------------------------------------------------------------
(* The bus implements Reply.                                               *)

\* What the caller knows of each request, as KeepsPromise maps it.
Known == [q \in Requests |-> CASE promise[q] = "value" -> "result"
                              [] promise[q] = "error" -> "refusal"
                              [] OTHER -> "unsettled"]

(* Settling requests that were pending, and no others. *)
LEMMA SettleMaps ==
  ASSUME RequestTypes, NEW qs \in SUBSET Requests, NEW outcome \in Answers,
         promise' = SettledAs(qs, outcome)
  PROVE  LET pending == {q \in qs : promise[q] = "pending"}
             told == IF outcome = "value" THEN "result" ELSE "refusal"
         IN  /\ \A q \in pending : Known[q] = "unsettled"
             /\ Known' = [q \in Requests |-> IF q \in pending THEN told ELSE Known[q]]
  BY DEF Known, RequestTypes, SettledAs, Answers

LEMMA RefusalMaps ==
  ASSUME RequestTypes, NEW qs \in SUBSET Requests, promise' = SettledAs(qs, "error"), ran' = ran
  PROVE  Promise!Next
<1> DEFINE pending == {q \in qs : promise[q] = "pending"}
<1>1. /\ \A q \in pending : Known[q] = "unsettled"
      /\ Known' = [q \in Requests |-> IF q \in pending THEN "refusal" ELSE Known[q]]
  BY SettleMaps DEF Answers
<1>2. Promise!GiveUp(pending, "refusal")
  BY <1>1 DEF Promise!GiveUp, Known
<1>3. pending \in SUBSET Requests
  OBVIOUS
<1> HIDE DEF pending
<1> QED
  BY <1>2, <1>3 DEF Promise!Next

LEMMA ValueMaps ==
  ASSUME RequestTypes, NEW q \in ran, promise' = SettledAs({q}, "value"), ran' = ran
  PROVE  [Promise!Next]_(Promise!vars)
<1>1. q \in Requests
  BY DEF RequestTypes
<1>2. CASE promise[q] = "pending"
  <2>1. /\ Known[q] = "unsettled"
        /\ Known' = [p \in Requests |-> IF p = q THEN "result" ELSE Known[p]]
    BY <1>1, <1>2, SettleMaps DEF Answers
  <2>2. DOMAIN Known = Requests
    BY DEF Known
  <2>3. Known' = [Known EXCEPT ![q] = "result"]
    BY <2>1, <2>2
  <2>4. Promise!Settle(q, "result")
    BY <2>1, <2>3 DEF Promise!Settle, Known
  <2> QED
    BY <1>1, <2>4 DEF Promise!Next
<1>3. CASE promise[q] # "pending"
  <2>1. promise' = promise
    BY <1>1, <1>3 DEF SettledAs, RequestTypes
  <2> QED
    BY <2>1 DEF Promise!vars
<1> QED
  BY <1>2, <1>3

(* Every step of the bus is a step of Reply or leaves it alone; and so,    *)
(* for any windows and requests, each promise is settled at most once, and *)
(* with a value only after a handler ran for it.                           *)
THEOREM BusImplementsReply == Spec => KeepsPromise
<1>1. Init => Promise!Init
  BY DEF Init, Promise!Init
<1>2. IInv /\ [Next]_vars => [Promise!Next]_(Promise!vars)
  <2> SUFFICES ASSUME IInv, [Next]_vars PROVE [Promise!Next]_(Promise!vars)
    OBVIOUS
  <2>0. ASSUME promise' = promise, ran' = ran PROVE [Promise!Next]_(Promise!vars)
    BY <2>0 DEF Promise!vars
  <2>1. RequestTypes
    BY DEF IInv
  <2>2. ASSUME NEW q \in Requests, Request(q) PROVE [Promise!Next]_(Promise!vars)
    <3>1. promise[q] = "new" /\ promise' = [promise EXCEPT ![q] = "pending"] /\ ran' = ran
      BY <2>2 DEF Request
    <3>2. Known' = Known
      BY <2>1, <3>1 DEF Known, RequestTypes
    <3> QED
      BY <3>1, <3>2 DEF Promise!vars, Known
  <2>3. ASSUME NEW q \in Requests, RequestThrows(q) PROVE [Promise!Next]_(Promise!vars)
    <3>1. promise[q] = "new" /\ promise' = [promise EXCEPT ![q] = "error"] /\ ran' = ran
      BY <2>3 DEF RequestThrows
    <3>2. Known[q] = "unsettled" /\ Known' = [Known EXCEPT ![q] = "refusal"]
      BY <2>1, <3>1 DEF Known, RequestTypes
    <3>3. Promise!Settle(q, "refusal")
      BY <3>1, <3>2 DEF Promise!Settle, Known
    <3> QED
      BY <3>3 DEF Promise!Next
  <2>4. ASSUME NEW q \in Requests, Timeout(q) PROVE [Promise!Next]_(Promise!vars)
    <3>1. promise' = SettledAs({q}, "error") /\ ran' = ran
      BY <2>4 DEF Timeout
    <3> QED
      BY <2>1, <3>1, RefusalMaps
  <2>5. ASSUME NEW b \in Buses, Destroy(b) PROVE [Promise!Next]_(Promise!vars)
    <3> DEFINE own == {q \in active : Owner[q] = b}
    <3>1. promise' = SettledAs(own, "error") /\ ran' = ran
      BY <2>5 DEF Destroy
    <3>2. own \in SUBSET Requests
      BY <2>1 DEF RequestTypes
    <3> HIDE DEF own
    <3> QED
      BY <2>1, <3>1, <3>2, RefusalMaps
  <2>6. ASSUME NEW m \in network, FireEndAction(m) PROVE [Promise!Next]_(Promise!vars)
    <3> DEFINE q == m.request
    <3>1. m.type \in Answers /\ ran' = ran
      BY <2>6 DEF FireEndAction
    <3>2. q \in Requests
      BY <2>1, <3>1, MessageKinds DEF RequestTypes, Answers
    <3>3. CASE q \notin active
      <4>1. promise' = promise
        BY <2>6, <3>3 DEF FireEndAction
      <4> QED
        BY <2>0, <3>1, <4>1
    <3>4. CASE q \in active
      <4>1. promise' = SettledAs({q}, m.type)
        BY <2>6, <3>4 DEF FireEndAction
      <4>2. m.type = "value" => q \in ran
        BY DEF IInv, Served
      <4> HIDE DEF q
      <4> QED
        BY <2>1, <3>1, <3>2, <4>1, <4>2, RefusalMaps, ValueMaps DEF Answers
    <3> QED
      BY <3>3, <3>4
  <2>7. ASSUME NEW m \in network, CreateResponse(m) PROVE [Promise!Next]_(Promise!vars)
    <3> DEFINE q == m.request
    <3>1. promise' = promise /\ (ran' = ran \/ ran' = ran \cup {q})
      BY <2>7 DEF CreateResponse
    <3>2. q \in Requests
      BY <2>1, <2>7, MessageKinds DEF RequestTypes, CreateResponse
    <3>3. ASSUME ran' = ran \cup {q} PROVE Promise!Next
      <4>1. Promise!Grant(q)
        BY <3>1, <3>3 DEF Promise!Grant
      <4> QED
        BY <3>2, <4>1 DEF Promise!Next
    <3> QED
      BY <2>0, <3>1, <3>3
  <2>8. ASSUME NEW b \in Buses,
               \/ Open(b) \/ RegisterRequestHandler(b) \/ UnregisterHandler(b)
               \/ DispatchEvent(b)
               \/ \E old \in Buses : ChangeAdapter(old, b)
               \/ \E h \in Handlers : On(b, h) \/ Off(b, h)
               \/ \E q \in Requests : HandlerSettles(b, q)
        PROVE [Promise!Next]_(Promise!vars)
    BY <2>0, <2>8 DEF Open, RegisterRequestHandler, UnregisterHandler, DispatchEvent,
       ChangeAdapter, On, Off, HandlerSettles, requestVars
  <2>9. ASSUME NEW m \in network, NobodyHears(m) \/ FireEvent(m)
        PROVE [Promise!Next]_(Promise!vars)
    BY <2>0, <2>9 DEF NobodyHears, FireEvent, requestVars
  <2>10. ASSUME FireNext \/ FireEnds \/ UNCHANGED vars PROVE [Promise!Next]_(Promise!vars)
    BY <2>0, <2>10 DEF FireNext, FireEnds, vars, requestVars
  <2> QED
    BY <2>2, <2>3, <2>4, <2>5, <2>6, <2>7, <2>8, <2>9, <2>10 DEF Next
<1> QED
  BY Invariant, <1>1, <1>2, PTL DEF Spec, KeepsPromise, Promise!Spec
=============================================================================
