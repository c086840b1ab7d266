--------------------------- MODULE SubscriptionHub ---------------------------
(***************************************************************************)
(* The subscriptions of websocket-api: what the connections (client.rs,    *)
(* Client) and the shared topic map (ClientIdsByTopics) hold, while        *)
(* connection tasks subscribe, unsubscribe and close, and updates_handler  *)
(* expands multi-topics and broadcasts what Redis publishes.  A step is    *)
(* what runs under one acquisition of the locks; between steps a task      *)
(* awaits Redis or a lock and everything else may run.                     *)
(*                                                                         *)
(* A state key is its topic; a multi-topic is a filter over keys.  A value *)
(* is the number of the write that set it, 0 before the first.  BPS        *)
(* publishes on state keys only, never on the channel of a multi-topic,    *)
(* and one event after the other; each of its commands is a step, and none *)
(* fails alone.                                                            *)
(***************************************************************************)
EXTENDS Integers, Sequences, FiniteSetsExt

CONSTANTS
  Clients, Keys, Multis,
  Matches,        \* the keys each multi-topic's filter matches
  MaxDirect,      \* config: max_subscriptions_per_client
  MaxIndirect,    \* config: max_indirect_subtopics_per_client
  MaxSubtopics,   \* MAX_MULTITOPIC_SUBTOPICS
  Environments,   \* when keys may be written, see Writable
  Lossy,          \* may the Redis listener drop messages?
  MaxWrites,      \* bound: writes of all keys
  MaxRequests     \* bound: subscribes and unsubscribes

ASSUME HubAssumption ==
  /\ IsFiniteSet(Clients) /\ IsFiniteSet(Keys) /\ Keys \cap Multis = {}
  /\ Matches \in [Multis -> SUBSET Keys]
  /\ {MaxDirect, MaxIndirect, MaxSubtopics, MaxWrites, MaxRequests} \subseteq Nat
  /\ Environments \subseteq {"any", "windowless"}
  /\ Lossy \in BOOLEAN

Topics == Keys \cup Multis
NoValues == [k \in Keys |-> 0]

VARIABLES
  redis,     \* the value of every key
  index,     \* the keys in the state index
  publisher, \* where BPS is with the event it publishes
  queue,     \* published values that updates_handler has not received
  hub,       \* ClientIdsByTopics
  subs,      \* the connections' own subscriptions
  request,   \* where each connection's task is
  handler,   \* where updates_handler is
  held,      \* the last value a connection was sent for a key
  requests,  \* counter for the bound
  environment  \* when keys may be written in this behaviour

feed == <<redis, index, publisher, queue>>
vars == <<feed, hub, subs, request, handler, held, requests, environment>>

Ready == [stage |-> "ready"]
Phases == {"idle", "asked", "scanning", "resolved", "fetched", "closing", "gone"}
Idle == [phase |-> "idle", topic |-> {}, keys |-> {}, values |-> NoValues]
Waiting == [stage |-> "waiting", update |-> <<>>, to |-> {}]

TypeOK ==
  /\ redis \in [Keys -> Nat] /\ index \subseteq Keys
  /\ publisher \in {Ready} \cup [stage : {"set", "indexed"}, key : Keys]
  /\ queue \in Seq(Keys \X Nat)
  /\ hub \in [entries : SUBSET Topics,
              direct : SUBSET (Clients \X Topics),
              indirect : SUBSET (Clients \X Keys \X Multis),
              subtopics : [Multis -> SUBSET Keys]]
  /\ subs \in [direct : SUBSET (Clients \X Topics),
               sources : SUBSET (Clients \X Keys \X Multis),
               count : [Clients -> Nat]]
  /\ request \in [Clients -> [phase : Phases, topic : SUBSET Topics,
                              keys : SUBSET Keys, values : [Keys -> Nat]]]
  /\ handler \in {Waiting} \cup [stage : {"expanded", "sending"},
                                 update : Keys \X Nat, to : SUBSET Clients]
  /\ held \in [Clients -> [Keys -> Nat]]
  /\ environment \in Environments

Init ==
  /\ redis = NoValues /\ index = {} /\ publisher = Ready /\ queue = <<>>
  /\ hub = [entries |-> {}, direct |-> {}, indirect |-> {},
            subtopics |-> [m \in Multis |-> {}]]
  /\ subs = [direct |-> {}, sources |-> {}, count |-> [c \in Clients |-> 0]]
  /\ request = [c \in Clients |-> Idle]
  /\ handler = Waiting
  /\ held = [c \in Clients |-> NoValues]
  /\ requests = 0
  /\ environment \in Environments

-----------------------------------------------------------------------------
(* ClientIdsByTopics.  entry_or_create is the union with entries; an entry *)
(* that loses its last subscriber goes, with its subtopics.                *)
Mentioned(h) ==
  {d[2] : d \in h.direct} \cup {i[2] : i \in h.indirect}

Prune(h, topics) ==
  LET gone == topics \ Mentioned(h)
  IN  [h EXCEPT !.entries = @ \ gone,
                !.subtopics = [m \in Multis |-> IF m \in gone THEN {} ELSE @[m]]]

AddSubscription(h, t, c) ==
  [h EXCEPT !.entries = @ \cup {t}, !.direct = @ \cup {<<c, t>>}]

UpdateMultitopicInfo(h, m, keys) ==
  [h EXCEPT !.entries = @ \cup {m}, !.subtopics[m] = keys]

UpdateIndirect(h, keys, m, c) ==
  [h EXCEPT !.entries = @ \cup keys, !.indirect = @ \cup ({c} \X keys \X {m})]

(* remove_indirect_subscriptions and remove_subscription for each of the   *)
(* topics: a multi-topic takes the keys along that are among its subtopics *)
(* when it goes.  The order is no matter: an entry goes with the last one. *)
KeysThrough(h, topics) == UNION {h.subtopics[m] : m \in topics \cap Multis}

RemoveForAll(h, topics, c) ==   \* mutant: the other connections lose their keys too
  Prune([h EXCEPT !.direct = @ \ ({c} \X topics),
                  !.indirect = {i \in @ : i[3] \notin topics}],
        topics \cup KeysThrough(h, topics))

RemoveDirect(h, topics, c) ==   \* mutant: the multi-topics' keys are forgotten
  Prune([h EXCEPT !.direct = @ \ ({c} \X topics)], topics)

Remove(h, topics, c) ==
  Prune([h EXCEPT !.direct = @ \ ({c} \X topics),
                  !.indirect = {i \in @ : \/ i[1] # c \/ i[3] \notin topics
                                         \/ i[2] \notin h.subtopics[i[3]]}],
        topics \cup KeysThrough(h, topics))

(* Client *)
ContainsSubscription(s, c, t) ==
  <<c, t>> \in s.direct \/ \E i \in s.sources : i[1] = c /\ i[2] = t

DirectCount(s, c) == Cardinality({d \in s.direct : d[1] = c})

AddSources(s, keys, m, c) ==
  LET new == ({c} \X keys \X {m}) \ s.sources
  IN  [s EXCEPT !.sources = @ \cup new, !.count[c] = @ + Cardinality(new)]

CountDownAlways(s, keys, m, c) ==   \* mutant: removing what is not there counts
  [s EXCEPT !.sources = @ \ ({c} \X keys \X {m}),
            !.count[c] = @ - Cardinality(keys)]

RemoveSources(s, keys, m, c) ==
  LET old == ({c} \X keys \X {m}) \cap s.sources
  IN  [s EXCEPT !.sources = @ \ old, !.count[c] = @ - Cardinality(old)]

-----------------------------------------------------------------------------
(* When a key is set or indexed: at any time, or never between a           *)
(* subscribe's first read of the index or value and its registration.      *)
InPhase(phases) == \E c \in Clients : request[c].phase \in phases

Writable ==
  environment # "any" => ~InPhase({"scanning", "resolved", "fetched"})

(* BPS, publish_batch: SET, SADD to the state index, PUBLISH, which reach  *)
(* Redis in this order; anything may run between two of them.              *)
Write(k) ==
  /\ publisher = Ready /\ Writable
  /\ MapThenSumSet(LAMBDA key : redis[key], Keys) < MaxWrites
  /\ redis' = [redis EXCEPT ![k] = @ + 1]
  /\ publisher' = [stage |-> "set", key |-> k]
  /\ UNCHANGED <<index, queue, hub, subs, request, handler, held, requests, environment>>

Index(k) ==
  /\ publisher = [stage |-> "set", key |-> k] /\ Writable
  /\ index' = index \cup {k}
  /\ publisher' = [stage |-> "indexed", key |-> k]
  /\ UNCHANGED <<redis, queue, hub, subs, request, handler, held, requests, environment>>

Publish(k) ==
  /\ publisher = [stage |-> "indexed", key |-> k]
  /\ queue' = Append(queue, <<k, redis[k]>>)
  /\ publisher' = Ready
  /\ UNCHANGED <<redis, index, hub, subs, request, handler, held, requests, environment>>

(* RecvError::Lagged: the listener's buffer drops its oldest messages. *)
Lagged ==
  /\ Lossy /\ environment = "any" /\ queue # <<>>
  /\ queue' = Tail(queue)
  /\ UNCHANGED <<redis, index, publisher, hub, subs, request, handler, held, requests, environment>>

-----------------------------------------------------------------------------
(* A connection's task, one message after the other.  Subscribe, phase 1:  *)
(* a subscribe that is refused here, or later by the rate limit or the     *)
(* resolution permits, leaves only an error frame.                         *)
Ask(c, t) ==
  /\ request[c].phase = "idle" /\ requests < MaxRequests
  /\ ~ContainsSubscription(subs, c, t)
  /\ DirectCount(subs, c) < MaxDirect
  /\ t \in Multis => subs.count[c] < MaxIndirect
  /\ request' = [request EXCEPT ![c] = [@ EXCEPT !.phase = "asked", !.topic = {t}]]
  /\ requests' = requests + 1
  /\ UNCHANGED <<feed, hub, subs, handler, held, environment>>

Refuse(c) ==
  /\ request[c].phase \in {"asked", "scanning"} /\ request[c].topic \subseteq Multis
  /\ request' = [request EXCEPT ![c] = Idle]
  /\ UNCHANGED <<feed, hub, subs, handler, held, requests, environment>>

(* Phase 2, no lock held: a multi-topic reads the index and then the       *)
(* values of the keys found, a key its value.  The index is scanned page   *)
(* by page, address by address: what was there at the start is found, what *)
(* is added meanwhile may be.                                              *)
Indexed(m) == index \cap Matches[m]

Scan(c) ==
  \E m \in request[c].topic \cap Multis :
    /\ request[c].phase = "asked"
    /\ request' = [request EXCEPT ![c] =
                     [@ EXCEPT !.phase = "scanning", !.keys = Indexed(m)]]
    /\ UNCHANGED <<feed, hub, subs, handler, held, requests, environment>>

Resolve(c) ==
  \E m \in request[c].topic \cap Multis : \E found \in SUBSET Indexed(m) :
    /\ request[c].phase = "scanning" /\ request[c].keys \subseteq found
    /\ request' =
         [request EXCEPT ![c] =
            IF Cardinality(found) > MaxSubtopics THEN Idle
            ELSE [@ EXCEPT !.phase = "resolved", !.keys = found]]
    /\ UNCHANGED <<feed, hub, subs, handler, held, requests, environment>>

Fetch(c) ==
  LET r    == request[c]
      keys == IF r.phase = "resolved" THEN r.keys ELSE r.topic
  IN  /\ \/ r.phase = "resolved"
         \/ r.phase = "asked" /\ r.topic \subseteq Keys
      /\ request' = [request EXCEPT ![c] =
                      [@ EXCEPT !.phase = "fetched",
                                !.values = [k \in Keys |-> IF k \in keys THEN redis[k] ELSE 0]]]
      /\ UNCHANGED <<feed, hub, subs, handler, held, requests, environment>>

(* Phase 3, under the topics and the client lock. *)
Register(c) ==
  LET r == request[c]
  IN  \E t \in r.topic :
        /\ r.phase = "fetched"
        /\ request' = [request EXCEPT ![c] = Idle]
        /\ IF \/ ContainsSubscription(subs, c, t)
              \/ t \in Multis /\ subs.count[c] + Cardinality(r.keys) > MaxIndirect
             THEN UNCHANGED <<hub, subs, held>>
             ELSE LET h == AddSubscription(hub, t, c)
                      s == [subs EXCEPT !.direct = @ \cup {<<c, t>>}]
                  IN  /\ hub' = IF t \in Keys THEN h
                                ELSE UpdateIndirect(UpdateMultitopicInfo(h, t, r.keys),
                                                    r.keys, t, c)
                      /\ subs' = IF t \in Keys THEN s ELSE AddSources(s, r.keys, t, c)
                      /\ held' = [held EXCEPT ![c] =
                                    [k \in Keys |-> IF r.values[k] > 0 THEN r.values[k] ELSE @[k]]]
        /\ UNCHANGED <<feed, handler, requests, environment>>

Unsubscribe(c, t) ==
  /\ request[c].phase = "idle" /\ requests < MaxRequests
  /\ ContainsSubscription(subs, c, t)
  /\ LET s == [subs EXCEPT !.direct = @ \ {<<c, t>>}]
     IN  subs' = IF t \in Keys THEN s ELSE RemoveSources(s, hub.subtopics[t], t, c)
  /\ hub' = Remove(hub, {t}, c)
  /\ requests' = requests + 1
  /\ UNCHANGED <<feed, request, handler, held, environment>>

(* The connection ends, whatever its task is awaiting: a close frame, an   *)
(* error, missed pings or a kill; on_disconnect then lists what is held.   *)
Close(c) ==
  /\ request[c].phase \notin {"closing", "gone"}
  /\ request' = [request EXCEPT ![c] = [Idle EXCEPT !.phase = "closing"]]
  /\ UNCHANGED <<feed, hub, subs, handler, held, requests, environment>>

(* on_disconnect under the topics lock.  What was listed as direct is what *)
(* is direct still: only the task itself, which is over, changes that.     *)
OnDisconnect(c) ==
  /\ request[c].phase = "closing"
  /\ hub' = Remove(hub, {t \in Topics : <<c, t>> \in subs.direct}, c)
  /\ subs' = [direct |-> {d \in subs.direct : d[1] # c},
              sources |-> {i \in subs.sources : i[1] # c},
              count |-> [subs.count EXCEPT ![c] = 0]]
  /\ request' = [request EXCEPT ![c] = [@ EXCEPT !.phase = "gone"]]
  /\ UNCHANGED <<feed, handler, held, requests, environment>>

-----------------------------------------------------------------------------
(* updates_handler.  expand_multitopics decides under the read lock that   *)
(* nothing gains the key, or decides again under the write lock: one step  *)
(* either way.  The multi-topics come in no particular order.              *)
Gaining(k) ==
  {m \in Multis : /\ k \in Matches[m] \ hub.subtopics[m]
                  /\ Cardinality(hub.subtopics[m]) < MaxSubtopics
                  /\ \E c \in Clients : <<c, m>> \in hub.direct}

(* Connections gain the key through a multi-topic while they have room,    *)
(* counting what the multi-topics of a lower rank gave them; a key that is *)
(* held through a multi-topic already does not count again.                *)
HasRoomAlways(c, k, earlier) == TRUE   \* mutant: the limit is forgotten

HasRoom(c, k, earlier) ==
  subs.count[c] + Cardinality({m \in earlier : /\ <<c, m>> \in hub.direct
                                                /\ <<c, k, m>> \notin subs.sources})
    < MaxIndirect

Gains(k, rank) ==
  {g \in Clients \X {k} \X DOMAIN rank :
     /\ <<g[1], g[3]>> \in hub.direct
     /\ HasRoom(g[1], k, {m \in DOMAIN rank : rank[m] < rank[g[3]]})}

Gain(k, gains) ==
  LET gained == {g[3] : g \in gains}
      new    == gains \ subs.sources
  IN  /\ hub' = [hub EXCEPT !.entries = @ \cup gained \cup {g[2] : g \in gains},
                            !.indirect = @ \cup gains,
                            !.subtopics = [m \in Multis |-> IF m \in gained THEN @[m] \cup {k} ELSE @[m]]]
      /\ subs' = [subs EXCEPT !.sources = @ \cup gains,
                              !.count = [c \in Clients |->
                                 @[c] + Cardinality({g \in new : g[1] = c})]]

Ranks(S) == Injection(S, 1..Cardinality(S))

Expand ==
  /\ handler.stage = "waiting" /\ queue # <<>>
  /\ LET k == Head(queue)[1]
     IN  \E rank \in Ranks(Gaining(k)) : Gain(k, Gains(k, rank))
  /\ handler' = [stage |-> "expanded", update |-> Head(queue), to |-> {}]
  /\ queue' = Tail(queue)
  /\ UNCHANGED <<redis, index, publisher, request, held, requests, environment>>

SubscribedDirectly(k) ==   \* mutant: get_subscribed_clients without indirect
  {c \in Clients : request[c].phase # "gone" /\ <<c, k>> \in hub.direct}

Subscribed(k) ==
  {c \in Clients : /\ request[c].phase # "gone"
                   /\ \/ <<c, k>> \in hub.direct
                      \/ \E m \in Multis : <<c, k, m>> \in hub.indirect}

Collect ==
  /\ handler.stage = "expanded"
  /\ LET to == Subscribed(handler.update[1])
     IN  handler' = IF to = {} THEN Waiting
                    ELSE [handler EXCEPT !.stage = "sending", !.to = to]
  /\ UNCHANGED <<feed, hub, subs, request, held, requests, environment>>

(* Client::send_update: nothing to a connection that unsubscribed since. *)
Deliver(c) ==
  LET k == handler.update[1]
      to == handler.to \ {c}
  IN  /\ handler.stage = "sending" /\ c \in handler.to
      /\ held' = IF ContainsSubscription(subs, c, k)
                   THEN [held EXCEPT ![c][k] = handler.update[2]] ELSE held
      /\ handler' = IF to = {} THEN Waiting ELSE [handler EXCEPT !.to = to]
      /\ UNCHANGED <<feed, hub, subs, request, requests, environment>>

Next ==
  \/ \E k \in Keys : Write(k) \/ Index(k) \/ Publish(k)
  \/ Lagged
  \/ \E c \in Clients, t \in Topics : Ask(c, t) \/ Unsubscribe(c, t)
  \/ \E c \in Clients : Refuse(c) \/ Scan(c) \/ Resolve(c) \/ Fetch(c) \/ Register(c)
  \/ \E c \in Clients : Close(c) \/ OnDisconnect(c)
  \/ Expand
  \/ Collect
  \/ \E c \in Clients : Deliver(c)

Spec == Init /\ [][Next]_vars

-----------------------------------------------------------------------------
\* The map has an entry for exactly the topics somebody is subscribed to.
NoIdleEntries == hub.entries = Mentioned(hub)

(* The connections and the shared map say the same, although the steps     *)
(* that change them (two locks, two files) are written one by one: what a  *)
(* connection holds is what the handler will send it, no entry is left     *)
(* over, and none that is used was removed.                                *)
SidesAgree ==
  LET Live(set) == {x \in set : request[x[1]].phase # "gone"}
  IN  /\ Live(hub.direct) = subs.direct /\ Live(hub.indirect) = subs.sources
      /\ NoIdleEntries

(* indirect_count, which both limits are checked against, is the number of *)
(* (key, multi-topic) pairs held and never above its limit, although the   *)
(* handler and the connection's own task add to it.                        *)
CountsAreExact ==
  \A c \in Clients :
    /\ subs.count[c] = Cardinality({i \in subs.sources : i[1] = c})
    /\ subs.count[c] <= MaxIndirect
    /\ DirectCount(subs, c) <= MaxDirect

(* An indirect subscription ends with the multi-topic it came from.  Holds *)
(* when no key is set or indexed between a subscribe's read and its        *)
(* registration; otherwise a stale resolution replaces the shared          *)
(* subtopics, and keys that are missing from it are never detached.        *)
DetachedWithMultitopic ==
  environment # "any" => \A i \in hub.indirect : <<i[1], i[3]>> \in hub.direct

(* README.md: clients "receive the current value (subscribed) and every    *)
(* change (update)": with nothing under way, a subscriber was last sent    *)
(* what Redis holds, as long as keys are not set or indexed between a      *)
(* subscribe's read and its registration.                                  *)
WindowlessIsCurrent ==
  environment # "any" /\ publisher = Ready /\ queue = <<>> /\ handler = Waiting =>
    \A c \in Clients, k \in Keys :
      request[c].phase # "gone" /\ ContainsSubscription(subs, c, k)
        => held[c][k] = redis[k]
=============================================================================
