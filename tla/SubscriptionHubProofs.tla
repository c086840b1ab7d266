------------------------ MODULE SubscriptionHubProofs ------------------------
(***************************************************************************)
(* Proofs about SubscriptionHub, for any connections, keys, multi-topics   *)
(* and limits.                                                             *)
(***************************************************************************)
EXTENDS SubscriptionHub, FiniteSetTheorems, WellFoundedInduction, TLAPS

USE DEF feed

Asking == {"asked", "scanning", "resolved", "fetched"}
Reading == {"scanning", "resolved", "fetched"}

RequestType == [phase : Phases, topic : SUBSET Topics,
                keys : SUBSET Keys, values : [Keys -> Nat]]
HubType == [entries : SUBSET Topics,
            direct : SUBSET (Clients \X Topics),
            indirect : SUBSET (Clients \X Keys \X Multis),
            subtopics : [Multis -> SUBSET Keys]]
SubsType == [direct : SUBSET (Clients \X Topics),
             sources : SUBSET (Clients \X Keys \X Multis),
             count : [Clients -> Nat]]

(* A request is for one topic, and only a multi-topic is resolved. *)
RequestOK(r) ==
  /\ r.phase \in Asking => \E t \in Topics : r.topic = {t}
  /\ r.phase \in {"scanning", "resolved"} => r.topic \subseteq Multis

Shapes == TypeOK /\ \A c \in Clients : RequestOK(request[c])

(* A connection and the map hold the same; the map also has what a stale   *)
(* resolution left behind of connections that are gone.                    *)
Sides ==
  /\ hub.direct = subs.direct
  /\ \A d \in subs.direct : request[d[1]].phase # "gone"
  /\ {i \in hub.indirect : request[i[1]].phase # "gone"} = subs.sources
  /\ hub.entries = Mentioned(hub)

(* The limits, and the room a subscribe found when it was asked. *)
SourcesOf(s, c) == {i \in s.sources : i[1] = c}
DirectOf(s, c) == {d \in s.direct : d[1] = c}

Limits ==
  /\ IsFiniteSet(subs.direct) /\ IsFiniteSet(subs.sources)
  /\ \A c \in Clients :
       /\ subs.count[c] = Cardinality(SourcesOf(subs, c))
       /\ subs.count[c] <= MaxIndirect
       /\ Cardinality(DirectOf(subs, c)) <= MaxDirect
       /\ request[c].phase \in Asking => Cardinality(DirectOf(subs, c)) < MaxDirect

(* What is queued is indexed and was set, the values of a key are in order *)
(* and the one that BPS is with comes after them.                          *)
InOrder ==
  /\ \A i \in 1..Len(queue) : queue[i][1] \in index /\ queue[i][2] <= redis[queue[i][1]]
  /\ \A i, j \in 1..Len(queue) :
       i < j /\ queue[i][1] = queue[j][1] => queue[i][2] < queue[j][2]

Publishing ==
  /\ publisher.stage = "indexed" => publisher.key \in index
  /\ publisher # Ready =>
       \A i \in 1..Len(queue) :
         queue[i][1] = publisher.key => queue[i][2] < redis[publisher.key]

Order ==
  /\ InOrder /\ Publishing
  /\ handler # Waiting => handler.update[2] <= redis[handler.update[1]]

(* What is resolved is in the index. *)
Resolved ==
  /\ \A m \in Multis : hub.subtopics[m] \subseteq Indexed(m)
  /\ \A c \in Clients, m \in Multis :
       request[c].phase \in Reading /\ request[c].topic = {m} => request[c].keys \subseteq Indexed(m)

(* Without writes between a subscribe's reads and its registration, what   *)
(* it read is still so when it registers.                                  *)
Wanted(r) == IF r.topic \subseteq Keys THEN r.topic ELSE r.keys

Fresh ==
  \A c \in Clients :
    /\ \A m \in Multis :
         request[c].phase \in Reading /\ request[c].topic = {m} => Indexed(m) \subseteq request[c].keys
    /\ request[c].phase = "fetched"
         => request[c].values = [k \in Keys |-> IF k \in Wanted(request[c]) THEN redis[k] ELSE 0]

Attached ==
  \A i \in hub.indirect : <<i[1], i[3]>> \in hub.direct /\ i[2] \in hub.subtopics[i[3]]

(* The newest value of a key is on its way to whoever does not have it. *)
Among(q, p, k, v) == (\E i \in 1..Len(q) : q[i] = <<k, v>>) \/ (p # Ready /\ p.key = k)
Queued(k) == Among(queue, publisher, k, redis[k])

Newest ==
  /\ \A i \in 1..Len(queue) : Queued(queue[i][1])
  /\ handler # Waiting =>
       \/ handler.update[2] = redis[handler.update[1]]
       \/ Queued(handler.update[1])

InFlight(c, k) ==
  \/ Queued(k)
  \/ handler.stage = "expanded" /\ handler.update = <<k, redis[k]>>
  \/ handler.stage = "sending" /\ handler.update = <<k, redis[k]>> /\ c \in handler.to

Current ==
  \A c \in Clients, k \in Keys :
    /\ held[c][k] <= redis[k]
    /\ ContainsSubscription(subs, c, k) => held[c][k] = redis[k] \/ InFlight(c, k)

Windowless == environment # "any" => Fresh /\ Attached /\ Newest /\ Current

IInv == Shapes /\ Sides /\ Limits /\ Order /\ Resolved /\ Windowless
-----------------------------------------------------------------------------
(* The operations on the map and on a connection's subscriptions, by field. *)
(* What removing topics leaves of the indirect subscriptions. *)
Kept(h, set, topics, c) ==
  {i \in set : i[1] # c \/ i[3] \notin topics \/ i[2] \notin h.subtopics[i[3]]}

MapWithout(h, r, topics, c) ==
  /\ r \in HubType
  /\ r.direct = h.direct \ ({c} \X topics)
  /\ r.indirect = Kept(h, h.indirect, topics, c)
  /\ \A m \in Multis : /\ r.subtopics[m] \subseteq h.subtopics[m]
                       /\ m \in Mentioned(r) => r.subtopics[m] = h.subtopics[m]
  /\ h.entries = Mentioned(h) => r.entries = Mentioned(r)

LEMMA RemoveFields ==
  ASSUME NEW h \in HubType, NEW topics \in SUBSET Topics, NEW c
  PROVE  MapWithout(h, Remove(h, topics, c), topics, c)
<1>. SUFFICES ASSUME NEW r, r = Remove(h, topics, c)
              PROVE  MapWithout(h, r, topics, c)
  OBVIOUS
<1>. DEFINE Dir   == h.direct \ ({c} \X topics)
            Ind   == {i \in h.indirect : \/ i[1] # c \/ i[3] \notin topics
                                         \/ i[2] \notin h.subtopics[i[3]]}
            Names == {d[2] : d \in Dir} \cup {i[2] : i \in Ind}
            Gone  == (topics \cup KeysThrough(h, topics)) \ Names
            Sub   == [m \in Multis |-> IF m \in Gone THEN {} ELSE h.subtopics[m]]
<1>1. r = [entries |-> h.entries \ Gone, direct |-> Dir, indirect |-> Ind, subtopics |-> Sub]
  BY DEF Remove, Prune, Mentioned, HubType
<1>2. Mentioned(r) = Names
  BY <1>1 DEF Mentioned
<1>3. r \in HubType
  <2>1. Dir \subseteq Clients \X Topics /\ Ind \subseteq Clients \X Keys \X Multis
    BY DEF HubType
  <2>2. Sub \in [Multis -> SUBSET Keys]
    BY DEF HubType
  <2>3. h.entries \ Gone \in SUBSET Topics
    BY DEF HubType
  <2>. QED BY <1>1, <2>1, <2>2, <2>3 DEF HubType
<1>4. ASSUME h.entries = Mentioned(h) PROVE h.entries \ Gone = Names
  <2>1. Names \subseteq Mentioned(h)
    BY DEF Mentioned
  <2>2. ASSUME NEW t \in Mentioned(h), t \notin Names
        PROVE  t \in topics \cup KeysThrough(h, topics)
    <3>1. CASE \E d \in h.direct : t = d[2]
      <4>1. PICK d \in h.direct : t = d[2]
        BY <3>1
      <4>2. d \in {c} \X topics
        BY <2>2, <4>1
      <4>. QED BY <4>1, <4>2
    <3>2. CASE \E i \in h.indirect : t = i[2]
      <4>1. PICK i \in h.indirect : t = i[2]
        BY <3>2
      <4>2. i[3] \in topics /\ i[2] \in h.subtopics[i[3]]
        BY <2>2, <4>1
      <4>3. i[3] \in Multis
        BY DEF HubType
      <4>. QED BY <4>1, <4>2, <4>3 DEF KeysThrough
    <3>. QED BY <2>2, <3>1, <3>2 DEF Mentioned
  <2>. QED BY <1>4, <2>1, <2>2
<1>. HIDE DEF Names
<1>5. \A m \in Multis : /\ Sub[m] \subseteq h.subtopics[m]
                        /\ m \in Names => Sub[m] = h.subtopics[m]
  OBVIOUS
<1>. HIDE DEF Dir, Ind, Sub, Gone
<1>6. r.direct = Dir /\ r.indirect = Ind /\ r.subtopics = Sub /\ r.entries = h.entries \ Gone
  BY <1>1
<1>. QED BY <1>2, <1>3, <1>4, <1>5, <1>6 DEF Dir, Ind, MapWithout, Kept

LEMMA AddSecond ==
  ASSUME NEW A, NEW a, NEW b
  PROVE  {d[2] : d \in A \cup {<<a, b>>}} = {d[2] : d \in A} \cup {b}
<1>1. <<a, b>>[2] = b
  OBVIOUS
<1>2. ASSUME NEW x, x \in {d[2] : d \in A \cup {<<a, b>>}} PROVE x \in {d[2] : d \in A} \cup {b}
  <2>1. PICK d \in A \cup {<<a, b>>} : x = d[2]
    BY <1>2
  <2>2. CASE d \in A
    BY <2>1, <2>2
  <2>3. CASE d = <<a, b>>
    BY <1>1, <2>1, <2>3
  <2>. QED BY <2>2, <2>3
<1>3. b \in {d[2] : d \in A \cup {<<a, b>>}}
  <2>1. <<a, b>> \in A \cup {<<a, b>>}
    OBVIOUS
  <2>. QED BY <1>1, <2>1
<1>4. {d[2] : d \in A} \subseteq {d[2] : d \in A \cup {<<a, b>>}}
  OBVIOUS
<1>. QED BY <1>2, <1>3, <1>4

(* What one subscribe adds to the map: a topic, and a multi-topic's keys. *)
Registered(h, t, keys, c) ==
  IF t \in Keys THEN AddSubscription(h, t, c)
  ELSE UpdateIndirect(UpdateMultitopicInfo(AddSubscription(h, t, c), t, keys), keys, t, c)

MapWith(h, r, t, keys, c) ==
  /\ r \in HubType
  /\ r.direct = h.direct \cup {<<c, t>>}
  /\ t \in Keys => r.indirect = h.indirect /\ r.subtopics = h.subtopics
  /\ t \in Multis =>
       /\ r.indirect = h.indirect \cup ({c} \X keys \X {t})
       /\ r.subtopics = [h.subtopics EXCEPT ![t] = keys]
  /\ h.entries = Mentioned(h) => r.entries = Mentioned(r)

LEMMA RegisteredFields ==
  ASSUME NEW h \in HubType, NEW t \in Topics, NEW keys \in SUBSET Keys, NEW c \in Clients, Keys \cap Multis = {}
  PROVE  MapWith(h, Registered(h, t, keys, c), t, keys, c)
<1>. SUFFICES ASSUME NEW r, r = Registered(h, t, keys, c)
              PROVE  MapWith(h, r, t, keys, c)
  OBVIOUS
<1>1. CASE t \in Keys
  <2>1. r = [entries |-> h.entries \cup {t}, direct |-> h.direct \cup {<<c, t>>},
             indirect |-> h.indirect, subtopics |-> h.subtopics]
    BY <1>1 DEF Registered, AddSubscription, HubType
  <2>2. r \in HubType
    BY <2>1 DEF HubType, Topics
  <2>3. Mentioned(r) = Mentioned(h) \cup {t}
    <3>1. r.direct = h.direct \cup {<<c, t>>} /\ r.indirect = h.indirect
      BY <2>1
    <3>2. {d[2] : d \in h.direct \cup {<<c, t>>}} = {d[2] : d \in h.direct} \cup {t}
      BY AddSecond
    <3>. QED BY <3>1, <3>2 DEF Mentioned
  <2>4. t \notin Multis
    BY <1>1
  <2>5. /\ r.entries = h.entries \cup {t} /\ r.direct = h.direct \cup {<<c, t>>}
        /\ r.indirect = h.indirect /\ r.subtopics = h.subtopics
    BY <2>1
  <2>. QED BY <2>2, <2>3, <2>4, <2>5 DEF MapWith
<1>2. CASE t \in Multis
  <2>1. r = [entries |-> h.entries \cup {t} \cup {t} \cup keys, direct |-> h.direct \cup {<<c, t>>},
             indirect |-> h.indirect \cup ({c} \X keys \X {t}),
             subtopics |-> [h.subtopics EXCEPT ![t] = keys]]
    BY <1>2 DEF Registered, AddSubscription, UpdateMultitopicInfo, UpdateIndirect, HubType
  <2>2. r \in HubType
    <3>1. [h.subtopics EXCEPT ![t] = keys] \in [Multis -> SUBSET Keys]
      BY <1>2 DEF HubType
    <3>2. h.indirect \cup ({c} \X keys \X {t}) \subseteq Clients \X Keys \X Multis
      BY <1>2 DEF HubType
    <3>3. h.entries \cup {t} \cup {t} \cup keys \subseteq Topics
      BY DEF HubType, Topics
    <3>4. h.direct \cup {<<c, t>>} \subseteq Clients \X Topics
      BY DEF HubType
    <3>. QED BY <2>1, <3>1, <3>2, <3>3, <3>4 DEF HubType
  <2>3. Mentioned(r) = Mentioned(h) \cup {t} \cup keys
    <3>1. {i[2] : i \in {c} \X keys \X {t}} = keys
      <4>1. \A k \in keys : <<c, k, t>> \in {c} \X keys \X {t} /\ <<c, k, t>>[2] = k
        OBVIOUS
      <4>. QED BY <4>1
    <3>2. {d[2] : d \in r.direct} = {d[2] : d \in h.direct} \cup {t}
      <4>1. {d[2] : d \in h.direct \cup {<<c, t>>}} = {d[2] : d \in h.direct} \cup {t}
        BY AddSecond
      <4>. QED BY <2>1, <4>1
    <3>3. {i[2] : i \in r.indirect} = {i[2] : i \in h.indirect} \cup keys
      BY <2>1, <3>1
    <3>. QED BY <3>2, <3>3 DEF Mentioned
  <2>4. t \notin Keys
    BY <1>2
  <2>5. /\ r.entries = h.entries \cup {t} \cup {t} \cup keys /\ r.direct = h.direct \cup {<<c, t>>}
        /\ r.indirect = h.indirect \cup ({c} \X keys \X {t})
        /\ r.subtopics = [h.subtopics EXCEPT ![t] = keys]
    BY <2>1
  <2>. QED BY <2>2, <2>3, <2>4, <2>5 DEF MapWith
<1>. QED BY <1>1, <1>2 DEF Topics, MapWith

SourcesWith(s, r, keys, m, c) ==
  /\ r \in SubsType
  /\ r.direct = s.direct
  /\ r.sources = s.sources \cup ({c} \X keys \X {m})
  /\ r.count = [s.count EXCEPT ![c] = @ + Cardinality(({c} \X keys \X {m}) \ s.sources)]
  /\ IsFiniteSet({c} \X keys \X {m})
  /\ Cardinality({c} \X keys \X {m}) <= Cardinality(keys)

LEMMA AddSourcesFields ==
  ASSUME NEW s \in SubsType, NEW keys \in SUBSET Keys, NEW m \in Multis, NEW c \in Clients,
         IsFiniteSet(keys)
  PROVE  SourcesWith(s, AddSources(s, keys, m, c), keys, m, c)
<1>. SUFFICES ASSUME NEW r, r = AddSources(s, keys, m, c)
              PROVE  SourcesWith(s, r, keys, m, c)
  OBVIOUS
<1>. DEFINE T   == {c} \X keys \X {m}
            New == T \ s.sources
            f   == [k \in keys |-> <<c, k, m>>]
<1>1. f \in Surjection(keys, T)
  <2>1. f \in [keys -> T]
    OBVIOUS
  <2>2. \A x \in T : \E k \in keys : f[k] = x
    <3>. TAKE x \in T
    <3>1. x[2] \in keys /\ f[x[2]] = x
      OBVIOUS
    <3>. QED BY <3>1
  <2>. HIDE DEF f, T
  <2>. QED BY <2>1, <2>2 DEF Surjection
<1>2. IsFiniteSet(T) /\ Cardinality(T) <= Cardinality(keys)
  <2>. HIDE DEF f, T
  <2>. QED BY <1>1, FS_Surjection
<1>3. IsFiniteSet(New) /\ Cardinality(New) \in Nat
  <2>1. IsFiniteSet(New)
    <3>. HIDE DEF T
    <3>. QED BY <1>2, FS_Difference
  <2>. HIDE DEF New
  <2>. QED BY <2>1, FS_CardinalityType
<1>4. r = [direct |-> s.direct, sources |-> s.sources \cup New,
           count |-> [s.count EXCEPT ![c] = @ + Cardinality(New)]]
  BY DEF AddSources, SubsType
<1>5. s.sources \cup New = s.sources \cup T
  OBVIOUS
<1>6. s.sources \cup T \subseteq Clients \X Keys \X Multis
  BY DEF SubsType
<1>7. [s.count EXCEPT ![c] = @ + Cardinality(New)] \in [Clients -> Nat]
  <2>. HIDE DEF New
  <2>. QED BY <1>3 DEF SubsType
<1>8. r \in SubsType
  <2>. HIDE DEF New, T
  <2>. QED BY <1>4, <1>5, <1>6, <1>7 DEF SubsType
<1>9. r.count = [s.count EXCEPT ![c] = @ + Cardinality(New)] /\ r.sources = s.sources \cup T
      /\ r.direct = s.direct
  <2>. HIDE DEF New, T
  <2>. QED BY <1>4, <1>5
<1>. QED BY <1>2, <1>8, <1>9 DEF SourcesWith

SourcesWithout(s, r, keys, m, c) ==
  /\ r \in SubsType
  /\ r.direct = s.direct
  /\ r.sources = s.sources \ ({c} \X keys \X {m})
  /\ r.count[c] = Cardinality(SourcesOf(r, c)) /\ r.count[c] <= s.count[c]
  /\ \A d \in Clients \ {c} : r.count[d] = s.count[d] /\ SourcesOf(r, d) = SourcesOf(s, d)

LEMMA RemoveSourcesFields ==
  ASSUME NEW s \in SubsType, NEW keys, NEW m \in Multis, NEW c \in Clients,
         IsFiniteSet(s.sources), s.count[c] = Cardinality(SourcesOf(s, c))
  PROVE  SourcesWithout(s, RemoveSources(s, keys, m, c), keys, m, c)
<1>. SUFFICES ASSUME NEW r, r = RemoveSources(s, keys, m, c)
              PROVE  SourcesWithout(s, r, keys, m, c)
  OBVIOUS
<1>. DEFINE Old  == ({c} \X keys \X {m}) \cap s.sources
            Mine == SourcesOf(s, c)
<1>1. Old \subseteq Mine /\ Mine \subseteq s.sources
  BY DEF SourcesOf
<1>2. IsFiniteSet(Mine) /\ IsFiniteSet(Old)
  <2>. HIDE DEF Old, Mine
  <2>. QED BY <1>1, FS_Subset
<1>3. /\ Cardinality(Mine \ Old) = Cardinality(Mine) - Cardinality(Old)
      /\ Cardinality(Mine) \in Nat /\ Cardinality(Old) \in Nat /\ Cardinality(Mine \ Old) \in Nat
  <2>. HIDE DEF Old, Mine
  <2>1. Mine \cap Old = Old
    BY <1>1
  <2>2. IsFiniteSet(Mine \ Old) /\ Cardinality(Mine \ Old) = Cardinality(Mine) - Cardinality(Mine \cap Old)
    BY <1>2, FS_Difference
  <2>. QED BY <1>2, <2>1, <2>2, FS_CardinalityType
<1>4. r = [direct |-> s.direct, sources |-> s.sources \ Old,
           count |-> [s.count EXCEPT ![c] = @ - Cardinality(Old)]]
  BY DEF RemoveSources, SubsType
<1>5. s.sources \ Old = s.sources \ ({c} \X keys \X {m})
  OBVIOUS
<1>6. SourcesOf(r, c) = Mine \ Old
  <2>1. r.sources = s.sources \ Old
    <3>. HIDE DEF Old
    <3>. QED BY <1>4
  <2>. QED BY <2>1 DEF SourcesOf
<1>7. \A d \in Clients \ {c} : SourcesOf(r, d) = SourcesOf(s, d)
  <2>1. r.sources = s.sources \ Old
    <3>. HIDE DEF Old
    <3>. QED BY <1>4
  <2>. QED BY <2>1 DEF SourcesOf
<1>. HIDE DEF Old, Mine
<1>8. s.count[c] - Cardinality(Old) = Cardinality(Mine \ Old)
  BY <1>3 DEF Mine
<1>9. r.count = [s.count EXCEPT ![c] = Cardinality(Mine \ Old)]
  BY <1>4, <1>8
<1>10. r.count \in [Clients -> Nat]
  BY <1>3, <1>9 DEF SubsType
<1>11. r.direct = s.direct /\ r.sources = s.sources \ Old
  BY <1>4
<1>12. r \in SubsType
  BY <1>4, <1>9, <1>10 DEF SubsType
<1>13. s.count[c] = Cardinality(Mine)
  BY DEF Mine
<1>14. r.count[c] = Cardinality(Mine \ Old) /\ \A d \in Clients \ {c} : r.count[d] = s.count[d]
  BY <1>9 DEF SubsType
<1>. QED BY <1>3, <1>5, <1>6, <1>7, <1>11, <1>12, <1>13, <1>14 DEF SourcesWithout

-----------------------------------------------------------------------------
(* The actions that change subscriptions, by field. *)
LEMMA Constants ==
  /\ Keys \cap Multis = {} /\ IsFiniteSet(Keys) /\ IsFiniteSet(Clients)
  /\ Matches \in [Multis -> SUBSET Keys]
  /\ MaxDirect \in Nat /\ MaxIndirect \in Nat /\ MaxSubtopics \in Nat
BY HubAssumption

Others == <<feed, handler, requests, environment>>

Through(c, t, keys) == IF t \in Multis THEN {c} \X keys \X {t} ELSE {}

RegisterDone(c, t) ==
  LET keys == request[c].keys
      new  == Through(c, t, keys)
  IN  /\ ~ ContainsSubscription(subs, c, t)
      /\ hub' \in HubType /\ subs' \in SubsType
      /\ hub'.direct = hub.direct \cup {<<c, t>>}
      /\ subs'.direct = subs.direct \cup {<<c, t>>}
      /\ hub'.indirect = hub.indirect \cup new
      /\ subs'.sources = subs.sources \cup new
      /\ hub'.subtopics = IF t \in Multis THEN [hub.subtopics EXCEPT ![t] = keys] ELSE hub.subtopics
      /\ hub.entries = Mentioned(hub) => hub'.entries = Mentioned(hub')
      /\ IsFiniteSet(new)
      /\ t \in Keys => subs'.count = subs.count
      /\ t \in Multis => /\ subs'.count = [subs.count EXCEPT ![c] = @ + Cardinality(new \ subs.sources)]
                         /\ subs.count[c] + Cardinality(new) <= MaxIndirect
      /\ held' = [held EXCEPT ![c] = [k \in Keys |-> IF request[c].values[k] > 0
                                                      THEN request[c].values[k] ELSE held[c][k]]]

LEMMA RegisterFields ==
  ASSUME Shapes, NEW c \in Clients, Register(c)
  PROVE  \E t \in Topics :
           /\ request[c].topic = {t} /\ request[c].phase = "fetched"
           /\ request' = [request EXCEPT ![c] = Idle]
           /\ UNCHANGED Others
           /\ UNCHANGED <<hub, subs, held>> \/ RegisterDone(c, t)
<1>. DEFINE keys == request[c].keys
<1>1. /\ request[c] \in RequestType /\ hub \in HubType /\ subs \in SubsType
      /\ held \in [Clients -> [Keys -> Nat]]
  BY DEF Shapes, TypeOK, RequestType, HubType, SubsType
<1>2. PICK t \in request[c].topic :
        /\ request[c].phase = "fetched"
        /\ request' = [request EXCEPT ![c] = Idle]
        /\ IF \/ ContainsSubscription(subs, c, t)
              \/ t \in Multis /\ subs.count[c] + Cardinality(keys) > MaxIndirect
             THEN UNCHANGED <<hub, subs, held>>
             ELSE LET h == AddSubscription(hub, t, c)
                      s == [subs EXCEPT !.direct = @ \cup {<<c, t>>}]
                  IN  /\ hub' = IF t \in Keys THEN h
                                ELSE UpdateIndirect(UpdateMultitopicInfo(h, t, keys),
                                                    keys, t, c)
                      /\ subs' = IF t \in Keys THEN s ELSE AddSources(s, keys, t, c)
                      /\ held' = [held EXCEPT ![c] =
                                    [k \in Keys |-> IF request[c].values[k] > 0
                                                      THEN request[c].values[k] ELSE @[k]]]
        /\ UNCHANGED Others
  BY DEF Register, Others
<1>3. request[c].topic = {t} /\ t \in Topics
  <2>1. \E u \in Topics : request[c].topic = {u}
    BY <1>2 DEF Shapes, RequestOK, Asking
  <2>. QED BY <2>1
<1>4. keys \in SUBSET Keys /\ IsFiniteSet(keys) /\ Cardinality(keys) \in Nat
  <2>1. keys \in SUBSET Keys
    BY <1>1 DEF RequestType
  <2>2. IsFiniteSet(keys)
    <3>. HIDE DEF keys
    <3>. QED BY <2>1, Constants, FS_Subset
  <2>. HIDE DEF keys
  <2>. QED BY <2>1, <2>2, FS_CardinalityType
<1>5. SUFFICES ASSUME ~ ContainsSubscription(subs, c, t),
                      t \in Multis => ~ (subs.count[c] + Cardinality(keys) > MaxIndirect)
               PROVE  RegisterDone(c, t)
  BY <1>2, <1>3
<1>. DEFINE s == [subs EXCEPT !.direct = @ \cup {<<c, t>>}]
<1>6. /\ hub' = Registered(hub, t, keys, c)
      /\ subs' = IF t \in Keys THEN s ELSE AddSources(s, keys, t, c)
      /\ held' = [held EXCEPT ![c] = [k \in Keys |-> IF request[c].values[k] > 0
                                                      THEN request[c].values[k] ELSE held[c][k]]]
  BY <1>1, <1>2, <1>5 DEF Registered
<1>7. /\ s \in SubsType /\ s.direct = subs.direct \cup {<<c, t>>}
      /\ s.sources = subs.sources /\ s.count = subs.count
  <2>1. subs.direct \cup {<<c, t>>} \subseteq Clients \X Topics
    BY <1>1, <1>3 DEF SubsType
  <2>. QED BY <1>1, <2>1 DEF SubsType
<1>8. subs.count[c] \in Nat
  BY <1>1 DEF SubsType
<1>. HIDE DEF s, keys
<1>11. MapWith(hub, hub', t, keys, c)
  BY <1>1, <1>3, <1>4, <1>6, Constants, RegisteredFields
<1>9. CASE t \in Keys
  <2>1. subs' = s /\ t \notin Multis
    BY <1>6, <1>9, Constants
  <2>2. /\ hub' \in HubType /\ hub'.direct = hub.direct \cup {<<c, t>>}
        /\ hub'.indirect = hub.indirect /\ hub'.subtopics = hub.subtopics
        /\ hub.entries = Mentioned(hub) => hub'.entries = Mentioned(hub')
    BY <1>9, <1>11 DEF MapWith
  <2>3. Through(c, t, keys) = {} /\ IsFiniteSet({})
    BY <2>1, FS_EmptySet DEF Through
  <2>. QED BY <1>5, <1>6, <1>7, <2>1, <2>2, <2>3 DEF RegisterDone, keys
<1>10. CASE t \in Multis
  <2>1. subs' = AddSources(s, keys, t, c) /\ t \notin Keys
    BY <1>6, <1>10, Constants
  <2>2. /\ hub' \in HubType /\ hub'.direct = hub.direct \cup {<<c, t>>}
        /\ hub'.indirect = hub.indirect \cup ({c} \X keys \X {t})
        /\ hub'.subtopics = [hub.subtopics EXCEPT ![t] = keys]
        /\ hub.entries = Mentioned(hub) => hub'.entries = Mentioned(hub')
    BY <1>10, <1>11 DEF MapWith
  <2>3. Through(c, t, keys) = {c} \X keys \X {t}
    BY <1>10 DEF Through
  <2>7. SourcesWith(s, subs', keys, t, c)
    BY <1>4, <1>7, <1>10, <2>1, AddSourcesFields
  <2>4. /\ subs' \in SubsType /\ subs'.direct = s.direct
        /\ subs'.sources = s.sources \cup Through(c, t, keys)
        /\ subs'.count = [s.count EXCEPT ![c] = @ + Cardinality(Through(c, t, keys) \ s.sources)]
        /\ IsFiniteSet(Through(c, t, keys)) /\ Cardinality(Through(c, t, keys)) <= Cardinality(keys)
    BY <2>3, <2>7 DEF SourcesWith
  <2>5. Cardinality(Through(c, t, keys)) \in Nat
    BY <2>4, FS_CardinalityType
  <2>6. subs.count[c] + Cardinality(Through(c, t, keys)) <= MaxIndirect
    BY <1>4, <1>5, <1>8, <1>10, <2>4, <2>5, Constants
  <2>. QED BY <1>5, <1>6, <1>7, <1>10, <2>1, <2>2, <2>3, <2>4, <2>6 DEF RegisterDone, keys
<1>. QED BY <1>3, <1>9, <1>10 DEF Topics

LEMMA MapRemoves ==
  ASSUME Shapes, NEW c \in Clients, NEW topics \in SUBSET Topics, hub' = Remove(hub, topics, c)
  PROVE  MapWithout(hub, hub', topics, c)
<1>1. hub \in HubType
  BY DEF Shapes, TypeOK, HubType
<1>. QED BY <1>1, RemoveFields

LEMMA UnsubscribeFields ==
  ASSUME Shapes, Limits, NEW c \in Clients, NEW t \in Topics, Unsubscribe(c, t)
  PROVE  /\ MapWithout(hub, hub', {t}, c)
         /\ subs' \in SubsType
         /\ subs'.direct = subs.direct \ {<<c, t>>}
         /\ subs'.sources = Kept(hub, subs.sources, {t}, c)
         /\ subs'.count[c] = Cardinality(SourcesOf(subs', c)) /\ subs'.count[c] <= subs.count[c]
         /\ \A d \in Clients \ {c} : /\ subs'.count[d] = subs.count[d]
                                     /\ SourcesOf(subs', d) = SourcesOf(subs, d)
<1>. DEFINE s == [subs EXCEPT !.direct = @ \ {<<c, t>>}]
<1>1. subs \in SubsType /\ hub \in HubType
  BY DEF Shapes, TypeOK, HubType, SubsType
<1>2. /\ s \in SubsType /\ s.direct = subs.direct \ {<<c, t>>}
      /\ s.sources = subs.sources /\ s.count = subs.count
  BY <1>1 DEF SubsType
<1>3. /\ subs' = IF t \in Keys THEN s ELSE RemoveSources(s, hub.subtopics[t], t, c)
      /\ hub' = Remove(hub, {t}, c)
  BY DEF Unsubscribe
<1>4. MapWithout(hub, hub', {t}, c)
  BY <1>3, MapRemoves
<1>5. SourcesOf(s, c) = SourcesOf(subs, c) /\ \A d \in Clients : SourcesOf(s, d) = SourcesOf(subs, d)
  BY <1>2 DEF SourcesOf
<1>6. \A i \in subs.sources : i[3] \in Multis
  BY <1>1 DEF SubsType
<1>. HIDE DEF s
<1>7. subs.count[c] = Cardinality(SourcesOf(subs, c)) /\ subs.count[c] \in Nat /\ IsFiniteSet(subs.sources)
  BY <1>1 DEF Limits, SubsType
<1>8. CASE t \in Keys
  <2>1. subs' = s /\ t \notin Multis
    BY <1>3, <1>8, Constants
  <2>2. subs'.sources = Kept(hub, subs.sources, {t}, c)
    BY <1>2, <1>6, <2>1 DEF Kept
  <2>. QED BY <1>2, <1>4, <1>5, <1>7, <2>1, <2>2
<1>9. CASE t \in Multis
  <2>. DEFINE keys == hub.subtopics[t]
  <2>1. subs' = RemoveSources(s, keys, t, c)
    BY <1>3, <1>9, Constants
  <2>2. s.count[c] = Cardinality(SourcesOf(s, c))
    BY <1>2, <1>5, <1>7
  <2>. HIDE DEF keys
  <2>5. SourcesWithout(s, subs', keys, t, c)
    BY <1>2, <1>7, <1>9, <2>1, <2>2, RemoveSourcesFields
  <2>3. /\ subs' \in SubsType /\ subs'.direct = s.direct
        /\ subs'.sources = s.sources \ ({c} \X keys \X {t})
        /\ subs'.count[c] = Cardinality(SourcesOf(subs', c)) /\ subs'.count[c] <= s.count[c]
        /\ \A d \in Clients \ {c} : subs'.count[d] = s.count[d] /\ SourcesOf(subs', d) = SourcesOf(s, d)
    BY <2>5 DEF SourcesWithout
  <2>4. subs.sources \ ({c} \X keys \X {t}) = Kept(hub, subs.sources, {t}, c)
    <3>1. ASSUME NEW i \in subs.sources
          PROVE  i \in {c} \X keys \X {t} <=> i[1] = c /\ i[3] \in {t} /\ i[2] \in hub.subtopics[i[3]]
      BY <1>1 DEF SubsType, keys
    <3>. QED BY <3>1 DEF Kept
  <2>. QED BY <1>2, <1>4, <1>5, <2>3, <2>4
<1>. QED BY <1>8, <1>9 DEF Topics

LEMMA OnDisconnectFields ==
  ASSUME Shapes, Sides, NEW c \in Clients, OnDisconnect(c)
  PROVE  LET topics == {t \in Topics : <<c, t>> \in subs.direct}
         IN  /\ topics \subseteq Topics
             /\ MapWithout(hub, hub', topics, c)
             /\ hub'.direct = {d \in subs.direct : d[1] # c}
             /\ subs' \in SubsType
             /\ subs'.direct = {d \in subs.direct : d[1] # c}
             /\ subs'.sources = {i \in subs.sources : i[1] # c}
             /\ subs'.count = [subs.count EXCEPT ![c] = 0]
             /\ request' = [request EXCEPT ![c] = [@ EXCEPT !.phase = "gone"]]
             /\ request[c].phase = "closing"
<1>. DEFINE topics == {t \in Topics : <<c, t>> \in subs.direct}
<1>1. subs \in SubsType /\ hub \in HubType
  BY DEF Shapes, TypeOK, HubType, SubsType
<1>2. hub' = Remove(hub, topics, c) /\ topics \in SUBSET Topics
  BY DEF OnDisconnect
<1>3. MapWithout(hub, hub', topics, c)
  <2>. HIDE DEF topics
  <2>. QED BY <1>2, MapRemoves
<1>4. subs.direct \ ({c} \X topics) = {d \in subs.direct : d[1] # c}
  BY <1>1 DEF SubsType
<1>5. hub'.direct = {d \in subs.direct : d[1] # c}
  BY <1>3, <1>4 DEF MapWithout, Sides
<1>6. subs' = [direct |-> {d \in subs.direct : d[1] # c},
               sources |-> {i \in subs.sources : i[1] # c},
               count |-> [subs.count EXCEPT ![c] = 0]]
  BY DEF OnDisconnect
<1>7. subs' \in SubsType
  BY <1>1, <1>6 DEF SubsType
<1>8. /\ request' = [request EXCEPT ![c] = [@ EXCEPT !.phase = "gone"]]
      /\ request[c].phase = "closing"
  BY DEF OnDisconnect
<1>. HIDE DEF topics
<1>. QED BY <1>2, <1>3, <1>5, <1>6, <1>7, <1>8 DEF topics

-----------------------------------------------------------------------------
(* What the handler hands out: each key once per connection and            *)
(* multi-topic, through multi-topics the connection is subscribed to.      *)
LEMMA RankFacts ==
  ASSUME NEW S, NEW rank \in Ranks(S)
  PROVE  /\ rank \in [S -> 1..Cardinality(S)] /\ DOMAIN rank = S
         /\ \A m, n \in S : rank[m] = rank[n] => m = n
BY DEF Ranks, Injection, IsInjective

LEMMA GainsFacts ==
  ASSUME Shapes, Sides, Limits, NEW k \in Keys, NEW rank \in Ranks(Gaining(k))
  PROVE  /\ Gains(k, rank) \in SUBSET (Clients \X Keys \X Multis)
         /\ IsFiniteSet(Gains(k, rank))
         /\ \A g \in Gains(k, rank) : /\ g[2] = k /\ g[3] \in Gaining(k)
                                      /\ <<g[1], g[3]>> \in hub.direct
                                      /\ g = <<g[1], k, g[3]>>
<1>. DEFINE G == Gains(k, rank)
            f == [g \in G |-> <<g[1], g[3]>>]
<1>1. DOMAIN rank = Gaining(k) /\ Gaining(k) \subseteq Multis
  BY RankFacts DEF Gaining
<1>2. /\ G \in SUBSET (Clients \X Keys \X Multis)
      /\ \A g \in G : /\ g[2] = k /\ g[3] \in Gaining(k) /\ <<g[1], g[3]>> \in hub.direct
                      /\ g = <<g[1], k, g[3]>>
  BY <1>1 DEF Gains
<1>. HIDE DEF G
<1>3. f \in Injection(G, hub.direct)
  <2>1. f \in [G -> hub.direct]
    BY <1>2
  <2>2. ASSUME NEW a \in G, NEW b \in G, f[a] = f[b] PROVE a = b
    <3>1. a[1] = b[1] /\ a[3] = b[3]
      BY <2>2
    <3>. QED BY <1>2, <3>1
  <2>. HIDE DEF f
  <2>. QED BY <2>1, <2>2 DEF Injection, IsInjective
<1>4. IsFiniteSet(G)
  <2>. HIDE DEF f
  <2>1. IsFiniteSet(hub.direct)
    BY DEF Limits, Sides
  <2>. QED BY <1>3, <2>1, FS_Injection
<1>. QED BY <1>2, <1>4 DEF G

NewFor(gains, c) == {g \in gains \ subs.sources : g[1] = c}

GainDone(k, gains) ==
  /\ hub' \in HubType /\ subs' \in SubsType
  /\ hub'.direct = hub.direct /\ subs'.direct = subs.direct
  /\ hub'.indirect = hub.indirect \cup gains
  /\ subs'.sources = subs.sources \cup gains
  /\ \A m \in Multis :
       hub'.subtopics[m] = IF \E g \in gains : g[3] = m THEN hub.subtopics[m] \cup {k}
                           ELSE hub.subtopics[m]
  /\ \A c \in Clients : subs'.count[c] = subs.count[c] + Cardinality(NewFor(gains, c))
  /\ hub.entries = Mentioned(hub) => hub'.entries = Mentioned(hub')

LEMMA GainFields ==
  ASSUME Shapes, NEW k \in Keys, NEW gains \in SUBSET (Clients \X Keys \X Multis),
         IsFiniteSet(gains), \A g \in gains : <<g[1], g[3]>> \in hub.direct,
         Gain(k, gains)
  PROVE  GainDone(k, gains)
<1>. DEFINE gained == {g[3] : g \in gains}
            Sub    == [m \in Multis |-> IF m \in gained THEN hub.subtopics[m] \cup {k}
                                        ELSE hub.subtopics[m]]
            Count  == [c \in Clients |-> subs.count[c] + Cardinality(NewFor(gains, c))]
            Names  == {g[2] : g \in gains}
<1>1. subs \in SubsType /\ hub \in HubType
  BY DEF Shapes, TypeOK, HubType, SubsType
<1>2. hub' = [entries |-> hub.entries \cup gained \cup Names, direct |-> hub.direct,
              indirect |-> hub.indirect \cup gains, subtopics |-> Sub]
  BY <1>1 DEF Gain, HubType
<1>3. subs' = [direct |-> subs.direct, sources |-> subs.sources \cup gains, count |-> Count]
  BY <1>1 DEF Gain, SubsType, NewFor
<1>4. ASSUME NEW c \in Clients PROVE Cardinality(NewFor(gains, c)) \in Nat
  <2>1. NewFor(gains, c) \in SUBSET gains
    BY DEF NewFor
  <2>. QED BY <2>1, FS_Subset, FS_CardinalityType
<1>5. Count \in [Clients -> Nat]
  BY <1>1, <1>4 DEF SubsType
<1>6. Sub \in [Multis -> SUBSET Keys]
  BY <1>1 DEF HubType
<1>7. gained \subseteq Multis /\ Names \subseteq Keys
  OBVIOUS
<1>8. gained \subseteq {d[2] : d \in hub.direct}
  <2>. SUFFICES ASSUME NEW g \in gains PROVE g[3] \in {d[2] : d \in hub.direct}
    OBVIOUS
  <2>1. <<g[1], g[3]>> \in hub.direct /\ <<g[1], g[3]>>[2] = g[3]
    OBVIOUS
  <2>. QED BY <2>1
<1>9. {i[2] : i \in hub.indirect \cup gains} = {i[2] : i \in hub.indirect} \cup Names
  OBVIOUS
<1>10. /\ \A m \in Multis : Sub[m] = IF \E g \in gains : g[3] = m THEN hub.subtopics[m] \cup {k}
                                     ELSE hub.subtopics[m]
       /\ \A c \in Clients : Count[c] = subs.count[c] + Cardinality(NewFor(gains, c))
  OBVIOUS
<1>. HIDE DEF gained, Sub, Count, Names
<1>11. Mentioned(hub') = Mentioned(hub) \cup gained \cup Names
  <2>1. hub'.direct = hub.direct /\ hub'.indirect = hub.indirect \cup gains
    BY <1>2
  <2>. QED BY <1>8, <1>9, <2>1 DEF Mentioned
<1>12. hub' \in HubType
  <2>1. hub.entries \cup gained \cup Names \subseteq Topics
    BY <1>1, <1>7 DEF HubType, Topics
  <2>2. hub.indirect \cup gains \subseteq Clients \X Keys \X Multis
    BY <1>1 DEF HubType
  <2>. QED BY <1>1, <1>2, <1>6, <2>1, <2>2 DEF HubType
<1>13. subs' \in SubsType
  <2>1. subs.sources \cup gains \subseteq Clients \X Keys \X Multis
    BY <1>1 DEF SubsType
  <2>. QED BY <1>1, <1>3, <1>5, <2>1 DEF SubsType
<1>14. /\ hub'.entries = hub.entries \cup gained \cup Names /\ hub'.direct = hub.direct
       /\ hub'.indirect = hub.indirect \cup gains /\ hub'.subtopics = Sub
       /\ subs'.direct = subs.direct /\ subs'.sources = subs.sources \cup gains /\ subs'.count = Count
  BY <1>2, <1>3
<1>. QED BY <1>10, <1>11, <1>12, <1>13, <1>14 DEF GainDone

LEMMA ExpandFields ==
  ASSUME Shapes, Sides, Limits, Expand
  PROVE  /\ queue \in Seq(Keys \X Nat) /\ queue # <<>> /\ Head(queue) \in Keys \X Nat
         /\ queue' = Tail(queue)
         /\ handler = Waiting
         /\ handler' = [stage |-> "expanded", update |-> Head(queue), to |-> {}]
         /\ UNCHANGED <<redis, index, publisher, request, held, requests, environment>>
         /\ \E rank \in Ranks(Gaining(Head(queue)[1])) :
              GainDone(Head(queue)[1], Gains(Head(queue)[1], rank))
<1>1. queue \in Seq(Keys \X Nat) /\ queue # <<>> /\ Head(queue) \in Keys \X Nat
  BY DEF Shapes, TypeOK, Expand
<1>2. handler = Waiting
  BY DEF Shapes, TypeOK, Expand, Waiting
<1>. DEFINE k == Head(queue)[1]
<1>3. k \in Keys
  BY <1>1
<1>4. PICK rank \in Ranks(Gaining(k)) : Gain(k, Gains(k, rank))
  BY DEF Expand
<1>. HIDE DEF k
<1>5. GainDone(k, Gains(k, rank))
  BY <1>3, <1>4, GainsFacts, GainFields
<1>. QED BY <1>1, <1>2, <1>5 DEF Expand, k

-----------------------------------------------------------------------------
(* Every step keeps the shapes. *)
Typed ==
  /\ redis \in [Keys -> Nat] /\ index \subseteq Keys /\ queue \in Seq(Keys \X Nat)
  /\ publisher \in {Ready} \cup [stage : {"set", "indexed"}, key : Keys]
  /\ hub \in HubType /\ subs \in SubsType
  /\ request \in [Clients -> RequestType]
  /\ handler \in {Waiting} \cup [stage : {"expanded", "sending"},
                                 update : Keys \X Nat, to : SUBSET Clients]
  /\ held \in [Clients -> [Keys -> Nat]]
  /\ environment \in Environments

LEMMA ShapesTyped == Shapes <=> Typed /\ \A c \in Clients : RequestOK(request[c])
BY DEF Shapes, TypeOK, Typed, HubType, SubsType, RequestType

LEMMA NewPhase ==
  ASSUME NEW q \in RequestType, NEW phase \in Phases
  PROVE  /\ [q EXCEPT !.phase = phase] \in RequestType
         /\ [q EXCEPT !.phase = phase].phase = phase
BY DEF RequestType

LEMMA RequestChanges ==
  ASSUME Shapes, NEW c \in Clients, NEW r \in RequestType, RequestOK(r),
         request' = [request EXCEPT ![c] = r]
  PROVE  /\ request' \in [Clients -> RequestType]
         /\ \A d \in Clients : RequestOK(request'[d])
         /\ request'[c] = r
         /\ \A d \in Clients \ {c} : request'[d] = request[d]
<1>1. request \in [Clients -> RequestType] /\ \A d \in Clients : RequestOK(request[d])
  BY ShapesTyped DEF Typed
<1>2. \A d \in Clients : request'[d] = IF d = c THEN r ELSE request[d]
  BY <1>1
<1>. QED BY <1>1, <1>2

LEMMA IdleOK ==
  /\ Idle \in RequestType /\ RequestOK(Idle)
  /\ [Idle EXCEPT !.phase = "closing"] \in RequestType
  /\ RequestOK([Idle EXCEPT !.phase = "closing"])
BY DEF Idle, RequestType, RequestOK, Phases, NoValues, Asking

(* The connection's own steps that only change its request. *)
LEMMA AskRequest ==
  ASSUME Shapes, NEW c \in Clients, NEW t \in Topics, Ask(c, t)
  PROVE  \E r \in RequestType :
           /\ RequestOK(r) /\ r.phase = "asked" /\ r.topic = {t}
           /\ request' = [request EXCEPT ![c] = r]
<1>. DEFINE r == [request[c] EXCEPT !.phase = "asked", !.topic = {t}]
<1>1. request[c] \in RequestType
  BY ShapesTyped DEF Typed
<1>2. r \in RequestType /\ r.phase = "asked" /\ r.topic = {t}
  BY <1>1 DEF RequestType, Phases
<1>3. RequestOK(r)
  BY <1>2 DEF RequestOK
<1>4. request' = [request EXCEPT ![c] = r]
  BY DEF Ask
<1>. QED BY <1>2, <1>3, <1>4

LEMMA ScanRequest ==
  ASSUME Shapes, NEW c \in Clients, Scan(c)
  PROVE  \E r \in RequestType :
           /\ RequestOK(r) /\ request' = [request EXCEPT ![c] = r]
           /\ r.phase = "scanning" /\ request[c].phase = "asked"
           /\ r.topic = request[c].topic
           /\ \A m \in Multis : r.topic = {m} => r.keys = Indexed(m)
<1>1. request[c] \in RequestType /\ RequestOK(request[c])
  BY ShapesTyped DEF Typed
<1>2. PICK m \in request[c].topic \cap Multis :
        /\ request[c].phase = "asked"
        /\ request' = [request EXCEPT ![c] =
              [request[c] EXCEPT !.phase = "scanning", !.keys = Indexed(m)]]
  BY DEF Scan
<1>3. request[c].topic = {m}
  BY <1>1, <1>2 DEF RequestOK, Asking
<1>4. Indexed(m) \subseteq Keys
  BY Constants DEF Indexed
<1>. DEFINE r == [request[c] EXCEPT !.phase = "scanning", !.keys = Indexed(m)]
<1>5. /\ r \in RequestType /\ r.phase = "scanning" /\ r.keys = Indexed(m)
      /\ r.topic = request[c].topic
  BY <1>1, <1>4 DEF RequestType, Phases
<1>6. RequestOK(r)
  BY <1>1, <1>2, <1>3, <1>5 DEF RequestOK, Asking
<1>7. request' = [request EXCEPT ![c] = r]
  BY <1>2
<1>. HIDE DEF r
<1>8. \A n \in Multis : r.topic = {n} => n = m
  BY <1>3, <1>5
<1>. QED BY <1>2, <1>5, <1>6, <1>7, <1>8

LEMMA ResolveRequest ==
  ASSUME Shapes, NEW c \in Clients, Resolve(c)
  PROVE  \E r \in RequestType :
           /\ RequestOK(r) /\ request' = [request EXCEPT ![c] = r]
           /\ \/ r = Idle
              \/ /\ r.phase = "resolved" /\ request[c].phase = "scanning"
                 /\ r.topic = request[c].topic /\ request[c].keys \subseteq r.keys
                 /\ \A m \in Multis : r.topic = {m} => r.keys \subseteq Indexed(m)
<1>1. request[c] \in RequestType /\ RequestOK(request[c])
  BY ShapesTyped DEF Typed
<1>9. PICK m \in request[c].topic \cap Multis : \E found \in SUBSET Indexed(m) :
        /\ request[c].phase = "scanning" /\ request[c].keys \subseteq found
        /\ request' = [request EXCEPT ![c] =
              IF Cardinality(found) > MaxSubtopics THEN Idle
              ELSE [@ EXCEPT !.phase = "resolved", !.keys = found]]
  BY DEF Resolve
<1>2. PICK found \in SUBSET Indexed(m) :
        /\ request[c].phase = "scanning" /\ request[c].keys \subseteq found
        /\ request' = [request EXCEPT ![c] =
              IF Cardinality(found) > MaxSubtopics THEN Idle
              ELSE [request[c] EXCEPT !.phase = "resolved", !.keys = found]]
  BY <1>9
<1>3. request[c].topic = {m}
  BY <1>1, <1>2 DEF RequestOK, Asking
<1>4. found \subseteq Keys
  BY Constants DEF Indexed
<1>. DEFINE r == [request[c] EXCEPT !.phase = "resolved", !.keys = found]
<1>5. /\ r \in RequestType /\ r.phase = "resolved" /\ r.keys = found
      /\ r.topic = request[c].topic
  BY <1>1, <1>4 DEF RequestType, Phases
<1>6. RequestOK(r)
  BY <1>1, <1>2, <1>3, <1>5 DEF RequestOK, Asking
<1>. HIDE DEF r
<1>7. CASE Cardinality(found) > MaxSubtopics
  BY <1>2, <1>7, IdleOK
<1>8. CASE ~ (Cardinality(found) > MaxSubtopics)
  <2>1. request' = [request EXCEPT ![c] = r]
    BY <1>2, <1>8 DEF r
  <2>2. \A n \in Multis : r.topic = {n} => n = m
    BY <1>3, <1>5
  <2>. QED BY <1>2, <1>5, <1>6, <2>1, <2>2
<1>. QED BY <1>7, <1>8

LEMMA FetchRequest ==
  ASSUME Shapes, NEW c \in Clients, Fetch(c)
  PROVE  \E r \in RequestType :
           /\ RequestOK(r) /\ request' = [request EXCEPT ![c] = r]
           /\ r.phase = "fetched" /\ r.topic = request[c].topic /\ r.keys = request[c].keys
           /\ r.values = [k \in Keys |-> IF k \in Wanted(r) THEN redis[k] ELSE 0]
           /\ \/ request[c].phase = "resolved"
              \/ request[c].phase = "asked" /\ r.topic \subseteq Keys
<1>. DEFINE old  == request[c]
            keys == IF old.phase = "resolved" THEN old.keys ELSE old.topic
            values == [k \in Keys |-> IF k \in keys THEN redis[k] ELSE 0]
            r    == [old EXCEPT !.phase = "fetched", !.values = values]
<1>1. old \in RequestType /\ RequestOK(old) /\ redis \in [Keys -> Nat]
  BY ShapesTyped DEF Typed
<1>2. values \in [Keys -> Nat]
  BY <1>1
<1>3. /\ r \in RequestType /\ r.phase = "fetched" /\ r.topic = old.topic
      /\ r.keys = old.keys /\ r.values = values
  BY <1>1, <1>2 DEF RequestType, Phases
<1>4. /\ \/ old.phase = "resolved"
         \/ old.phase = "asked" /\ old.topic \subseteq Keys
      /\ request' = [request EXCEPT ![c] = r]
  BY DEF Fetch
<1>5. RequestOK(r)
  BY <1>1, <1>3, <1>4 DEF RequestOK, Asking
<1>6. keys = Wanted(r)
  <2>1. CASE old.phase = "resolved"
    <3>1. ~ (old.topic \subseteq Keys)
      BY <1>1, <2>1, Constants DEF RequestOK, Asking
    <3>. QED BY <1>3, <2>1, <3>1 DEF Wanted
  <2>2. CASE old.phase = "asked" /\ old.topic \subseteq Keys
    BY <1>3, <2>2 DEF Wanted
  <2>. QED BY <1>4, <2>1, <2>2
<1>. HIDE DEF r, keys
<1>7. values = [k \in Keys |-> IF k \in Wanted(r) THEN redis[k] ELSE 0]
  BY <1>6
<1>. HIDE DEF values
<1>. QED BY <1>3, <1>4, <1>5, <1>7

LEMMA ShapesStep == Shapes /\ Sides /\ Limits /\ [Next]_vars => Shapes'
<1>. SUFFICES ASSUME Shapes, Sides, Limits, [Next]_vars PROVE Shapes'
  OBVIOUS
<1>1. Typed /\ \A c \in Clients : RequestOK(request[c])
  BY ShapesTyped
<1>2. SUFFICES Typed' /\ \A c \in Clients : RequestOK(request'[c])
  BY ShapesTyped DEF Typed, Shapes, TypeOK, HubType, SubsType, RequestType
<1>. USE DEF Typed
<1>3. ASSUME NEW c \in Clients, NEW r \in RequestType, RequestOK(r),
             request' = [request EXCEPT ![c] = r]
      PROVE  request' \in [Clients -> RequestType] /\ \A d \in Clients : RequestOK(request'[d])
  BY <1>3, RequestChanges
<1>4. ASSUME NEW k \in Keys, Write(k) \/ Index(k) \/ Publish(k)
      PROVE  Typed' /\ \A c \in Clients : RequestOK(request'[c])
  <2>1. <<k, redis[k]>> \in Keys \X Nat
    BY <1>1
  <2>2. CASE Write(k)
    BY <1>1, <2>2 DEF Write
  <2>3. CASE Index(k)
    BY <1>1, <2>3 DEF Index
  <2>4. CASE Publish(k)
    BY <1>1, <2>1, <2>4 DEF Publish
  <2>. QED BY <1>4, <2>2, <2>3, <2>4
<1>5. CASE Lagged
  BY <1>1, <1>5 DEF Lagged
<1>6. ASSUME NEW c \in Clients, NEW t \in Topics, Ask(c, t)
      PROVE  Typed' /\ \A d \in Clients : RequestOK(request'[d])
  BY <1>1, <1>3, <1>6, AskRequest DEF Ask
<1>7. ASSUME NEW c \in Clients, NEW t \in Topics, Unsubscribe(c, t)
      PROVE  Typed' /\ \A d \in Clients : RequestOK(request'[d])
  <2>1. hub' \in HubType /\ subs' \in SubsType
    BY <1>7, UnsubscribeFields DEF MapWithout
  <2>. QED BY <1>1, <1>7, <2>1 DEF Unsubscribe
<1>8. ASSUME NEW c \in Clients, Refuse(c) PROVE Typed' /\ \A d \in Clients : RequestOK(request'[d])
  BY <1>1, <1>3, <1>8, IdleOK DEF Refuse
<1>9. ASSUME NEW c \in Clients, Resolve(c) PROVE Typed' /\ \A d \in Clients : RequestOK(request'[d])
  <2>1. UNCHANGED <<feed, hub, subs, handler, held, requests, environment>>
    BY <1>9 DEF Resolve
  <2>. QED BY <1>1, <1>3, <1>9, <2>1, ResolveRequest
<1>10. ASSUME NEW c \in Clients, Fetch(c) PROVE Typed' /\ \A d \in Clients : RequestOK(request'[d])
  <2>1. UNCHANGED <<feed, hub, subs, handler, held, requests, environment>>
    BY <1>10 DEF Fetch
  <2>. QED BY <1>1, <1>3, <1>10, <2>1, FetchRequest
<1>11. ASSUME NEW c \in Clients, Register(c) PROVE Typed' /\ \A d \in Clients : RequestOK(request'[d])
  <2>1. PICK t \in Topics : /\ request' = [request EXCEPT ![c] = Idle]
                            /\ UNCHANGED Others
                            /\ UNCHANGED <<hub, subs, held>> \/ RegisterDone(c, t)
    BY <1>11, RegisterFields
  <2>2. request' \in [Clients -> RequestType] /\ \A d \in Clients : RequestOK(request'[d])
    BY <1>3, <2>1, IdleOK
  <2>3. ASSUME RegisterDone(c, t) PROVE held' \in [Clients -> [Keys -> Nat]]
    <3>1. request[c].values \in [Keys -> Nat]
      BY <1>1 DEF RequestType
    <3>2. held' = [held EXCEPT ![c] = [k \in Keys |-> IF request[c].values[k] > 0
                                                      THEN request[c].values[k] ELSE held[c][k]]]
      BY <2>3 DEF RegisterDone
    <3>. QED BY <1>1, <3>1, <3>2
  <2>4. hub' \in HubType /\ subs' \in SubsType /\ held' \in [Clients -> [Keys -> Nat]]
    BY <1>1, <2>1, <2>3 DEF RegisterDone
  <2>. QED BY <1>1, <2>1, <2>2, <2>4 DEF Others
<1>12. ASSUME NEW c \in Clients, Close(c) PROVE Typed' /\ \A d \in Clients : RequestOK(request'[d])
  BY <1>1, <1>3, <1>12, IdleOK DEF Close
<1>13. ASSUME NEW c \in Clients, OnDisconnect(c)
       PROVE  Typed' /\ \A d \in Clients : RequestOK(request'[d])
  <2>. DEFINE r == [request[c] EXCEPT !.phase = "gone"]
  <2>1. /\ hub' \in HubType /\ subs' \in SubsType
        /\ request' = [request EXCEPT ![c] = r] /\ request[c].phase = "closing"
    BY <1>13, OnDisconnectFields DEF MapWithout
  <2>2. r \in RequestType /\ r.phase = "gone"
    <3>1. request[c] \in RequestType /\ "gone" \in Phases
      BY <1>1 DEF Typed, Phases
    <3>. QED BY <3>1, NewPhase
  <2>3. RequestOK(r)
    BY <2>2 DEF RequestOK, Asking
  <2>. HIDE DEF r
  <2>. QED BY <1>1, <1>3, <1>13, <2>1, <2>2, <2>3 DEF OnDisconnect
<1>14. CASE Expand
  <2>. DEFINE k == Head(queue)[1]
  <2>1. PICK rank \in Ranks(Gaining(k)) : GainDone(k, Gains(k, rank))
    BY <1>14, ExpandFields
  <2>2. hub' \in HubType /\ subs' \in SubsType
    BY <2>1 DEF GainDone
  <2>3. /\ queue \in Seq(Keys \X Nat) /\ queue # <<>> /\ Head(queue) \in Keys \X Nat
        /\ queue' = Tail(queue)
        /\ handler' = [stage |-> "expanded", update |-> Head(queue), to |-> {}]
        /\ UNCHANGED <<redis, index, publisher, request, held, requests, environment>>
    BY <1>14, ExpandFields
  <2>4. queue' \in Seq(Keys \X Nat)
    BY <2>3
  <2>5. handler' \in [stage : {"expanded", "sending"}, update : Keys \X Nat, to : SUBSET Clients]
    BY <2>3
  <2>. QED BY <1>1, <2>2, <2>3, <2>4, <2>5
<1>15. CASE Collect
  <2>1. Subscribed(handler.update[1]) \subseteq Clients
    BY DEF Subscribed
  <2>2. handler # Waiting
    BY <1>15 DEF Collect, Waiting
  <2>. QED BY <1>1, <1>15, <2>1, <2>2 DEF Collect
<1>16. ASSUME NEW c \in Clients, Deliver(c) PROVE Typed' /\ \A d \in Clients : RequestOK(request'[d])
  <2>1. handler # Waiting /\ handler.update \in Keys \X Nat /\ handler.to \subseteq Clients
    BY <1>1, <1>16 DEF Deliver, Waiting
  <2>2. held' \in [Clients -> [Keys -> Nat]]
    BY <1>1, <1>16, <2>1 DEF Deliver
  <2>3. handler' \in {Waiting} \cup [stage : {"expanded", "sending"},
                                     update : Keys \X Nat, to : SUBSET Clients]
    BY <1>1, <1>16, <2>1 DEF Deliver
  <2>. QED BY <1>1, <1>16, <2>2, <2>3 DEF Deliver
<1>17. CASE UNCHANGED vars
  BY <1>1, <1>17 DEF vars
<1>18. ASSUME NEW c \in Clients, Scan(c) PROVE Typed' /\ \A d \in Clients : RequestOK(request'[d])
  BY <1>1, <1>3, <1>18, ScanRequest DEF Scan
<1>. QED BY <1>4, <1>5, <1>6, <1>7, <1>8, <1>9, <1>10, <1>11, <1>12, <1>13, <1>14, <1>15, <1>16, <1>17,
            <1>18
         DEF Next

-----------------------------------------------------------------------------
(* What all the actions do that leave subscriptions alone: a request moves *)
(* on, or none does.                                                       *)
Quiet ==
  /\ UNCHANGED <<hub, subs>>
  /\ \A c \in Clients :
       /\ request'[c].phase = "gone" <=> request[c].phase = "gone"
       /\ request'[c].phase \in Asking => request[c].phase \in Asking \/ DirectCount(subs, c) < MaxDirect

LEMMA Steps ==
  ASSUME Shapes, [Next]_vars
  PROVE  \/ Quiet
         \/ \E c \in Clients, t \in Topics : Unsubscribe(c, t)
         \/ \E c \in Clients : Register(c) /\ ~ UNCHANGED <<hub, subs, held>>
         \/ \E c \in Clients : OnDisconnect(c)
         \/ Expand
<1>1. ASSUME UNCHANGED <<hub, subs, request>> PROVE Quiet
  BY <1>1 DEF Quiet
<1>2. ASSUME NEW c \in Clients, NEW r \in RequestType, RequestOK(r), r.phase # "gone",
             request[c].phase # "gone", request' = [request EXCEPT ![c] = r], UNCHANGED <<hub, subs>>,
             r.phase \in Asking => request[c].phase \in Asking \/ DirectCount(subs, c) < MaxDirect
      PROVE  Quiet
  BY <1>2, RequestChanges DEF Quiet
<1>3. ASSUME NEW k \in Keys, Write(k) \/ Index(k) \/ Publish(k) PROVE Quiet
  BY <1>1, <1>3 DEF Write, Index, Publish
<1>4. CASE Lagged
  BY <1>1, <1>4 DEF Lagged
<1>5. ASSUME NEW c \in Clients, NEW t \in Topics, Ask(c, t) PROVE Quiet
  <2>1. /\ UNCHANGED <<hub, subs>> /\ request[c].phase # "gone" /\ DirectCount(subs, c) < MaxDirect
    BY <1>5 DEF Ask
  <2>. QED BY <1>2, <1>5, <2>1, AskRequest
<1>6. ASSUME NEW c \in Clients, Refuse(c) PROVE Quiet
  BY <1>2, <1>6, IdleOK DEF Refuse, Idle, Asking
<1>7. ASSUME NEW c \in Clients, Resolve(c) PROVE Quiet
  <2>1. UNCHANGED <<hub, subs>> /\ request[c].phase # "gone"
    BY <1>7 DEF Resolve
  <2>2. Idle.phase # "gone" /\ Idle.phase \notin Asking
        /\ {"asked", "scanning", "resolved", "fetched"} \subseteq Asking
    BY DEF Idle, Asking
  <2>. QED BY <1>2, <1>7, <2>1, <2>2, ResolveRequest
<1>8. ASSUME NEW c \in Clients, Fetch(c) PROVE Quiet
  <2>1. UNCHANGED <<hub, subs>>
    BY <1>8 DEF Fetch
  <2>. QED BY <1>2, <1>8, <2>1, FetchRequest DEF Asking
<1>9. ASSUME NEW c \in Clients, Register(c), UNCHANGED <<hub, subs, held>> PROVE Quiet
  BY <1>2, <1>9, RegisterFields, IdleOK DEF Idle, Asking
<1>10. ASSUME NEW c \in Clients, Close(c) PROVE Quiet
  BY <1>2, <1>10, IdleOK DEF Close, Idle, Asking
<1>11. CASE Collect
  BY <1>1, <1>11 DEF Collect
<1>12. ASSUME NEW c \in Clients, Deliver(c) PROVE Quiet
  BY <1>1, <1>12 DEF Deliver
<1>13. CASE UNCHANGED vars
  BY <1>1, <1>13 DEF vars
<1>14. ASSUME NEW c \in Clients, Scan(c) PROVE Quiet
  <2>1. UNCHANGED <<hub, subs>> /\ request[c].phase # "gone"
    BY <1>14 DEF Scan
  <2>2. {"asked", "scanning"} \subseteq Asking
    BY DEF Asking
  <2>. QED BY <1>2, <1>14, <2>1, <2>2, ScanRequest
<1>. QED BY <1>3, <1>4, <1>5, <1>6, <1>7, <1>8, <1>9, <1>10, <1>11, <1>12, <1>13, <1>14 DEF Next

LEMMA SidesStep == Shapes /\ Sides /\ Limits /\ [Next]_vars => Sides'
<1>. SUFFICES ASSUME Shapes, Sides, Limits, [Next]_vars PROVE Sides'
  OBVIOUS
<1>. DEFINE Live(set) == {i \in set : request[i[1]].phase # "gone"}
<1>1. /\ hub.direct = subs.direct /\ hub.entries = Mentioned(hub)
      /\ \A d \in subs.direct : request[d[1]].phase # "gone"
      /\ Live(hub.indirect) = subs.sources
  BY DEF Sides
<1>2. Typed
  BY ShapesTyped
<1>3. /\ \A d \in subs.direct : d[1] \in Clients
      /\ \A i \in hub.indirect : i[1] \in Clients /\ i[2] \in Keys /\ i[3] \in Multis
  BY <1>2 DEF Typed, HubType, SubsType
<1>4. ASSUME Quiet PROVE Sides'
  BY <1>1, <1>3, <1>4 DEF Quiet, Sides, Mentioned
<1>5. ASSUME NEW c \in Clients, NEW t \in Topics, Unsubscribe(c, t) PROVE Sides'
  <2>1. /\ hub'.direct = hub.direct \ ({c} \X {t}) /\ hub'.indirect = Kept(hub, hub.indirect, {t}, c)
        /\ hub'.entries = Mentioned(hub')
        /\ subs'.direct = subs.direct \ {<<c, t>>} /\ subs'.sources = Kept(hub, subs.sources, {t}, c)
    BY <1>1, <1>5, UnsubscribeFields DEF MapWithout
  <2>2. request' = request
    BY <1>5 DEF Unsubscribe
  <2>3. {c} \X {t} = {<<c, t>>}
    OBVIOUS
  <2>4. {i \in hub'.indirect : request[i[1]].phase # "gone"} = subs'.sources
    BY <1>1, <2>1 DEF Kept
  <2>. QED BY <1>1, <2>1, <2>2, <2>3, <2>4 DEF Sides
<1>6. ASSUME NEW c \in Clients, Register(c), ~ UNCHANGED <<hub, subs, held>> PROVE Sides'
  <2>1. PICK t \in Topics : /\ request[c].phase = "fetched"
                            /\ request' = [request EXCEPT ![c] = Idle]
                            /\ RegisterDone(c, t)
    BY <1>6, RegisterFields
  <2>2. \A d \in Clients : request'[d].phase = "gone" <=> request[d].phase = "gone"
    BY <2>1, RequestChanges, IdleOK DEF Idle
  <2>. DEFINE new == Through(c, t, request[c].keys)
  <2>3. /\ hub'.direct = hub.direct \cup {<<c, t>>} /\ subs'.direct = subs.direct \cup {<<c, t>>}
        /\ hub'.indirect = hub.indirect \cup new /\ subs'.sources = subs.sources \cup new
        /\ hub'.entries = Mentioned(hub')
    BY <1>1, <2>1 DEF RegisterDone
  <2>4. \A i \in new : i[1] = c
    BY DEF Through
  <2>. HIDE DEF new
  <2>5. {i \in hub'.indirect : request'[i[1]].phase # "gone"} = subs'.sources
    BY <1>1, <1>3, <2>1, <2>2, <2>3, <2>4
  <2>6. \A d \in subs'.direct : request'[d[1]].phase # "gone"
    BY <1>1, <1>3, <2>1, <2>2, <2>3
  <2>. QED BY <1>1, <2>3, <2>5, <2>6 DEF Sides
<1>7. ASSUME NEW c \in Clients, OnDisconnect(c) PROVE Sides'
  <2>. DEFINE topics == {t \in Topics : <<c, t>> \in subs.direct}
  <2>1. /\ MapWithout(hub, hub', topics, c)
        /\ hub'.direct = {d \in subs.direct : d[1] # c} /\ subs'.direct = {d \in subs.direct : d[1] # c}
        /\ subs'.sources = {i \in subs.sources : i[1] # c}
        /\ request' = [request EXCEPT ![c] = [@ EXCEPT !.phase = "gone"]]
    BY <1>7, OnDisconnectFields
  <2>2. hub'.indirect = Kept(hub, hub.indirect, topics, c) /\ hub'.entries = Mentioned(hub')
    BY <1>1, <2>1 DEF MapWithout
  <2>3. request'[c].phase = "gone" /\ \A d \in Clients \ {c} : request'[d] = request[d]
    BY <1>2, <2>1 DEF Typed, RequestType
  <2>4. {i \in hub'.indirect : request'[i[1]].phase # "gone"} = subs'.sources
    <3>1. {i \in hub'.indirect : request'[i[1]].phase # "gone"}
            = {i \in hub'.indirect : i[1] # c /\ request[i[1]].phase # "gone"}
      BY <1>3, <2>2, <2>3 DEF Kept
    <3>2. {i \in hub'.indirect : i[1] # c /\ request[i[1]].phase # "gone"}
            = {i \in hub.indirect : i[1] # c /\ request[i[1]].phase # "gone"}
      BY <2>2 DEF Kept
    <3>. QED BY <1>1, <2>1, <3>1, <3>2
  <2>5. \A d \in subs'.direct : request'[d[1]].phase # "gone"
    BY <1>1, <1>3, <2>1, <2>3
  <2>. QED BY <2>1, <2>2, <2>4, <2>5 DEF Sides
<1>8. CASE Expand
  <2>. DEFINE k == Head(queue)[1]
  <2>1. k \in Keys /\ request' = request
    BY <1>8, ExpandFields
  <2>2. PICK rank \in Ranks(Gaining(k)) : GainDone(k, Gains(k, rank))
    BY <1>8, ExpandFields
  <2>. DEFINE gains == Gains(k, rank)
  <2>3. /\ hub'.direct = hub.direct /\ subs'.direct = subs.direct
        /\ hub'.indirect = hub.indirect \cup gains /\ subs'.sources = subs.sources \cup gains
        /\ hub'.entries = Mentioned(hub')
    BY <1>1, <2>2 DEF GainDone
  <2>4. \A g \in gains : <<g[1], g[3]>> \in subs.direct
    BY <1>1, <2>1, GainsFacts
  <2>. HIDE DEF gains, k
  <2>5. \A g \in gains : request[g[1]].phase # "gone"
    <3>. TAKE g \in gains
    <3>1. <<g[1], g[3]>> \in subs.direct /\ <<g[1], g[3]>>[1] = g[1]
      BY <2>4
    <3>. QED BY <1>1, <3>1
  <2>6. {i \in hub'.indirect : request'[i[1]].phase # "gone"} = subs'.sources
    BY <1>1, <2>1, <2>3, <2>5
  <2>. QED BY <1>1, <2>1, <2>3, <2>6 DEF Sides
<1>. QED BY <1>4, <1>5, <1>6, <1>7, <1>8, Steps
-----------------------------------------------------------------------------
(* No connection is given more than it has room for: of what it gains, all *)
(* but the last were counted before the last was decided.                  *)
LEMMA LeastExists ==
  ASSUME NEW S, S \subseteq Nat, S # {}
  PROVE  \E x \in S : \A y \in S : x <= y
<1>. DEFINE R == OpToRel(<, Nat)
<1>1. PICK x \in S : \A y \in S : ~ (<<y, x>> \in R)
  BY WFMin, NatLessThanWellFounded
<1>2. ASSUME NEW y \in S, y < x PROVE <<y, x>> \in R
  BY <1>2 DEF OpToRel
<1>3. \A y \in S : ~ (y < x)
  BY <1>1, <1>2, Zenon
<1>. QED BY <1>3

LEMMA GreatestExists ==
  ASSUME NEW S, S \subseteq Nat, S # {}, NEW n \in Nat, \A x \in S : x <= n
  PROVE  \E x \in S : \A y \in S : y <= x
<1>. DEFINE T == {n - x : x \in S}
<1>1. T \subseteq Nat /\ T # {}
  <2>1. \A x \in S : n - x \in Nat
    OBVIOUS
  <2>. QED BY <2>1
<1>2. PICK t \in T : \A y \in T : t <= y
  BY <1>1, LeastExists
<1>3. PICK x \in S : t = n - x
  OBVIOUS
<1>4. \A y \in S : n - x <= n - y
  BY <1>2, <1>3
<1>. QED BY <1>4

LEMMA GainingFinite ==
  ASSUME Limits, Sides, NEW k \in Keys
  PROVE  IsFiniteSet(Gaining(k)) /\ Cardinality(Gaining(k)) \in Nat
<1>. DEFINE T == {d[2] : d \in hub.direct}
            f == [d \in hub.direct |-> d[2]]
<1>1. f \in Surjection(hub.direct, T)
  BY DEF Surjection
<1>2. IsFiniteSet(hub.direct)
  BY DEF Limits, Sides
<1>3. Gaining(k) \subseteq T
  <2>. SUFFICES ASSUME NEW m \in Gaining(k) PROVE m \in T
    OBVIOUS
  <2>1. PICK c \in Clients : <<c, m>> \in hub.direct
    BY DEF Gaining
  <2>2. <<c, m>>[2] = m
    OBVIOUS
  <2>. QED BY <2>1, <2>2
<1>. HIDE DEF f, T
<1>4. IsFiniteSet(T)
  BY <1>1, <1>2, FS_Surjection
<1>. QED BY <1>3, <1>4, FS_Subset, FS_CardinalityType

LEMMA NewFits ==
  ASSUME Shapes, Sides, Limits, NEW k \in Keys, NEW rank \in Ranks(Gaining(k)), NEW c \in Clients
  PROVE  /\ IsFiniteSet(NewFor(Gains(k, rank), c))
         /\ Cardinality(NewFor(Gains(k, rank), c)) \in Nat
         /\ subs.count[c] + Cardinality(NewFor(Gains(k, rank), c)) <= MaxIndirect
<1>. DEFINE S == Gaining(k)
            G == Gains(k, rank)
            N == NewFor(G, c)
<1>1. /\ IsFiniteSet(G)
      /\ \A g \in G : /\ g[2] = k /\ g[3] \in S /\ <<g[1], g[3]>> \in hub.direct
                      /\ g = <<g[1], k, g[3]>>
  BY GainsFacts
<1>2. N \in SUBSET G
  BY DEF NewFor
<1>3. IsFiniteSet(N) /\ Cardinality(N) \in Nat
  BY <1>1, <1>2, FS_Subset, FS_CardinalityType
<1>4. subs.count[c] \in Nat /\ subs.count[c] <= MaxIndirect
  BY ShapesTyped DEF Typed, SubsType, Limits
<1>5. CASE N = {}
  BY <1>4, <1>5, FS_EmptySet, Constants
<1>6. CASE N # {}
  <2>. DEFINE V == {rank[g[3]] : g \in N}
              C == Cardinality(S)
  <2>1. C \in Nat
    BY GainingFinite
  <2>2. rank \in [S -> 1..C] /\ DOMAIN rank = S /\ \A m, n \in S : rank[m] = rank[n] => m = n
    BY RankFacts
  <2>3. V \subseteq Nat /\ V # {} /\ \A v \in V : v <= C
    <3>1. \A m \in S : rank[m] \in Nat /\ rank[m] <= C
      BY <2>1, <2>2
    <3>. HIDE DEF N, S, C, G
    <3>. QED BY <1>1, <1>2, <1>6, <3>1
  <2>4. PICK v \in V : \A w \in V : w <= v
    BY <2>1, <2>3, GreatestExists
  <2>5. PICK g \in N : v = rank[g[3]]
    OBVIOUS
  <2>. DEFINE E == {m \in {n \in S : rank[n] < rank[g[3]]} : /\ <<c, m>> \in hub.direct
                                                            /\ <<c, k, m>> \notin subs.sources}
  <2>6. g \in G /\ g[1] = c /\ \A h \in N : h \in G /\ h[1] = c /\ h \notin subs.sources
    BY <2>5 DEF NewFor
  <2>7. subs.count[c] + Cardinality(E) < MaxIndirect
    BY <2>2, <2>6 DEF Gains, HasRoom
  <2>8. IsFiniteSet(E) /\ Cardinality(E) \in Nat
    BY FS_Subset, FS_CardinalityType, GainingFinite
  <2>. DEFINE f == [h \in N \ {g} |-> h[3]]
  <2>9. f \in Injection(N \ {g}, E)
    <3>1. ASSUME NEW h \in N \ {g} PROVE h[3] \in E
      <4>1. h = <<c, k, h[3]>> /\ g = <<c, k, g[3]>> /\ h[3] \in S /\ g[3] \in S
        BY <1>1, <2>6
      <4>2. rank[h[3]] <= rank[g[3]] /\ rank[h[3]] # rank[g[3]]
        BY <2>2, <2>4, <2>5, <4>1
      <4>3. rank[h[3]] \in Int /\ rank[g[3]] \in Int
        BY <2>1, <2>2, <4>1
      <4>4. <<c, h[3]>> \in hub.direct /\ <<c, k, h[3]>> \notin subs.sources
        BY <1>1, <2>6, <4>1
      <4>. QED BY <4>1, <4>2, <4>3, <4>4
    <3>2. ASSUME NEW a \in N \ {g}, NEW b \in N \ {g}, a[3] = b[3] PROVE a = b
      <4>1. a = <<c, k, a[3]>> /\ b = <<c, k, b[3]>>
        BY <1>1, <2>6
      <4>. QED BY <3>2, <4>1
    <3>. HIDE DEF E, N
    <3>. QED BY <3>1, <3>2 DEF Injection, IsInjective
  <2>10. Cardinality(N \ {g}) <= Cardinality(E)
    <3>. HIDE DEF E, N, f
    <3>. QED BY <2>8, <2>9, FS_Injection
  <2>11. Cardinality(N \ {g}) = Cardinality(N) - 1
    <3>. HIDE DEF N
    <3>. QED BY <1>3, FS_RemoveElement
  <2>. HIDE DEF E, f, V, C
  <2>12. MaxIndirect \in Nat
    BY Constants
  <2>. QED BY <1>3, <1>4, <2>7, <2>8, <2>10, <2>11, <2>12
<1>. QED BY <1>5, <1>6

LEMMA LimitsStep == Shapes /\ Sides /\ Limits /\ [Next]_vars => Limits'
<1>. SUFFICES ASSUME Shapes, Sides, Limits, [Next]_vars PROVE Limits'
  OBVIOUS
<1>1. Typed
  BY ShapesTyped
<1>2. /\ IsFiniteSet(subs.direct) /\ IsFiniteSet(subs.sources)
      /\ \A c \in Clients :
           /\ subs.count[c] = Cardinality(SourcesOf(subs, c))
           /\ subs.count[c] <= MaxIndirect
           /\ Cardinality(DirectOf(subs, c)) <= MaxDirect
           /\ request[c].phase \in Asking => Cardinality(DirectOf(subs, c)) < MaxDirect
  BY DEF Limits
<1>3. ASSUME NEW c \in Clients
      PROVE  /\ IsFiniteSet(SourcesOf(subs, c)) /\ Cardinality(SourcesOf(subs, c)) \in Nat
             /\ IsFiniteSet(DirectOf(subs, c)) /\ Cardinality(DirectOf(subs, c)) \in Nat
             /\ subs.count[c] \in Nat
  <2>1. SourcesOf(subs, c) \in SUBSET subs.sources /\ DirectOf(subs, c) \in SUBSET subs.direct
    BY DEF SourcesOf, DirectOf
  <2>2. subs.count[c] \in Nat
    BY <1>1 DEF Typed, SubsType
  <2>. QED BY <1>2, <2>1, <2>2, FS_Subset, FS_CardinalityType
<1>4. ASSUME Quiet PROVE Limits'
  <2>1. subs' = subs
    BY <1>4 DEF Quiet
  <2>2. \A c \in Clients : request'[c].phase \in Asking
                             => request[c].phase \in Asking \/ Cardinality(DirectOf(subs, c)) < MaxDirect
    BY <1>4 DEF Quiet, DirectCount, DirectOf
  <2>3. \A c \in Clients : request'[c].phase \in Asking => Cardinality(DirectOf(subs, c)) < MaxDirect
    BY <1>2, <2>2
  <2>. QED BY <1>2, <2>1, <2>3 DEF Limits
<1>5. ASSUME NEW c \in Clients, NEW t \in Topics, Unsubscribe(c, t) PROVE Limits'
  <2>1. /\ subs'.direct = subs.direct \ {<<c, t>>}
        /\ subs'.sources = Kept(hub, subs.sources, {t}, c)
        /\ subs'.count[c] = Cardinality(SourcesOf(subs', c)) /\ subs'.count[c] <= subs.count[c]
        /\ \A d \in Clients \ {c} : /\ subs'.count[d] = subs.count[d]
                                    /\ SourcesOf(subs', d) = SourcesOf(subs, d)
        /\ subs' \in SubsType
    BY <1>5, UnsubscribeFields
  <2>2. IsFiniteSet(subs'.direct) /\ IsFiniteSet(subs'.sources)
    <3>1. subs'.direct \in SUBSET subs.direct /\ subs'.sources \in SUBSET subs.sources
      BY <2>1 DEF Kept
    <3>. QED BY <1>2, <3>1, FS_Subset
  <2>3. request' = request
    BY <1>5 DEF Unsubscribe
  <2>4. ASSUME NEW d \in Clients
        PROVE  /\ Cardinality(DirectOf(subs', d)) \in Nat
               /\ Cardinality(DirectOf(subs', d)) <= Cardinality(DirectOf(subs, d))
    <3>1. DirectOf(subs', d) \in SUBSET DirectOf(subs, d)
      BY <2>1 DEF DirectOf
    <3>. QED BY <1>3, <3>1, FS_Subset, FS_CardinalityType
  <2>5. ASSUME NEW d \in Clients
        PROVE  /\ subs'.count[d] = Cardinality(SourcesOf(subs', d))
               /\ subs'.count[d] <= MaxIndirect
    <3>1. subs'.count[d] \in Nat
      BY <2>1 DEF SubsType
    <3>2. CASE d = c
      BY <1>2, <1>3, <2>1, <3>1, <3>2, Constants
    <3>3. CASE d # c
      BY <1>2, <2>1, <3>3
    <3>. QED BY <3>2, <3>3
  <2>6. \A d \in Clients :
          /\ Cardinality(DirectOf(subs', d)) <= MaxDirect
          /\ request'[d].phase \in Asking => Cardinality(DirectOf(subs', d)) < MaxDirect
    BY <1>2, <1>3, <2>3, <2>4, Constants
  <2>. QED BY <2>2, <2>5, <2>6 DEF Limits
<1>6. ASSUME NEW c \in Clients, Register(c), ~ UNCHANGED <<hub, subs, held>> PROVE Limits'
  <2>1. PICK t \in Topics : /\ request[c].phase = "fetched"
                            /\ request' = [request EXCEPT ![c] = Idle]
                            /\ RegisterDone(c, t)
    BY <1>6, RegisterFields
  <2>2. request'[c].phase \notin Asking /\ \A d \in Clients \ {c} : request'[d] = request[d]
    BY <2>1, RequestChanges, IdleOK DEF Idle, Asking
  <2>. DEFINE new == Through(c, t, request[c].keys)
              fresh == new \ subs.sources
  <2>3. /\ subs'.direct = subs.direct \cup {<<c, t>>} /\ subs'.sources = subs.sources \cup new
        /\ IsFiniteSet(new) /\ t \in Topics
        /\ t \in Keys => subs'.count = subs.count
        /\ t \in Multis => /\ subs'.count = [subs.count EXCEPT ![c] = @ + Cardinality(fresh)]
                           /\ subs.count[c] + Cardinality(new) <= MaxIndirect
    BY <2>1 DEF RegisterDone
  <2>4. (\A i \in new : i[1] = c) /\ (t \notin Multis => new = {})
    BY DEF Through
  <2>. HIDE DEF new
  <2>5. /\ IsFiniteSet(fresh) /\ Cardinality(fresh) \in Nat /\ Cardinality(new) \in Nat
        /\ Cardinality(fresh) <= Cardinality(new)
    <3>1. fresh \in SUBSET new
      OBVIOUS
    <3>. QED BY <2>3, <3>1, FS_Subset, FS_CardinalityType
  <2>6. SourcesOf(subs', c) = SourcesOf(subs, c) \cup fresh
    BY <2>3, <2>4 DEF SourcesOf
  <2>7. \A d \in Clients \ {c} : SourcesOf(subs', d) = SourcesOf(subs, d)
    BY <2>3, <2>4 DEF SourcesOf
  <2>8. Cardinality(SourcesOf(subs', c)) = Cardinality(SourcesOf(subs, c)) + Cardinality(fresh)
    <3>1. SourcesOf(subs, c) \cap fresh = {}
      BY DEF SourcesOf
    <3>. HIDE DEF fresh
    <3>2. Cardinality(SourcesOf(subs, c) \cup fresh)
            = Cardinality(SourcesOf(subs, c)) + Cardinality(fresh) - Cardinality(SourcesOf(subs, c) \cap fresh)
      BY <1>3, <2>5, FS_Union
    <3>3. Cardinality(SourcesOf(subs, c) \cap fresh) = 0
      BY <3>1, FS_EmptySet
    <3>. QED BY <1>3, <2>5, <2>6, <3>2, <3>3
  <2>. HIDE DEF fresh
  <2>9. ASSUME NEW d \in Clients
        PROVE  /\ subs'.count[d] = Cardinality(SourcesOf(subs', d))
               /\ subs'.count[d] <= MaxIndirect
    <3>1. subs.count \in [Clients -> Nat]
      BY <1>1 DEF Typed, SubsType
    <3>2. CASE t \in Keys
      <4>1. t \notin Multis /\ Cardinality(new) = 0
        BY <2>4, <3>2, Constants, FS_EmptySet
      <4>2. Cardinality(fresh) = 0
        BY <2>5, <4>1
      <4>3. subs'.count[d] = subs.count[d]
        BY <2>3, <3>2
      <4>. QED BY <1>2, <1>3, <2>7, <2>8, <4>2, <4>3
    <3>3. CASE t \in Multis /\ d = c
      <4>1. subs'.count[d] = subs.count[c] + Cardinality(fresh)
        BY <2>3, <3>1, <3>3
      <4>2. subs.count[c] + Cardinality(fresh) <= MaxIndirect
        BY <1>3, <2>3, <2>5, <3>3, Constants
      <4>. QED BY <1>2, <2>8, <3>3, <4>1, <4>2
    <3>4. CASE t \in Multis /\ d # c
      BY <1>2, <2>3, <2>7, <3>1, <3>4
    <3>. QED BY <2>3, <3>2, <3>3, <3>4 DEF Topics
  <2>10. /\ IsFiniteSet(DirectOf(subs', c))
         /\ Cardinality(DirectOf(subs', c)) <= MaxDirect
    <3>1. DirectOf(subs', c) = DirectOf(subs, c) \cup {<<c, t>>}
      BY <2>3 DEF DirectOf
    <3>2. Cardinality(DirectOf(subs, c)) < MaxDirect
      BY <1>2, <2>1 DEF Asking
    <3>3. /\ IsFiniteSet(DirectOf(subs, c) \cup {<<c, t>>})
          /\ Cardinality(DirectOf(subs, c) \cup {<<c, t>>})
               = IF <<c, t>> \in DirectOf(subs, c) THEN Cardinality(DirectOf(subs, c))
                 ELSE Cardinality(DirectOf(subs, c)) + 1
      BY <1>3, FS_AddElement
    <3>. QED BY <1>3, <3>1, <3>2, <3>3, Constants
  <2>11. \A d \in Clients \ {c} : DirectOf(subs', d) = DirectOf(subs, d)
    BY <2>3 DEF DirectOf
  <2>12. IsFiniteSet(subs'.direct) /\ IsFiniteSet(subs'.sources)
    <3>1. IsFiniteSet(subs.direct \cup {<<c, t>>})
      BY <1>2, FS_AddElement
    <3>2. IsFiniteSet(subs.sources \cup new)
      BY <1>2, <2>3, FS_Union
    <3>. QED BY <2>3, <3>1, <3>2
  <2>. QED BY <1>2, <2>2, <2>9, <2>10, <2>11, <2>12 DEF Limits
<1>7. ASSUME NEW c \in Clients, OnDisconnect(c) PROVE Limits'
  <2>1. /\ subs'.direct = {d \in subs.direct : d[1] # c}
        /\ subs'.sources = {i \in subs.sources : i[1] # c}
        /\ subs'.count = [subs.count EXCEPT ![c] = 0]
        /\ request' = [request EXCEPT ![c] = [@ EXCEPT !.phase = "gone"]]
    BY <1>7, OnDisconnectFields
  <2>2. request'[c].phase = "gone" /\ \A d \in Clients \ {c} : request'[d] = request[d]
    BY <1>1, <2>1 DEF Typed, RequestType
  <2>3. SourcesOf(subs', c) = {} /\ DirectOf(subs', c) = {}
    BY <2>1 DEF SourcesOf, DirectOf
  <2>4. \A d \in Clients \ {c} : /\ SourcesOf(subs', d) = SourcesOf(subs, d)
                                 /\ DirectOf(subs', d) = DirectOf(subs, d)
    BY <2>1 DEF SourcesOf, DirectOf
  <2>5. subs'.count[c] = 0 /\ \A d \in Clients \ {c} : subs'.count[d] = subs.count[d]
    BY <1>1, <2>1 DEF Typed, SubsType
  <2>6. IsFiniteSet(subs'.direct) /\ IsFiniteSet(subs'.sources)
    <3>1. subs'.direct \in SUBSET subs.direct /\ subs'.sources \in SUBSET subs.sources
      BY <2>1
    <3>. QED BY <1>2, <3>1, FS_Subset
  <2>7. request'[c].phase \notin Asking
    BY <2>2 DEF Asking
  <2>8. ASSUME NEW d \in Clients
        PROVE  /\ subs'.count[d] = Cardinality(SourcesOf(subs', d))
               /\ subs'.count[d] <= MaxIndirect
               /\ Cardinality(DirectOf(subs', d)) <= MaxDirect
               /\ request'[d].phase \in Asking => Cardinality(DirectOf(subs', d)) < MaxDirect
    <3>0. Cardinality({}) = 0 /\ 0 <= MaxIndirect /\ 0 <= MaxDirect
      BY FS_EmptySet, Constants
    <3>1. CASE d = c
      BY <2>3, <2>5, <2>7, <3>0, <3>1
    <3>2. CASE d # c
      BY <1>2, <2>2, <2>4, <2>5, <3>2
    <3>. QED BY <3>1, <3>2
  <2>. QED BY <2>6, <2>8 DEF Limits
<1>8. CASE Expand
  <2>. DEFINE k == Head(queue)[1]
  <2>1. k \in Keys /\ request' = request
    BY <1>8, ExpandFields
  <2>2. PICK rank \in Ranks(Gaining(k)) : GainDone(k, Gains(k, rank))
    BY <1>8, ExpandFields
  <2>. DEFINE gains == Gains(k, rank)
  <2>3. /\ subs'.direct = subs.direct /\ subs'.sources = subs.sources \cup gains
        /\ \A c \in Clients : subs'.count[c] = subs.count[c] + Cardinality(NewFor(gains, c))
    BY <2>2 DEF GainDone
  <2>4. IsFiniteSet(gains)
    BY <2>1, GainsFacts
  <2>5. ASSUME NEW c \in Clients
        PROVE  /\ IsFiniteSet(NewFor(gains, c)) /\ Cardinality(NewFor(gains, c)) \in Nat
               /\ subs.count[c] + Cardinality(NewFor(gains, c)) <= MaxIndirect
    BY <2>1, NewFits
  <2>. HIDE DEF gains, k
  <2>6. ASSUME NEW c \in Clients PROVE subs'.count[c] = Cardinality(SourcesOf(subs', c))
    <3>1. /\ SourcesOf(subs', c) = SourcesOf(subs, c) \cup NewFor(gains, c)
          /\ SourcesOf(subs, c) \cap NewFor(gains, c) = {}
      BY <2>3 DEF SourcesOf, NewFor
    <3>2. Cardinality(SourcesOf(subs, c) \cup NewFor(gains, c))
            = Cardinality(SourcesOf(subs, c)) + Cardinality(NewFor(gains, c))
                - Cardinality(SourcesOf(subs, c) \cap NewFor(gains, c))
      BY <1>3, <2>5, FS_Union
    <3>3. Cardinality(SourcesOf(subs, c) \cap NewFor(gains, c)) = 0
      BY <3>1, FS_EmptySet
    <3>. QED BY <1>2, <1>3, <2>3, <2>5, <3>1, <3>2, <3>3
  <2>7. \A c \in Clients : DirectOf(subs', c) = DirectOf(subs, c)
    BY <2>3 DEF DirectOf
  <2>8. IsFiniteSet(subs'.sources)
    <3>1. IsFiniteSet(subs.sources \cup gains)
      BY <1>2, <2>4, FS_Union
    <3>. QED BY <2>3, <3>1
  <2>. QED BY <1>2, <2>1, <2>3, <2>5, <2>6, <2>7, <2>8 DEF Limits
<1>. QED BY <1>4, <1>5, <1>6, <1>7, <1>8, Steps
-----------------------------------------------------------------------------
(* The queue grows at its end and shrinks at its front. *)
LEMMA QueueSteps ==
  ASSUME Shapes, [Next]_vars
  PROVE  \/ UNCHANGED feed
         \/ \E k \in Keys : Write(k) \/ Index(k) \/ Publish(k)
         \/ Lagged
         \/ Expand
<1>1. ASSUME NEW c \in Clients, Scan(c) \/ Resolve(c) PROVE UNCHANGED feed
  BY <1>1 DEF Scan, Resolve
<1>2. ASSUME NEW c \in Clients, Register(c) PROVE UNCHANGED feed
  BY <1>2, RegisterFields DEF Others
<1>. QED BY <1>1, <1>2 DEF Next, vars, Ask, Refuse, Fetch, Unsubscribe, Close, OnDisconnect, Collect, Deliver

LEMMA TailFacts ==
  ASSUME Shapes, queue # <<>>
  PROVE  /\ Head(queue) = queue[1] /\ 1 \in 1..Len(queue) /\ Len(queue) \in Nat
         /\ Len(Tail(queue)) = Len(queue) - 1
         /\ \A i \in 1..Len(Tail(queue)) : i + 1 \in 1..Len(queue) /\ Tail(queue)[i] = queue[i + 1]
<1>1. queue \in Seq(Keys \X Nat)
  BY DEF Shapes, TypeOK
<1>. QED BY <1>1

LEMMA WriteFacts ==
  ASSUME Shapes, NEW k \in Keys, Write(k)
  PROVE  /\ redis'[k] = redis[k] + 1 /\ \A j \in Keys \ {k} : redis'[j] = redis[j]
         /\ \A j \in Keys : redis[j] \in Nat /\ redis'[j] \in Nat /\ redis[j] <= redis'[j]
         /\ publisher = Ready /\ publisher' # Ready
         /\ publisher'.key = k /\ publisher'.stage = "set"
         /\ UNCHANGED <<index, queue, hub, subs, request, handler, held, requests, environment>>
<1>1. redis \in [Keys -> Nat] /\ redis' = [redis EXCEPT ![k] = @ + 1]
  BY DEF Shapes, TypeOK, Write
<1>2. publisher = Ready /\ publisher' = [stage |-> "set", key |-> k]
  BY DEF Write
<1>3. publisher' # Ready /\ publisher'.key = k /\ publisher'.stage = "set"
  BY <1>2 DEF Ready
<1>. QED BY <1>1, <1>2, <1>3 DEF Write

LEMMA IndexFacts ==
  ASSUME NEW k \in Keys, Index(k)
  PROVE  /\ publisher # Ready /\ publisher.key = k
         /\ publisher' # Ready /\ publisher'.key = k
         /\ index' = index \cup {k}
         /\ UNCHANGED <<redis, queue, hub, subs, request, handler, held, requests, environment>>
<1>1. /\ publisher = [stage |-> "set", key |-> k]
      /\ publisher' = [stage |-> "indexed", key |-> k]
  BY DEF Index
<1>2. publisher.stage # "ready" /\ publisher.key = k /\ publisher'.stage # "ready" /\ publisher'.key = k
  BY <1>1
<1>. QED BY <1>2 DEF Index, Ready

LEMMA PublishFacts ==
  ASSUME Shapes, NEW k \in Keys, Publish(k)
  PROVE  /\ Len(queue) \in Nat /\ Len(queue') = Len(queue) + 1
         /\ queue'[Len(queue) + 1] = <<k, redis[k]>>
         /\ \A i \in 1..Len(queue) : /\ queue'[i] = queue[i] /\ i \in 1..Len(queue')
                                     /\ queue[i][1] \in Keys /\ queue[i][2] \in Nat
         /\ \A i \in 1..Len(queue') : i \in 1..Len(queue) \/ i = Len(queue) + 1
         /\ publisher # Ready /\ publisher.key = k /\ publisher.stage = "indexed"
         /\ publisher' = Ready
         /\ UNCHANGED <<redis, index, hub, subs, request, handler, held, requests, environment>>
<1>1. queue \in Seq(Keys \X Nat) /\ redis \in [Keys -> Nat]
  BY DEF Shapes, TypeOK
<1>2. queue' = Append(queue, <<k, redis[k]>>) /\ publisher = [stage |-> "indexed", key |-> k]
  BY DEF Publish
<1>3. <<k, redis[k]>> \in Keys \X Nat
  BY <1>1
<1>4. /\ Len(queue) \in Nat /\ Len(queue') = Len(queue) + 1
      /\ queue'[Len(queue) + 1] = <<k, redis[k]>>
      /\ \A i \in 1..Len(queue) : queue'[i] = queue[i]
  BY <1>1, <1>2, <1>3
<1>5. \A i \in 1..Len(queue) : queue[i] \in Keys \X Nat
  BY <1>1
<1>6. publisher.stage = "indexed" /\ publisher.key = k /\ publisher # Ready
  BY <1>2 DEF Ready
<1>. QED BY <1>1, <1>4, <1>5, <1>6 DEF Publish

LEMMA HandlerSteps ==
  ASSUME Shapes, [Next]_vars
  PROVE  \/ UNCHANGED handler
         \/ Expand
         \/ handler' = Waiting
         \/ handler # Waiting /\ handler'.update = handler.update
<1>1. ASSUME NEW c \in Clients, Scan(c) \/ Resolve(c) PROVE UNCHANGED handler
  BY <1>1 DEF Scan, Resolve
<1>2. ASSUME NEW c \in Clients, Register(c) PROVE UNCHANGED handler
  BY <1>2, RegisterFields DEF Others
<1>3. handler \in {Waiting} \cup [stage : {"expanded", "sending"}, update : Keys \X Nat, to : SUBSET Clients]
  BY DEF Shapes, TypeOK
<1>4. handler.stage \in {"expanded", "sending"}
        => /\ handler # Waiting
           /\ \A to : [handler EXCEPT !.to = to].update = handler.update
           /\ \A to : [handler EXCEPT !.stage = "sending", !.to = to].update = handler.update
  BY <1>3 DEF Waiting
<1>5. CASE Collect
  BY <1>4, <1>5 DEF Collect
<1>6. ASSUME NEW c \in Clients, Deliver(c)
      PROVE  handler' = Waiting \/ (handler # Waiting /\ handler'.update = handler.update)
  <2>. DEFINE rest == [handler EXCEPT !.to = handler.to \ {c}]
  <2>1. handler.stage = "sending"
    BY <1>6 DEF Deliver
  <2>2. handler' = Waiting \/ handler' = rest
    BY <1>6 DEF Deliver
  <2>3. handler # Waiting /\ rest.update = handler.update
    BY <1>4, <2>1
  <2>. HIDE DEF rest
  <2>. QED BY <2>2, <2>3
<1>. QED BY <1>1, <1>2, <1>5, <1>6
         DEF Next, vars, Write, Index, Publish, Lagged, Ask, Refuse, Fetch, Unsubscribe, Close, OnDisconnect

LEMMA RedisGrows ==
  ASSUME Shapes, Sides, Limits, [Next]_vars
  PROVE  \A k \in Keys : redis[k] \in Nat /\ redis'[k] \in Nat /\ redis[k] <= redis'[k]
<1>1. redis \in [Keys -> Nat]
  BY ShapesTyped DEF Typed
<1>2. ASSUME redis' = redis
      PROVE  \A k \in Keys : redis[k] \in Nat /\ redis'[k] \in Nat /\ redis[k] <= redis'[k]
  BY <1>1, <1>2
<1>3. ASSUME NEW j \in Keys, Index(j) \/ Publish(j) PROVE redis' = redis
  BY <1>3 DEF Index, Publish
<1>. QED BY <1>2, <1>3, QueueSteps, WriteFacts, ExpandFields DEF Lagged

LEMMA OrderStep == Shapes /\ Sides /\ Limits /\ Order /\ [Next]_vars => Order'
<1>. SUFFICES ASSUME Shapes, Sides, Limits, Order, [Next]_vars PROVE Order'
  OBVIOUS
<1>. DEFINE Handled == handler # Waiting => handler.update[2] <= redis[handler.update[1]]
<1>. SUFFICES InOrder' /\ Publishing' /\ Handled'
  BY DEF Order
<1>1. ASSUME UNCHANGED feed PROVE InOrder' /\ Publishing'
  BY <1>1 DEF Order, InOrder, Publishing
<1>2. ASSUME NEW k \in Keys, Write(k) PROVE InOrder' /\ Publishing'
  <2>1. /\ UNCHANGED <<index, queue>> /\ publisher'.key = k /\ publisher'.stage = "set"
        /\ redis'[k] = redis[k] + 1
        /\ \A j \in Keys : redis[j] \in Nat /\ redis'[j] \in Nat /\ redis[j] <= redis'[j]
    BY <1>2, WriteFacts
  <2>2. \A i \in 1..Len(queue) : queue[i][1] \in Keys /\ queue[i][2] \in Nat
    BY ShapesTyped DEF Typed
  <2>3. \A i \in 1..Len(queue) : queue[i][2] <= redis[queue[i][1]]
    BY DEF Order, InOrder
  <2>4. InOrder'
    BY <2>1, <2>2, <2>3 DEF Order, InOrder
  <2>5. \A i \in 1..Len(queue) : queue[i][1] = k => queue[i][2] < redis'[k]
    BY <2>1, <2>2, <2>3
  <2>. QED BY <2>1, <2>4, <2>5 DEF Publishing
<1>8. ASSUME NEW k \in Keys, Index(k) PROVE InOrder' /\ Publishing'
  <2>1. /\ index' = index \cup {k} /\ UNCHANGED <<redis, queue>>
        /\ publisher # Ready /\ publisher.key = k /\ publisher'.key = k
    BY <1>8, IndexFacts
  <2>. QED BY <2>1 DEF Order, InOrder, Publishing
<1>9. ASSUME NEW k \in Keys, Publish(k) PROVE InOrder' /\ Publishing'
  <2>1. ASSUME NEW i \in 1..Len(queue')
        PROVE  queue'[i][1] \in index' /\ queue'[i][2] <= redis'[queue'[i][1]]
    <3>1. CASE i \in 1..Len(queue)
      BY <1>9, <3>1, PublishFacts DEF Order, InOrder
    <3>2. CASE i = Len(queue) + 1
      <4>1. queue'[i] = <<k, redis[k]>> /\ redis[k] \in Nat /\ redis' = redis /\ index' = index
        BY <1>9, <3>2, PublishFacts, ShapesTyped DEF Typed
      <4>2. k \in index
        BY <1>9, PublishFacts DEF Order, Publishing
      <4>. QED BY <4>1, <4>2
    <3>. QED BY <1>9, <3>1, <3>2, PublishFacts
  <2>2. ASSUME NEW i \in 1..Len(queue'), NEW j \in 1..Len(queue'), i < j, queue'[i][1] = queue'[j][1]
        PROVE  queue'[i][2] < queue'[j][2]
    <3>1. i \in 1..Len(queue)
      BY <1>9, <2>2, PublishFacts
    <3>2. CASE j \in 1..Len(queue)
      BY <1>9, <2>2, <3>1, <3>2, PublishFacts DEF Order, InOrder
    <3>3. CASE j = Len(queue) + 1
      <4>1. queue'[j] = <<k, redis[k]>> /\ queue'[i] = queue[i] /\ publisher # Ready /\ publisher.key = k
        BY <1>9, <3>1, <3>3, PublishFacts
      <4>2. queue[i][1] = publisher.key
        BY <2>2, <4>1
      <4>3. queue[i][2] < redis[k]
        BY <3>1, <4>1, <4>2 DEF Order, Publishing
      <4>. QED BY <4>1, <4>3
    <3>. QED BY <1>9, <3>2, <3>3, PublishFacts
  <2>3. publisher' = Ready /\ Ready.stage = "ready"
    BY <1>9, PublishFacts DEF Ready
  <2>. QED BY <2>1, <2>2, <2>3 DEF InOrder, Publishing
<1>3. ASSUME queue # <<>>, queue' = Tail(queue), UNCHANGED <<redis, index, publisher>>
      PROVE  InOrder' /\ Publishing'
  <2>1. ASSUME NEW i \in 1..Len(queue'), NEW j \in 1..Len(queue'), i < j
        PROVE  i + 1 < j + 1
    BY <1>3, <2>1, TailFacts
  <2>2. InOrder'
    BY <1>3, <2>1, TailFacts DEF Order, InOrder
  <2>3. Publishing'
    BY <1>3, TailFacts DEF Order, Publishing
  <2>. QED BY <2>2, <2>3
<1>4. ASSUME Lagged PROVE InOrder' /\ Publishing'
  BY <1>3, <1>4 DEF Lagged
<1>5. ASSUME Expand PROVE InOrder' /\ Publishing'
  BY <1>3, <1>5, ExpandFields
<1>6. InOrder' /\ Publishing'
  BY <1>1, <1>2, <1>4, <1>5, <1>8, <1>9, QueueSteps
<1>7. Handled'
  <2>1. \A k \in Keys : redis[k] \in Nat /\ redis'[k] \in Nat /\ redis[k] <= redis'[k]
    BY RedisGrows
  <2>2. handler # Waiting => /\ handler.update[1] \in Keys /\ handler.update[2] \in Nat
                             /\ handler.update[2] <= redis[handler.update[1]]
    BY ShapesTyped DEF Order, Typed
  <2>3. CASE Expand
    <3>1. handler'.update = queue[1] /\ redis' = redis /\ 1 \in 1..Len(queue)
      BY <2>3, ExpandFields, TailFacts
    <3>. QED BY <3>1 DEF Order, InOrder
  <2>4. CASE UNCHANGED handler
    BY <2>1, <2>2, <2>4
  <2>5. CASE handler # Waiting /\ handler'.update = handler.update
    BY <2>1, <2>2, <2>5
  <2>. QED BY <2>3, <2>4, <2>5, HandlerSteps
<1>. QED BY <1>6, <1>7

(* Subtopics were in the index when they were read or gained, and nothing  *)
(* leaves the index; it and the values change by SADD and SET only.        *)
LEMMA IndexGrows ==
  ASSUME Shapes, Sides, Limits, [Next]_vars
  PROVE  /\ \A m \in Multis : Indexed(m) \subseteq Indexed(m)'
         /\ (\A k \in Keys : ~ Write(k)) => redis' = redis
         /\ (\A k \in Keys : ~ Index(k)) => index' = index
<1>1. ASSUME UNCHANGED feed \/ Lagged \/ Expand PROVE redis' = redis /\ index' = index
  BY <1>1, ExpandFields DEF Lagged
<1>2. ASSUME NEW k \in Keys, Write(k) PROVE index' = index
  BY <1>2, WriteFacts
<1>3. ASSUME NEW k \in Keys, Index(k) PROVE redis' = redis /\ index \subseteq index'
  BY <1>3, IndexFacts
<1>4. ASSUME NEW k \in Keys, Publish(k) PROVE redis' = redis /\ index' = index
  BY <1>4, PublishFacts
<1>5. index \subseteq index'
  BY <1>1, <1>2, <1>3, <1>4, QueueSteps
<1>. QED BY <1>1, <1>2, <1>3, <1>4, <1>5, QueueSteps DEF Indexed
-----------------------------------------------------------------------------
(* How a request that is under way got where it is. *)
NowScanning(c) ==
  LET r == request'[c]
  IN  /\ r.phase = "scanning" /\ request[c].phase = "asked" /\ r.topic = request[c].topic
      /\ \A m \in Multis : r.topic = {m} => r.keys = Indexed(m)
      /\ UNCHANGED <<feed, hub, subs, handler, held, requests, environment>>

NowResolved(c) ==
  LET r == request'[c]
  IN  /\ r.phase = "resolved" /\ request[c].phase = "scanning" /\ r.topic = request[c].topic
      /\ request[c].keys \subseteq r.keys
      /\ \A m \in Multis : r.topic = {m} => r.keys \subseteq Indexed(m)
      /\ UNCHANGED <<feed, hub, subs, handler, held, requests, environment>>

NowFetched(c) ==
  LET r == request'[c]
  IN  /\ r.phase = "fetched" /\ r.topic = request[c].topic /\ r.keys = request[c].keys
      /\ r.values = [k \in Keys |-> IF k \in Wanted(r) THEN redis[k] ELSE 0]
      /\ \/ request[c].phase = "resolved"
         \/ request[c].phase = "asked" /\ r.topic \subseteq Keys
      /\ UNCHANGED <<feed, hub, subs, handler, held, requests, environment>>

LEMMA RequestSteps ==
  ASSUME Shapes, [Next]_vars, NEW c \in Clients
  PROVE  \/ request'[c] = request[c]
         \/ request'[c].phase \notin Asking
         \/ request'[c].phase = "asked" /\ \E t \in Topics : Ask(c, t)
         \/ NowScanning(c)
         \/ NowResolved(c)
         \/ NowFetched(c)
<1>. DEFINE Goal == \/ request'[c] = request[c]
                    \/ request'[c].phase \notin Asking
                    \/ request'[c].phase = "asked" /\ \E t \in Topics : Ask(c, t)
                    \/ NowScanning(c)
                    \/ NowResolved(c)
                    \/ NowFetched(c)
<1>. SUFFICES Goal
  OBVIOUS
<1>1. ASSUME UNCHANGED request PROVE Goal
  BY <1>1
<1>2. ASSUME NEW d \in Clients, NEW r \in RequestType, RequestOK(r), request' = [request EXCEPT ![d] = r],
             r.phase \notin Asking
      PROVE  Goal
  BY <1>2, RequestChanges
<1>3. Idle.phase \notin Asking /\ [Idle EXCEPT !.phase = "closing"].phase \notin Asking
  BY DEF Idle, Asking
<1>4. ASSUME NEW d \in Clients, NEW t \in Topics, Ask(d, t) PROVE Goal
  <2>1. PICK r \in RequestType : /\ RequestOK(r) /\ r.phase = "asked"
                                 /\ request' = [request EXCEPT ![d] = r]
    BY <1>4, AskRequest
  <2>2. request'[d] = r /\ \A e \in Clients \ {d} : request'[e] = request[e]
    BY <2>1, RequestChanges
  <2>. QED BY <1>4, <2>1, <2>2
<1>5. ASSUME NEW d \in Clients, Resolve(d) PROVE Goal
  <2>1. PICK r \in RequestType :
           /\ RequestOK(r) /\ request' = [request EXCEPT ![d] = r]
           /\ \/ r = Idle
              \/ /\ r.phase = "resolved" /\ request[d].phase = "scanning"
                 /\ r.topic = request[d].topic /\ request[d].keys \subseteq r.keys
                 /\ \A m \in Multis : r.topic = {m} => r.keys \subseteq Indexed(m)
    BY <1>5, ResolveRequest
  <2>2. request'[d] = r /\ \A e \in Clients \ {d} : request'[e] = request[e]
    BY <2>1, RequestChanges
  <2>3. UNCHANGED <<feed, hub, subs, handler, held, requests, environment>>
    BY <1>5 DEF Resolve
  <2>. QED BY <1>3, <2>1, <2>2, <2>3 DEF NowResolved
<1>6. ASSUME NEW d \in Clients, Fetch(d) PROVE Goal
  <2>1. PICK r \in RequestType :
           /\ RequestOK(r) /\ request' = [request EXCEPT ![d] = r]
           /\ r.phase = "fetched" /\ r.topic = request[d].topic /\ r.keys = request[d].keys
           /\ r.values = [k \in Keys |-> IF k \in Wanted(r) THEN redis[k] ELSE 0]
           /\ \/ request[d].phase = "resolved"
              \/ request[d].phase = "asked" /\ r.topic \subseteq Keys
    BY <1>6, FetchRequest
  <2>2. request'[d] = r /\ \A e \in Clients \ {d} : request'[e] = request[e]
    BY <2>1, RequestChanges
  <2>3. UNCHANGED <<feed, hub, subs, handler, held, requests, environment>>
    BY <1>6 DEF Fetch
  <2>. QED BY <2>1, <2>2, <2>3 DEF NowFetched
<1>7. ASSUME NEW d \in Clients, Register(d) PROVE Goal
  BY <1>2, <1>3, <1>7, RegisterFields, IdleOK
<1>8. ASSUME NEW d \in Clients, Refuse(d) \/ Close(d) PROVE Goal
  BY <1>2, <1>3, <1>8, IdleOK DEF Refuse, Close
<1>9. ASSUME NEW d \in Clients, OnDisconnect(d) PROVE Goal
  <2>. DEFINE r == [request[d] EXCEPT !.phase = "gone"]
  <2>1. r \in RequestType /\ r.phase = "gone"
    <3>1. request[d] \in RequestType /\ "gone" \in Phases
      BY ShapesTyped DEF Typed, Phases
    <3>. QED BY <3>1, NewPhase
  <2>2. RequestOK(r) /\ r.phase \notin Asking
    BY <2>1 DEF RequestOK, Asking
  <2>3. request' = [request EXCEPT ![d] = r]
    BY <1>9 DEF OnDisconnect
  <2>. HIDE DEF r, Goal
  <2>. QED BY <1>2, <2>1, <2>2, <2>3
<1>10. CASE Expand
  BY <1>1, <1>10 DEF Expand
<1>11. ASSUME NEW d \in Clients, Scan(d) PROVE Goal
  <2>1. PICK r \in RequestType :
           /\ RequestOK(r) /\ request' = [request EXCEPT ![d] = r]
           /\ r.phase = "scanning" /\ request[d].phase = "asked"
           /\ r.topic = request[d].topic
           /\ \A m \in Multis : r.topic = {m} => r.keys = Indexed(m)
    BY <1>11, ScanRequest
  <2>2. request'[d] = r /\ \A e \in Clients \ {d} : request'[e] = request[e]
    BY <2>1, RequestChanges
  <2>3. UNCHANGED <<feed, hub, subs, handler, held, requests, environment>>
    BY <1>11 DEF Scan
  <2>. QED BY <2>1, <2>2, <2>3 DEF NowScanning
<1>. HIDE DEF Goal
<1>. QED BY <1>1, <1>4, <1>5, <1>6, <1>7, <1>8, <1>9, <1>10, <1>11
         DEF Next, vars, Write, Index, Publish, Lagged, Unsubscribe, Collect, Deliver

(* What becomes of a multi-topic's subtopics. *)
LEMMA SubtopicsSteps ==
  ASSUME Shapes, Sides, Limits, [Next]_vars, NEW m \in Multis
  PROVE  \/ hub'.subtopics[m] \subseteq hub.subtopics[m]
         \/ \E c \in Clients : /\ request[c].phase = "fetched" /\ request[c].topic = {m}
                               /\ hub'.subtopics[m] = request[c].keys
         \/ /\ Expand
            /\ hub'.subtopics[m] \subseteq hub.subtopics[m] \cup {Head(queue)[1]}
            /\ Head(queue)[1] \in Matches[m]
<1>1. CASE Quiet
  BY <1>1 DEF Quiet
<1>2. ASSUME NEW c \in Clients, NEW t \in Topics, Unsubscribe(c, t)
      PROVE  hub'.subtopics[m] \subseteq hub.subtopics[m]
  BY <1>2, UnsubscribeFields DEF MapWithout
<1>3. ASSUME NEW c \in Clients, Register(c), ~ UNCHANGED <<hub, subs, held>>
      PROVE  \/ hub'.subtopics[m] \subseteq hub.subtopics[m]
             \/ /\ request[c].phase = "fetched" /\ request[c].topic = {m}
                /\ hub'.subtopics[m] = request[c].keys
  <2>1. PICK t \in Topics : /\ request[c].phase = "fetched" /\ request[c].topic = {t}
                            /\ RegisterDone(c, t)
    BY <1>3, RegisterFields
  <2>2. hub'.subtopics = IF t \in Multis THEN [hub.subtopics EXCEPT ![t] = request[c].keys] ELSE hub.subtopics
    BY <2>1 DEF RegisterDone
  <2>3. hub.subtopics \in [Multis -> SUBSET Keys]
    BY ShapesTyped DEF Typed, HubType
  <2>. QED BY <2>1, <2>2, <2>3
<1>4. ASSUME NEW c \in Clients, OnDisconnect(c)
      PROVE  hub'.subtopics[m] \subseteq hub.subtopics[m]
  BY <1>4, OnDisconnectFields DEF MapWithout
<1>5. CASE Expand
  <2>. DEFINE k == Head(queue)[1]
  <2>1. k \in Keys
    BY <1>5, ExpandFields
  <2>2. PICK rank \in Ranks(Gaining(k)) : GainDone(k, Gains(k, rank))
    BY <1>5, ExpandFields
  <2>. DEFINE gains == Gains(k, rank)
  <2>3. hub'.subtopics[m] = IF \E g \in gains : g[3] = m THEN hub.subtopics[m] \cup {k}
                            ELSE hub.subtopics[m]
    BY <2>2 DEF GainDone
  <2>4. (\E g \in gains : g[3] = m) => k \in Matches[m]
    <3>1. \A g \in gains : g[3] \in Gaining(k)
      BY <2>1, GainsFacts
    <3>. HIDE DEF gains, k
    <3>. QED BY <3>1 DEF Gaining
  <2>. HIDE DEF gains
  <2>. QED BY <1>5, <2>3, <2>4
<1>. QED BY <1>1, <1>2, <1>3, <1>4, <1>5, Steps

LEMMA ResolvedStep ==
  Shapes /\ Sides /\ Limits /\ Order /\ Resolved /\ [Next]_vars => Resolved'
<1>. SUFFICES ASSUME Shapes, Sides, Limits, Order, Resolved, [Next]_vars PROVE Resolved'
  OBVIOUS
<1>1. \A m \in Multis : Indexed(m) \subseteq Indexed(m)'
  BY IndexGrows
<1>2. ASSUME NEW m \in Multis PROVE hub'.subtopics[m] \subseteq Indexed(m)'
  <2>1. CASE hub'.subtopics[m] \subseteq hub.subtopics[m]
    BY <1>1, <2>1 DEF Resolved
  <2>2. ASSUME NEW c \in Clients, request[c].phase = "fetched", request[c].topic = {m},
               hub'.subtopics[m] = request[c].keys
        PROVE  hub'.subtopics[m] \subseteq Indexed(m)'
    BY <1>1, <2>2 DEF Resolved, Reading
  <2>3. CASE /\ Expand
             /\ hub'.subtopics[m] \subseteq hub.subtopics[m] \cup {Head(queue)[1]}
             /\ Head(queue)[1] \in Matches[m]
    <3>1. Head(queue) = queue[1] /\ 1 \in 1..Len(queue) /\ Head(queue) \in Keys \X Nat
      BY <2>3, ExpandFields, TailFacts
    <3>2. Head(queue)[1] \in index
      BY <3>1 DEF Order, InOrder
    <3>3. Head(queue)[1] \in Indexed(m)
      BY <2>3, <3>2 DEF Indexed
    <3>. QED BY <1>1, <2>3, <3>3 DEF Resolved
  <2>. QED BY <2>1, <2>2, <2>3, SubtopicsSteps
<1>3. ASSUME NEW c \in Clients, NEW m \in Multis, request'[c].phase \in Reading, request'[c].topic = {m}
      PROVE  request'[c].keys \subseteq Indexed(m)'
  <2>1. CASE request'[c] = request[c]
    BY <1>1, <1>3, <2>1 DEF Resolved
  <2>2. CASE NowResolved(c)
    BY <1>1, <1>3, <2>2 DEF NowResolved
  <2>3. CASE NowFetched(c)
    <3>1. request[c].phase = "resolved"
      BY <1>3, <2>3, Constants DEF NowFetched
    <3>. QED BY <1>1, <1>3, <2>3, <3>1 DEF NowFetched, Resolved, Reading
  <2>4. request'[c].phase \in Asking /\ request'[c].phase # "asked"
    BY <1>3 DEF Reading, Asking
  <2>5. CASE NowScanning(c)
    BY <1>1, <1>3, <2>5 DEF NowScanning
  <2>. QED BY <2>1, <2>2, <2>3, <2>4, <2>5, RequestSteps
<1>. QED BY <1>2, <1>3 DEF Resolved
-----------------------------------------------------------------------------
(* Without writes between a read and its registration: what was read stays *)
(* so, subtopics only grow while somebody holds them, and the newest value *)
(* of a key reaches whoever is subscribed.                                 *)
Base == Shapes /\ Sides /\ Limits /\ Order /\ Resolved

LEMMA SameEnvironment == Shapes /\ [Next]_vars => environment' = environment
<1>. SUFFICES ASSUME Shapes, [Next]_vars PROVE environment' = environment
  OBVIOUS
<1>1. ASSUME NEW c \in Clients, Scan(c) \/ Resolve(c) PROVE environment' = environment
  BY <1>1 DEF Scan, Resolve
<1>2. ASSUME NEW c \in Clients, Register(c) PROVE environment' = environment
  BY <1>2, RegisterFields DEF Others
<1>. QED BY <1>1, <1>2
         DEF Next, vars, Write, Index, Publish, Lagged, Ask, Refuse, Fetch, Unsubscribe, Close, OnDisconnect,
             Expand, Collect, Deliver

LEMMA FreshStep ==
  ASSUME Base, environment # "any", Fresh, [Next]_vars
  PROVE  Fresh'
<1>1. ASSUME NEW c \in Clients, request[c].phase \in Reading
      PROVE  redis' = redis /\ \A m \in Multis : Indexed(m)' = Indexed(m)
  <2>1. ASSUME NEW k \in Keys, Write(k) \/ Index(k) PROVE FALSE
    BY <1>1, <2>1 DEF Write, Index, Writable, InPhase, Reading
  <2>2. redis' = redis /\ index' = index
    BY <2>1, IndexGrows DEF Base
  <2>. QED BY <2>2 DEF Indexed
<1>2. ASSUME NEW c \in Clients, NEW m \in Multis, request'[c].phase \in Reading, request'[c].topic = {m}
      PROVE  Indexed(m)' \subseteq request'[c].keys
  <2>1. CASE request'[c] = request[c]
    <3>1. Indexed(m)' = Indexed(m)
      BY <1>1, <1>2, <2>1
    <3>. QED BY <1>2, <2>1, <3>1 DEF Fresh
  <2>2. CASE NowScanning(c)
    BY <1>2, <2>2 DEF NowScanning, Indexed
  <2>3. CASE NowResolved(c) \/ NowFetched(c)
    <3>1. request[c].phase \in Reading
      BY <1>2, <2>3, Constants DEF NowFetched, NowResolved, Reading
    <3>2. request[c].topic = {m} /\ request[c].keys \subseteq request'[c].keys
      BY <1>2, <2>3 DEF NowFetched, NowResolved
    <3>. QED BY <1>1, <3>1, <3>2 DEF Fresh
  <2>4. request'[c].phase \in Asking /\ request'[c].phase # "asked"
    BY <1>2 DEF Reading, Asking
  <2>. QED BY <2>1, <2>2, <2>3, <2>4, RequestSteps DEF Base
<1>3. ASSUME NEW c \in Clients, request'[c].phase = "fetched"
      PROVE  request'[c].values = [k \in Keys |-> IF k \in Wanted(request'[c]) THEN redis'[k] ELSE 0]
  <2>1. CASE request'[c] = request[c]
    BY <1>1, <1>3, <2>1 DEF Fresh, Reading
  <2>2. CASE NowFetched(c)
    BY <2>2 DEF NowFetched
  <2>3. CASE NowResolved(c) \/ NowScanning(c)
    BY <1>3, <2>3 DEF NowResolved, NowScanning
  <2>. QED BY <1>3, <2>1, <2>2, <2>3, RequestSteps DEF Base, Asking
<1>. QED BY <1>2, <1>3 DEF Fresh

LEMMA AttachedWithout ==
  ASSUME Attached, NEW c, NEW topics, MapWithout(hub, hub', topics, c), Shapes
  PROVE  Attached'
<1>1. /\ hub'.direct = hub.direct \ ({c} \X topics)
      /\ hub'.indirect = Kept(hub, hub.indirect, topics, c)
      /\ \A m \in Multis : m \in Mentioned(hub') => hub'.subtopics[m] = hub.subtopics[m]
  BY DEF MapWithout
<1>. SUFFICES ASSUME NEW i \in hub'.indirect
              PROVE  <<i[1], i[3]>> \in hub'.direct /\ i[2] \in hub'.subtopics[i[3]]
  BY DEF Attached
<1>2. /\ i \in hub.indirect /\ <<i[1], i[3]>> \in hub.direct /\ i[2] \in hub.subtopics[i[3]]
      /\ i[1] # c \/ i[3] \notin topics
  BY <1>1 DEF Attached, Kept
<1>3. <<i[1], i[3]>> \in hub'.direct
  BY <1>1, <1>2
<1>4. i[3] \in Mentioned(hub')
  <2>1. <<i[1], i[3]>>[2] = i[3]
    OBVIOUS
  <2>. QED BY <1>3, <2>1 DEF Mentioned
<1>5. i[3] \in Multis
  BY <1>2, ShapesTyped DEF Typed, HubType
<1>. QED BY <1>1, <1>2, <1>3, <1>4, <1>5

LEMMA AttachedStep ==
  ASSUME Base, Fresh, Attached, [Next]_vars
  PROVE  Attached'
<1>. USE DEF Base
<1>1. CASE Quiet
  BY <1>1 DEF Quiet, Attached
<1>2. ASSUME NEW c \in Clients, NEW t \in Topics, Unsubscribe(c, t) PROVE Attached'
  BY <1>2, UnsubscribeFields, AttachedWithout
<1>3. ASSUME NEW c \in Clients, Register(c), ~ UNCHANGED <<hub, subs, held>> PROVE Attached'
  <2>. DEFINE keys == request[c].keys
  <2>1. PICK t \in Topics : /\ request[c].phase = "fetched" /\ request[c].topic = {t}
                            /\ RegisterDone(c, t)
    BY <1>3, RegisterFields
  <2>2. /\ hub'.direct = hub.direct \cup {<<c, t>>}
        /\ hub'.indirect = hub.indirect \cup Through(c, t, keys)
        /\ hub'.subtopics = IF t \in Multis THEN [hub.subtopics EXCEPT ![t] = keys] ELSE hub.subtopics
    BY <2>1 DEF RegisterDone
  <2>3. hub.subtopics \in [Multis -> SUBSET Keys]
    BY ShapesTyped DEF Typed, HubType
  <2>4. t \in Multis => hub.subtopics[t] \subseteq keys
    <3>1. ASSUME t \in Multis PROVE hub.subtopics[t] \subseteq Indexed(t) /\ Indexed(t) \subseteq keys
      BY <2>1, <3>1 DEF Resolved, Fresh, Reading
    <3>. QED BY <3>1
  <2>. HIDE DEF keys
  <2>5. ASSUME NEW i \in hub.indirect
        PROVE  <<i[1], i[3]>> \in hub'.direct /\ i[2] \in hub'.subtopics[i[3]]
    <3>1. <<i[1], i[3]>> \in hub.direct /\ i[2] \in hub.subtopics[i[3]] /\ i[3] \in Multis
      BY ShapesTyped DEF Attached, Typed, HubType
    <3>2. hub.subtopics[i[3]] \subseteq hub'.subtopics[i[3]]
      BY <2>2, <2>3, <2>4, <3>1
    <3>. QED BY <2>2, <3>1, <3>2
  <2>6. ASSUME NEW i \in Through(c, t, keys)
        PROVE  <<i[1], i[3]>> \in hub'.direct /\ i[2] \in hub'.subtopics[i[3]]
    <3>1. t \in Multis /\ i[1] = c /\ i[2] \in keys /\ i[3] = t
      BY <2>6 DEF Through
    <3>. QED BY <2>2, <2>3, <3>1
  <2>. QED BY <2>2, <2>5, <2>6 DEF Attached
<1>4. ASSUME NEW c \in Clients, OnDisconnect(c) PROVE Attached'
  <2>1. MapWithout(hub, hub', {t \in Topics : <<c, t>> \in subs.direct}, c)
    BY <1>4, OnDisconnectFields
  <2>. QED BY <2>1, AttachedWithout
<1>5. CASE Expand
  <2>. DEFINE k == Head(queue)[1]
  <2>1. k \in Keys
    BY <1>5, ExpandFields
  <2>2. PICK rank \in Ranks(Gaining(k)) : GainDone(k, Gains(k, rank))
    BY <1>5, ExpandFields
  <2>. DEFINE gains == Gains(k, rank)
  <2>3. /\ hub'.direct = hub.direct /\ hub'.indirect = hub.indirect \cup gains
        /\ \A m \in Multis :
             hub'.subtopics[m] = IF \E g \in gains : g[3] = m THEN hub.subtopics[m] \cup {k}
                                 ELSE hub.subtopics[m]
    BY <2>2 DEF GainDone
  <2>4. \A g \in gains : /\ g[2] = k /\ g[3] \in Gaining(k) /\ <<g[1], g[3]>> \in hub.direct
    BY <2>1, GainsFacts
  <2>5. Gaining(k) \subseteq Multis /\ \A i \in hub.indirect : i[3] \in Multis
    BY ShapesTyped DEF Gaining, Typed, HubType
  <2>. HIDE DEF gains, k
  <2>6. ASSUME NEW i \in hub.indirect
        PROVE  <<i[1], i[3]>> \in hub'.direct /\ i[2] \in hub'.subtopics[i[3]]
    <3>1. <<i[1], i[3]>> \in hub.direct /\ i[2] \in hub.subtopics[i[3]] /\ i[3] \in Multis
      BY <2>5 DEF Attached
    <3>2. hub.subtopics[i[3]] \subseteq hub'.subtopics[i[3]]
      BY <2>3, <3>1
    <3>. QED BY <2>3, <3>1, <3>2
  <2>7. ASSUME NEW g \in gains
        PROVE  <<g[1], g[3]>> \in hub'.direct /\ g[2] \in hub'.subtopics[g[3]]
    <3>1. g[3] \in Multis /\ g[2] = k /\ <<g[1], g[3]>> \in hub.direct
      BY <2>4, <2>5
    <3>2. hub'.subtopics[g[3]] = hub.subtopics[g[3]] \cup {k}
      BY <2>3, <3>1
    <3>. QED BY <2>3, <3>1, <3>2
  <2>. QED BY <2>3, <2>6, <2>7 DEF Attached
<1>. QED BY <1>1, <1>2, <1>3, <1>4, <1>5, Steps

(* What BPS and Expand do to the values on their way. *)
LEMMA QueuedAfterFeed ==
  ASSUME Shapes, NEW k \in Keys, Write(k) \/ Index(k) \/ Publish(k)
  PROVE  /\ Among(queue', publisher', k, redis'[k])
         /\ \A j \in Keys \ {k} : /\ redis'[j] = redis[j]
                                  /\ Queued(j) => Among(queue', publisher', j, redis'[j])
         /\ \A i \in 1..Len(queue') :
              queue'[i][1] = k \/ (i \in 1..Len(queue) /\ queue'[i] = queue[i])
         /\ subs' = subs /\ handler' = handler /\ held' = held
<1>1. CASE Write(k)
  <2>1. /\ queue' = queue /\ publisher = Ready /\ publisher' # Ready /\ publisher'.key = k
        /\ \A j \in Keys \ {k} : redis'[j] = redis[j]
    BY <1>1, WriteFacts
  <2>. QED BY <1>1, <2>1, WriteFacts DEF Queued, Among
<1>2. CASE Index(k)
  <2>1. /\ queue' = queue /\ redis' = redis /\ publisher # Ready /\ publisher.key = k
        /\ publisher' # Ready /\ publisher'.key = k
    BY <1>2, IndexFacts
  <2>. QED BY <1>2, <2>1, IndexFacts DEF Queued, Among
<1>3. CASE Publish(k)
  <2>1. Among(queue', publisher', k, redis'[k])
    <3>1. /\ Len(queue) + 1 \in 1..Len(queue') /\ redis' = redis
          /\ queue'[Len(queue) + 1] = <<k, redis[k]>>
      BY <1>3, PublishFacts
    <3>. QED BY <3>1 DEF Among
  <2>2. ASSUME NEW j \in Keys \ {k}, Queued(j) PROVE Among(queue', publisher', j, redis'[j])
    <3>1. publisher.key = k
      BY <1>3, PublishFacts
    <3>2. PICK i \in 1..Len(queue) : queue[i] = <<j, redis[j]>>
      BY <2>2, <3>1 DEF Queued, Among
    <3>3. i \in 1..Len(queue') /\ queue'[i] = queue[i] /\ redis' = redis
      BY <1>3, PublishFacts
    <3>. QED BY <3>2, <3>3 DEF Among
  <2>3. ASSUME NEW i \in 1..Len(queue')
        PROVE  queue'[i][1] = k \/ (i \in 1..Len(queue) /\ queue'[i] = queue[i])
    <3>1. CASE i \in 1..Len(queue)
      BY <1>3, <3>1, PublishFacts
    <3>2. CASE i = Len(queue) + 1
      <4>1. queue'[i] = <<k, redis[k]>>
        BY <1>3, <3>2, PublishFacts
      <4>. QED BY <4>1
    <3>. QED BY <1>3, <3>1, <3>2, PublishFacts
  <2>4. redis' = redis /\ subs' = subs /\ handler' = handler /\ held' = held
    BY <1>3, PublishFacts
  <2>. QED BY <2>1, <2>2, <2>3, <2>4
<1>. QED BY <1>1, <1>2, <1>3

LEMMA QueuedAfterExpand ==
  ASSUME Shapes, Sides, Limits, Order, Expand, NEW k \in Keys, Queued(k)
  PROVE  /\ Among(queue', publisher', k, redis'[k]) \/ (queue[1] = <<k, redis[k]>> /\ handler'.update = queue[1])
         /\ \A i \in 1..Len(queue') : queue'[i][1] = k => Among(queue', publisher', k, redis'[k])
<1>1. /\ redis' = redis /\ queue' = Tail(queue) /\ queue # <<>> /\ handler'.update = queue[1]
  BY ExpandFields, TailFacts
<1>2. /\ Len(queue) \in Nat /\ Len(queue') = Len(queue) - 1 /\ 1 \in 1..Len(queue)
      /\ \A i \in 1..Len(queue') : i + 1 \in 1..Len(queue) /\ queue'[i] = queue[i + 1]
  BY <1>1, TailFacts
<1>3. CASE publisher # Ready /\ publisher.key = k
  <2>1. publisher' = publisher
    BY ExpandFields
  <2>. QED BY <1>3, <2>1 DEF Among
<1>4. ASSUME NEW i \in 1..Len(queue), queue[i] = <<k, redis[k]>>, i # 1
      PROVE  Among(queue', publisher', k, redis'[k])
  <2>1. i - 1 \in 1..Len(queue') /\ (i - 1) + 1 = i
    BY <1>2, <1>4
  <2>2. queue'[i - 1] = <<k, redis'[k]>>
    BY <1>1, <1>2, <1>4, <2>1
  <2>. QED BY <2>1, <2>2 DEF Among
<1>5. CASE queue[1] = <<k, redis[k]>>
  <2>2. ASSUME NEW j \in 1..Len(queue'), queue'[j][1] = k PROVE FALSE
    <3>1. j + 1 \in 1..Len(queue) /\ queue'[j] = queue[j + 1] /\ 1 < j + 1
      BY <1>2
    <3>2. queue[j + 1][1] = k
      BY <2>2, <3>1
    <3>3. queue[1][2] < queue[j + 1][2] /\ queue[j + 1][2] <= redis[k]
      BY <1>2, <1>5, <3>1, <3>2 DEF Order, InOrder
    <3>4. queue[j + 1][2] \in Nat /\ redis[k] \in Nat
      BY <3>1, ShapesTyped DEF Typed
    <3>. QED BY <1>5, <3>3, <3>4
  <2>. QED BY <1>1, <1>5, <2>2
<1>6. \/ publisher # Ready /\ publisher.key = k
      \/ \E i \in 1..Len(queue) : queue[i] = <<k, redis[k]>>
  BY DEF Queued, Among
<1>. QED BY <1>3, <1>4, <1>5, <1>6

LEMMA NewestStep ==
  ASSUME Base, environment # "any", Newest, [Next]_vars
  PROVE  Newest'
<1>. USE DEF Base
<1>1. /\ \A i \in 1..Len(queue) : Queued(queue[i][1]) /\ queue[i][1] \in Keys
      /\ handler # Waiting =>
           /\ handler.update[1] \in Keys
           /\ handler.update[2] = redis[handler.update[1]] \/ Queued(handler.update[1])
  BY ShapesTyped DEF Newest, Typed
<1>2. CASE \E k \in Keys : Write(k) \/ Index(k) \/ Publish(k)
  <2>1. PICK k \in Keys : Write(k) \/ Index(k) \/ Publish(k)
    BY <1>2
  <2>2. /\ Among(queue', publisher', k, redis'[k])
        /\ \A j \in Keys \ {k} : /\ Queued(j) => Among(queue', publisher', j, redis'[j])
                                 /\ redis'[j] = redis[j]
        /\ handler' = handler
    BY <2>1, QueuedAfterFeed
  <2>3. ASSUME NEW i \in 1..Len(queue')
        PROVE  Among(queue', publisher', queue'[i][1], redis'[queue'[i][1]])
    <3>1. CASE queue'[i][1] = k
      BY <2>2, <3>1
    <3>2. CASE queue'[i][1] # k
      <4>1. i \in 1..Len(queue) /\ queue'[i] = queue[i]
        BY <2>1, <3>2, QueuedAfterFeed
      <4>2. Queued(queue[i][1]) /\ queue[i][1] \in Keys \ {k}
        BY <1>1, <3>2, <4>1
      <4>. QED BY <2>2, <4>1, <4>2
    <3>. QED BY <3>1, <3>2
  <2>4. ASSUME handler' # Waiting
        PROVE  \/ handler'.update[2] = redis'[handler'.update[1]]
               \/ Among(queue', publisher', handler'.update[1], redis'[handler'.update[1]])
    <3>1. CASE handler.update[1] = k
      BY <2>2, <3>1
    <3>2. CASE handler.update[1] # k
      <4>. DEFINE j == handler.update[1]
      <4>1. j \in Keys \ {k}
        BY <1>1, <2>2, <2>4, <3>2
      <4>. HIDE DEF j
      <4>2. (Queued(j) => Among(queue', publisher', j, redis'[j])) /\ redis'[j] = redis[j]
        BY <2>2, <4>1
      <4>3. handler.update[2] = redis[j] \/ Queued(j)
        BY <1>1, <2>2, <2>4 DEF j
      <4>4. handler'.update[1] = j /\ handler'.update[2] = handler.update[2]
        BY <2>2 DEF j
      <4>. QED BY <4>2, <4>3, <4>4
    <3>. QED BY <3>1, <3>2
  <2>. QED BY <2>3, <2>4 DEF Newest, Queued
<1>3. CASE Expand
  <2>1. \A i \in 1..Len(queue') : queue'[i][1] \in Keys /\ Queued(queue'[i][1])
    BY <1>1, <1>3, ExpandFields, TailFacts
  <2>2. \A i \in 1..Len(queue') : Among(queue', publisher', queue'[i][1], redis'[queue'[i][1]])
    BY <1>3, <2>1, QueuedAfterExpand
  <2>3. handler'.update = queue[1] /\ redis' = redis /\ 1 \in 1..Len(queue)
    BY <1>3, ExpandFields, TailFacts
  <2>. DEFINE k == queue[1][1]
  <2>4. k \in Keys /\ Queued(k)
    BY <1>1, <2>3
  <2>5. Among(queue', publisher', k, redis'[k]) \/ queue[1] = <<k, redis[k]>>
    BY <1>3, <2>4, QueuedAfterExpand
  <2>6. handler'.update[2] = redis'[k] \/ Among(queue', publisher', k, redis'[k])
    BY <2>3, <2>5
  <2>7. handler'.update[1] = k
    BY <2>3
  <2>. HIDE DEF k
  <2>. QED BY <2>2, <2>6, <2>7 DEF Newest, Queued
<1>4. CASE UNCHANGED feed /\ ~ Expand
  <2>1. \A k : Among(queue', publisher', k, redis'[k]) <=> Queued(k)
    BY <1>4 DEF Queued
  <2>2. CASE UNCHANGED handler
    BY <1>1, <1>4, <2>1, <2>2 DEF Newest, Queued
  <2>3. CASE handler' = Waiting
    BY <1>1, <1>4, <2>1, <2>3 DEF Newest, Queued
  <2>4. CASE handler # Waiting /\ handler'.update = handler.update
    BY <1>1, <1>4, <2>1, <2>4 DEF Newest, Queued
  <2>. QED BY <1>4, <2>2, <2>3, <2>4, HandlerSteps
<1>5. ~ Lagged
  BY DEF Lagged
<1>. QED BY <1>2, <1>3, <1>4, <1>5, QueueSteps

(* What a registration gives its connection: nothing that is not in Redis, *)
(* and the values of all the keys it subscribes to.                        *)
LEMMA RegisterHolds ==
  ASSUME Base, Fresh, Current, NEW c \in Clients, NEW t \in Topics,
         request[c].phase = "fetched", request[c].topic = {t}, RegisterDone(c, t)
  PROVE  /\ \A k \in Keys : held'[c][k] = held[c][k] \/ held'[c][k] = redis[k]
         /\ \A d \in Clients \ {c} : held'[d] = held[d]
         /\ \A d \in Clients, k \in Keys :
              ContainsSubscription(subs', d, k) /\ ~ ContainsSubscription(subs, d, k)
                => held'[d][k] = redis[k]
<1>. DEFINE r == request[c]
<1>1. /\ redis \in [Keys -> Nat] /\ held \in [Clients -> [Keys -> Nat]]
      /\ r \in RequestType /\ subs \in SubsType
  BY ShapesTyped DEF Base, Typed
<1>2. \A k \in Keys : r.values[k] = IF k \in Wanted(r) THEN redis[k] ELSE 0
  BY DEF Fresh
<1>. HIDE DEF r
<1>3. held' = [held EXCEPT ![c] = [k \in Keys |-> IF r.values[k] > 0 THEN r.values[k] ELSE held[c][k]]]
  BY DEF RegisterDone, r
<1>4. /\ \A k \in Keys : held'[c][k] = IF r.values[k] > 0 THEN r.values[k] ELSE held[c][k]
      /\ \A d \in Clients \ {c} : held'[d] = held[d]
  BY <1>1, <1>3
<1>5. \A k \in Keys : held'[c][k] = held[c][k] \/ held'[c][k] = redis[k]
  BY <1>2, <1>4
<1>6. ASSUME NEW k \in Wanted(r), k \in Keys PROVE held'[c][k] = redis[k]
  <2>1. held[c][k] <= redis[k] /\ held[c][k] \in Nat /\ redis[k] \in Nat
    BY <1>1, <1>6 DEF Current
  <2>. QED BY <1>2, <1>4, <1>6, <2>1
<1>7. ASSUME NEW d \in Clients, NEW k \in Keys,
             ContainsSubscription(subs', d, k), ~ ContainsSubscription(subs, d, k)
      PROVE  d = c /\ k \in Wanted(r)
  <2>1. /\ subs'.direct = subs.direct \cup {<<c, t>>}
        /\ subs'.sources = subs.sources \cup Through(c, t, r.keys)
    BY DEF RegisterDone, r
  <2>2. CASE <<d, k>> \in subs'.direct
    <3>1. d = c /\ k = t
      BY <1>7, <2>1, <2>2 DEF ContainsSubscription
    <3>. QED BY <1>7, <3>1 DEF Wanted, r
  <2>3. CASE \E i \in subs'.sources : i[1] = d /\ i[2] = k
    <3>1. PICK i \in subs'.sources : i[1] = d /\ i[2] = k
      BY <2>3
    <3>2. i \in Through(c, t, r.keys)
      BY <1>7, <2>1, <3>1 DEF ContainsSubscription
    <3>3. i[1] = c /\ i[2] \in r.keys /\ t \in Multis
      BY <3>2 DEF Through
    <3>4. ~ (r.topic \subseteq Keys)
      BY <3>3, Constants DEF r
    <3>. QED BY <3>1, <3>3, <3>4 DEF Wanted
  <2>. QED BY <1>7, <2>2, <2>3 DEF ContainsSubscription
<1>. QED BY <1>4, <1>5, <1>6, <1>7

HeldBack == \A c \in Clients, k \in Keys : held[c][k] <= redis[k]

LEMMA HeldBackStep ==
  ASSUME Base, Fresh, Current, [Next]_vars
  PROVE  HeldBack'
<1>. USE DEF Base
<1>1. redis \in [Keys -> Nat] /\ held \in [Clients -> [Keys -> Nat]] /\ redis' \in [Keys -> Nat]
  <2>1. Shapes'
    BY ShapesStep
  <2>. QED BY <2>1 DEF Shapes, TypeOK
<1>2. \A k \in Keys : redis[k] <= redis'[k]
  BY RedisGrows
<1>3. \A c \in Clients, k \in Keys : held[c][k] <= redis[k]
  BY DEF Current
<1>4. ASSUME held' = held PROVE HeldBack'
  <2>. SUFFICES ASSUME NEW c \in Clients, NEW k \in Keys PROVE held'[c][k] <= redis'[k]
    BY DEF HeldBack
  <2>1. held[c][k] \in Nat /\ redis[k] \in Nat /\ redis'[k] \in Nat
    BY <1>1
  <2>. QED BY <1>2, <1>3, <1>4, <2>1
<1>5. ASSUME NEW c \in Clients, Register(c), ~ UNCHANGED held PROVE HeldBack'
  <2>1. PICK t \in Topics : /\ request[c].phase = "fetched" /\ request[c].topic = {t}
                            /\ RegisterDone(c, t) /\ UNCHANGED Others
    BY <1>5, RegisterFields
  <2>2. redis' = redis
    BY <2>1 DEF Others
  <2>3. /\ \A k \in Keys : held'[c][k] = held[c][k] \/ held'[c][k] = redis[k]
        /\ \A d \in Clients \ {c} : held'[d] = held[d]
    BY <2>1, RegisterHolds
  <2>. SUFFICES ASSUME NEW d \in Clients, NEW k \in Keys PROVE held'[d][k] <= redis'[k]
    BY DEF HeldBack
  <2>4. held[d][k] <= redis[k] /\ redis[k] \in Nat
    BY <1>1, <1>3
  <2>. QED BY <2>2, <2>3, <2>4
<1>6. ASSUME NEW c \in Clients, Deliver(c) PROVE HeldBack'
  <2>1. handler # Waiting /\ redis' = redis
    BY <1>6 DEF Deliver, Waiting
  <2>2. handler.update[2] <= redis[handler.update[1]] /\ handler.update[1] \in Keys
    BY <2>1, ShapesTyped DEF Order, Typed
  <2>3. held' = held \/ held' = [held EXCEPT ![c][handler.update[1]] = handler.update[2]]
    BY <1>6 DEF Deliver
  <2>. SUFFICES ASSUME NEW d \in Clients, NEW k \in Keys PROVE held'[d][k] <= redis'[k]
    BY DEF HeldBack
  <2>4. held'[d][k] = held[d][k] \/ (k = handler.update[1] /\ held'[d][k] = handler.update[2])
    BY <1>1, <2>3
  <2>. QED BY <1>3, <2>1, <2>2, <2>4
<1>7. ASSUME NEW c \in Clients, Scan(c) \/ Resolve(c) PROVE held' = held
  BY <1>7 DEF Scan, Resolve
<1>. QED BY <1>4, <1>5, <1>6, <1>7
         DEF Next, vars, Write, Index, Publish, Lagged, Ask, Refuse, Fetch, Unsubscribe, Close, OnDisconnect,
             Expand, Collect

(* The steps that leave the values on their way alone. *)
LEMMA StillInFlight ==
  ASSUME UNCHANGED <<feed, handler>>, NEW c, NEW k, InFlight(c, k)
  PROVE  InFlight(c, k)'
BY DEF InFlight, Queued, Among

CurrentFor(c, k) == ContainsSubscription(subs, c, k) => held[c][k] = redis[k] \/ InFlight(c, k)

LEMMA CurrentStep ==
  ASSUME Base, environment # "any", Fresh, Newest, Current, [Next]_vars
  PROVE  Current'
<1>. USE DEF Base
<1>. SUFFICES ASSUME NEW c \in Clients, NEW k \in Keys PROVE CurrentFor(c, k)'
  BY HeldBackStep DEF Current, CurrentFor, HeldBack
<1>1. CurrentFor(c, k)
  BY DEF Current, CurrentFor
<1>2. ASSUME UNCHANGED <<feed, handler, held>>,
             ContainsSubscription(subs', c, k) => ContainsSubscription(subs, c, k)
      PROVE  CurrentFor(c, k)'
  BY <1>1, <1>2, StillInFlight DEF CurrentFor
<1>3. ASSUME NEW j \in Keys, Write(j) \/ Index(j) \/ Publish(j) PROVE CurrentFor(c, k)'
  <2>1. CASE k = j
    <3>1. Queued(k)'
      BY <1>3, <2>1, QueuedAfterFeed DEF Queued
    <3>. QED BY <3>1 DEF CurrentFor, InFlight
  <2>2. CASE k # j
    <3>3. /\ Queued(k) => Among(queue', publisher', k, redis'[k])
          /\ redis'[k] = redis[k] /\ handler' = handler /\ held' = held /\ subs' = subs
      <4>. HIDE DEF Queued
      <4>. QED BY <1>3, <2>2, QueuedAfterFeed
    <3>1. /\ Queued(k) => Queued(k)'
          /\ redis'[k] = redis[k] /\ handler' = handler /\ held' = held /\ subs' = subs
      BY <3>3 DEF Queued
    <3>2. InFlight(c, k) => InFlight(c, k)'
      BY <3>1 DEF InFlight
    <3>. QED BY <1>1, <3>1, <3>2 DEF CurrentFor
  <2>. QED BY <2>1, <2>2
<1>4. ASSUME NEW d \in Clients, NEW t \in Topics, Unsubscribe(d, t) PROVE CurrentFor(c, k)'
  <2>1. subs'.direct \subseteq subs.direct /\ subs'.sources \subseteq subs.sources
    BY <1>4, UnsubscribeFields DEF Kept
  <2>. QED BY <1>2, <1>4, <2>1 DEF Unsubscribe, ContainsSubscription
<1>5. ASSUME NEW d \in Clients, OnDisconnect(d) PROVE CurrentFor(c, k)'
  <2>1. subs'.direct \subseteq subs.direct /\ subs'.sources \subseteq subs.sources
    BY <1>5, OnDisconnectFields
  <2>. QED BY <1>2, <1>5, <2>1 DEF OnDisconnect, ContainsSubscription
<1>6. ASSUME NEW d \in Clients, Register(d) PROVE CurrentFor(c, k)'
  <2>1. PICK t \in Topics : /\ request[d].topic = {t} /\ request[d].phase = "fetched"
                            /\ UNCHANGED Others
                            /\ UNCHANGED <<hub, subs, held>> \/ RegisterDone(d, t)
    BY <1>6, RegisterFields
  <2>2. UNCHANGED <<feed, handler>>
    BY <2>1 DEF Others
  <2>3. CASE UNCHANGED <<hub, subs, held>>
    BY <1>2, <2>2, <2>3
  <2>4. CASE RegisterDone(d, t)
    <3>1. /\ held'[c][k] = held[c][k] \/ held'[c][k] = redis[k]
          /\ ContainsSubscription(subs', c, k) /\ ~ ContainsSubscription(subs, c, k)
               => held'[c][k] = redis[k]
      BY <2>1, <2>4, RegisterHolds
    <3>. QED BY <1>1, <2>2, <3>1, StillInFlight DEF CurrentFor
  <2>. QED BY <2>1, <2>3, <2>4
<1>7. CASE Expand
  <2>. DEFINE head == queue[1][1]
  <2>1. /\ handler = Waiting /\ handler'.stage = "expanded" /\ handler'.update = queue[1]
        /\ redis' = redis /\ held' = held /\ 1 \in 1..Len(queue)
        /\ head = Head(queue)[1] /\ head \in Keys
    BY <1>7, ExpandFields, TailFacts
  <2>2. ASSUME Queued(k) PROVE InFlight(c, k)'
    <3>1. Queued(k)' \/ (queue[1] = <<k, redis[k]>> /\ handler'.update = queue[1])
      BY <1>7, <2>2, QueuedAfterExpand DEF Queued
    <3>2. (handler'.stage = "expanded" /\ handler'.update = <<k, redis'[k]>>) => InFlight(c, k)'
      BY DEF InFlight
    <3>3. Queued(k)' => InFlight(c, k)'
      BY DEF InFlight
    <3>. QED BY <2>1, <3>1, <3>2, <3>3
  <2>3. InFlight(c, k) => Queued(k)
    BY <2>1 DEF InFlight, Waiting
  <2>4. PICK rank \in Ranks(Gaining(head)) : GainDone(head, Gains(head, rank))
    BY <1>7, <2>1, ExpandFields
  <2>. DEFINE gains == Gains(head, rank)
  <2>5. subs'.direct = subs.direct /\ subs'.sources = subs.sources \cup gains
    BY <2>4 DEF GainDone
  <2>6. \A g \in gains : g[2] = head
    BY <2>1, GainsFacts
  <2>7. Queued(head)
    BY <2>1 DEF Newest
  <2>. HIDE DEF gains, head
  <2>8. ContainsSubscription(subs', c, k) => ContainsSubscription(subs, c, k) \/ k = head
    BY <2>5, <2>6 DEF ContainsSubscription
  <2>. QED BY <1>1, <2>1, <2>2, <2>3, <2>7, <2>8 DEF CurrentFor
<1>8. CASE Collect
  <2>. DEFINE j  == handler.update[1]
              to == Subscribed(j)
  <2>1. /\ handler.stage = "expanded" /\ UNCHANGED <<feed, subs, held>>
        /\ handler' = IF to = {} THEN Waiting ELSE [handler EXCEPT !.stage = "sending", !.to = to]
    BY <1>8 DEF Collect
  <2>2. handler \in [stage : {"expanded", "sending"}, update : Keys \X Nat, to : SUBSET Clients]
    BY <2>1, ShapesTyped DEF Typed, Waiting
  <2>3. (ContainsSubscription(subs, c, k) /\ j = k) => c \in to
    <3>. SUFFICES ASSUME ContainsSubscription(subs, c, j), j = k PROVE c \in to
      OBVIOUS
    <3>1. CASE <<c, j>> \in subs.direct
      <4>1. <<c, j>> \in hub.direct /\ request[c].phase # "gone"
        BY <3>1 DEF Sides
      <4>. QED BY <4>1 DEF Subscribed
    <3>2. CASE \E i \in subs.sources : i[1] = c /\ i[2] = j
      <4>1. PICK i \in subs.sources : i[1] = c /\ i[2] = j
        BY <3>2
      <4>2. i \in hub.indirect /\ request[i[1]].phase # "gone"
        BY DEF Sides
      <4>3. i[3] \in Multis /\ i = <<c, j, i[3]>>
        BY <4>1, ShapesTyped DEF Typed, SubsType
      <4>. QED BY <4>1, <4>2, <4>3 DEF Subscribed
    <3>. QED BY <3>1, <3>2 DEF ContainsSubscription
  <2>. HIDE DEF to
  <2>4. to # {} => handler'.stage = "sending" /\ handler'.update = handler.update /\ handler'.to = to
    BY <2>1, <2>2
  <2>5. ASSUME InFlight(c, k), ContainsSubscription(subs, c, k) PROVE InFlight(c, k)'
    <3>1. CASE Queued(k)
      <4>1. Queued(k)'
        BY <2>1, <3>1 DEF Queued
      <4>. QED BY <4>1 DEF InFlight
    <3>2. CASE handler.update = <<k, redis[k]>>
      <4>1. c \in to
        BY <2>3, <2>5, <3>2
      <4>2. handler'.stage = "sending" /\ handler'.update = <<k, redis'[k]>> /\ c \in handler'.to
        BY <2>1, <2>4, <3>2, <4>1
      <4>. QED BY <4>2 DEF InFlight
    <3>. QED BY <2>1, <2>5, <3>1, <3>2 DEF InFlight
  <2>. QED BY <1>1, <2>1, <2>5 DEF CurrentFor
<1>9. ASSUME NEW d \in Clients, Deliver(d) PROVE CurrentFor(c, k)'
  <2>. DEFINE j  == handler.update[1]
              to == handler.to \ {d}
  <2>1. /\ handler.stage = "sending" /\ UNCHANGED <<feed, subs>>
        /\ held' = IF ContainsSubscription(subs, d, j)
                     THEN [held EXCEPT ![d][j] = handler.update[2]] ELSE held
        /\ handler' = IF to = {} THEN Waiting ELSE [handler EXCEPT !.to = to]
    BY <1>9 DEF Deliver
  <2>2. handler \in [stage : {"expanded", "sending"}, update : Keys \X Nat, to : SUBSET Clients]
    BY <2>1, ShapesTyped DEF Typed, Waiting
  <2>3. handler # Waiting
    BY <2>1 DEF Waiting
  <2>4. handler.update[2] = redis[j] \/ Queued(j)
    BY <2>3 DEF Newest
  <2>5. to # {} => handler'.stage = "sending" /\ handler'.update = handler.update /\ handler'.to = to
    BY <2>1, <2>2
  <2>6. Queued(k) => Queued(k)'
    BY <2>1 DEF Queued
  <2>7. held \in [Clients -> [Keys -> Nat]] /\ j \in Keys
    BY <2>2, ShapesTyped DEF Typed
  <2>. SUFFICES ASSUME ContainsSubscription(subs, c, k)
                PROVE  held'[c][k] = redis'[k] \/ InFlight(c, k)'
    BY <2>1 DEF CurrentFor
  <2>8. CASE c = d /\ k = j
    <3>1. held'[c][k] = handler.update[2]
      BY <2>1, <2>7, <2>8
    <3>. QED BY <2>1, <2>4, <2>6, <2>8, <3>1 DEF InFlight
  <2>9. CASE ~ (c = d /\ k = j)
    <3>1. held'[c][k] = held[c][k]
      BY <2>1, <2>7, <2>9
    <3>2. ASSUME InFlight(c, k) PROVE InFlight(c, k)'
      <4>1. CASE Queued(k)
        BY <2>6, <4>1 DEF InFlight
      <4>2. CASE handler.update = <<k, redis[k]>> /\ c \in handler.to
        <5>1. k = j /\ c \in to
          BY <2>9, <4>2
        <5>. HIDE DEF to
        <5>2. handler'.stage = "sending" /\ handler'.update = <<k, redis'[k]>> /\ c \in handler'.to
          BY <2>1, <2>5, <4>2, <5>1
        <5>. QED BY <5>2 DEF InFlight
      <4>. QED BY <2>1, <3>2, <4>1, <4>2 DEF InFlight
    <3>. QED BY <1>1, <2>1, <3>1, <3>2 DEF CurrentFor
  <2>. QED BY <2>8, <2>9
<1>10. ASSUME NEW d \in Clients, Scan(d) \/ Resolve(d) PROVE CurrentFor(c, k)'
  BY <1>2, <1>10 DEF Scan, Resolve
<1>11. ASSUME NEW d \in Clients, NEW t \in Topics, Ask(d, t) PROVE CurrentFor(c, k)'
  BY <1>2, <1>11 DEF Ask
<1>12. ASSUME NEW d \in Clients, Refuse(d) \/ Fetch(d) \/ Close(d) PROVE CurrentFor(c, k)'
  BY <1>2, <1>12 DEF Refuse, Fetch, Close
<1>13. CASE UNCHANGED vars
  BY <1>2, <1>13 DEF vars
<1>14. ~ Lagged
  BY DEF Lagged
<1>. QED BY <1>3, <1>4, <1>5, <1>6, <1>7, <1>8, <1>9, <1>10, <1>11, <1>12, <1>13, <1>14 DEF Next
-----------------------------------------------------------------------------
-----------------------------------------------------------------------------
(* The invariant holds at first, when nothing is subscribed or queued. *)
LEMMA InitInv == Init => IInv
<1>. SUFFICES ASSUME Init PROVE IInv
  OBVIOUS
<1>1. /\ redis = NoValues /\ index = {} /\ publisher = Ready /\ queue = <<>> /\ handler = Waiting
      /\ hub = [entries |-> {}, direct |-> {}, indirect |-> {}, subtopics |-> [m \in Multis |-> {}]]
      /\ subs = [direct |-> {}, sources |-> {}, count |-> [c \in Clients |-> 0]]
      /\ request = [c \in Clients |-> Idle] /\ held = [c \in Clients |-> NoValues]
      /\ environment \in Environments
  BY DEF Init
<1>2. NoValues \in [Keys -> Nat] /\ \A k \in Keys : NoValues[k] = 0
  BY DEF NoValues
<1>3. Shapes
  <2>1. hub \in HubType /\ subs \in SubsType
    BY <1>1 DEF HubType, SubsType
  <2>2. request \in [Clients -> RequestType] /\ \A c \in Clients : RequestOK(request[c])
    BY <1>1, IdleOK
  <2>3. queue \in Seq(Keys \X Nat)
    BY <1>1
  <2>. QED BY <1>1, <1>2, <2>1, <2>2, <2>3, ShapesTyped DEF Typed
<1>4. /\ hub.entries = {} /\ hub.direct = {} /\ hub.indirect = {}
      /\ subs.direct = {} /\ subs.sources = {}
      /\ \A c \in Clients : subs.count[c] = 0
      /\ \A m \in Multis : hub.subtopics[m] = {}
  BY <1>1
<1>5. Sides
  <2>1. Mentioned(hub) = {}
    BY <1>4 DEF Mentioned
  <2>. QED BY <1>4, <2>1 DEF Sides
<1>6. \A c \in Clients : request[c].phase \notin Asking
  BY <1>1 DEF Idle, Asking
<1>7. Limits
  <2>1. \A c : SourcesOf(subs, c) = {} /\ DirectOf(subs, c) = {}
    BY <1>4 DEF SourcesOf, DirectOf
  <2>2. IsFiniteSet({}) /\ Cardinality({}) = 0
    BY FS_EmptySet
  <2>3. MaxDirect \in Nat /\ MaxIndirect \in Nat
    BY Constants
  <2>4. ASSUME NEW c \in Clients
        PROVE  /\ subs.count[c] = Cardinality(SourcesOf(subs, c)) /\ subs.count[c] <= MaxIndirect
               /\ Cardinality(DirectOf(subs, c)) <= MaxDirect
    <3>1. SourcesOf(subs, c) = {} /\ DirectOf(subs, c) = {} /\ subs.count[c] = 0
      BY <1>4, <2>1
    <3>2. 0 <= MaxIndirect /\ 0 <= MaxDirect
      BY <2>3
    <3>. QED BY <2>2, <3>1, <3>2
  <2>. QED BY <1>4, <1>6, <2>2, <2>4 DEF Limits
<1>8. 1..Len(queue) = {}
  BY <1>1
<1>9. Order
  <2>1. publisher.stage # "indexed"
    BY <1>1 DEF Ready
  <2>. QED BY <1>1, <1>8, <2>1 DEF Order, InOrder, Publishing
<1>10. Resolved
  BY <1>4, <1>6 DEF Resolved, Reading, Asking
<1>11. Windowless
  <2>1. Fresh /\ Attached /\ Newest
    BY <1>1, <1>4, <1>6, <1>8 DEF Fresh, Attached, Newest, Reading, Asking
  <2>2. Current
    BY <1>1, <1>2, <1>4 DEF Current, ContainsSubscription
  <2>. QED BY <2>1, <2>2 DEF Windowless
<1>. QED BY <1>3, <1>5, <1>7, <1>9, <1>10, <1>11 DEF IInv

LEMMA StepInv == IInv /\ [Next]_vars => IInv'
<1>. SUFFICES ASSUME IInv, [Next]_vars PROVE IInv'
  OBVIOUS
<1>1. Base /\ Shapes /\ Sides /\ Limits /\ Order /\ Resolved
  BY DEF IInv, Base
<1>2. Shapes' /\ Sides' /\ Limits' /\ Order' /\ Resolved'
  BY <1>1, ShapesStep, SidesStep, LimitsStep, OrderStep, ResolvedStep
<1>3. environment' = environment
  BY <1>1, SameEnvironment
<1>4. Windowless'
  <2>. SUFFICES ASSUME environment # "any" PROVE Fresh' /\ Attached' /\ Newest' /\ Current'
    BY <1>3 DEF Windowless
  <2>1. Fresh /\ Attached /\ Newest /\ Current
    BY DEF IInv, Windowless
  <2>. QED BY <1>1, <2>1, FreshStep, AttachedStep, NewestStep, CurrentStep
<1>. QED BY <1>2, <1>4 DEF IInv

(* Every state the hub reaches satisfies the inductive invariant. *)
THEOREM Invariant == Spec => []IInv
BY InitInv, StepInv, PTL DEF Spec

(* Subscriptions, requests, the queue and what the handler is at keep      *)
(* their types: in particular, the counter of a connection, a usize that   *)
(* is subtracted from, never goes below zero.                              *)
THEOREM TypeCorrect == Spec => []TypeOK
<1>1. IInv => TypeOK
  BY DEF IInv, Shapes
<1>. QED BY <1>1, Invariant, PTL

(* For any number of connections, keys and multi-topics: the connections'  *)
(* own subscriptions and the shared map agree after every step, and the    *)
(* map's entries are exactly the topics with a subscriber.                 *)
THEOREM SidesAlwaysAgree == Spec => []SidesAgree
<1>1. IInv => SidesAgree
  BY DEF IInv, Sides, SidesAgree, NoIdleEntries
<1>. QED BY <1>1, Invariant, PTL

(* For any limits: indirect_count is the number of keys a connection holds *)
(* through its multi-topics, whoever added them, and no connection exceeds *)
(* either limit, although the handler adds to many connections at once.    *)
THEOREM CountsAlwaysExact == Spec => []CountsAreExact
<1>1. IInv => CountsAreExact
  BY DEF IInv, Limits, CountsAreExact, DirectCount, DirectOf, SourcesOf
<1>. QED BY <1>1, Invariant, PTL

(* As long as no key is set or indexed between a subscribe's read and its  *)
(* registration, an indirect subscription never outlives the subscription  *)
(* to the multi-topic it came from.                                        *)
THEOREM AlwaysDetached == Spec => []DetachedWithMultitopic
<1>1. IInv => DetachedWithMultitopic
  BY DEF IInv, Windowless, Attached, DetachedWithMultitopic
<1>. QED BY <1>1, Invariant, PTL

(* Under the same condition a subscriber is never left with an old value:  *)
(* with no event being published or queued, it was last sent what          *)
(* Redis holds, however subscribes, unsubscribes, expansions and           *)
(* deliveries interleaved.                                                 *)
THEOREM AlwaysCurrent == Spec => []WindowlessIsCurrent
<1>1. IInv => WindowlessIsCurrent
  <2>. SUFFICES ASSUME IInv, environment # "any", publisher = Ready, queue = <<>>, handler = Waiting,
                       NEW c \in Clients, NEW k \in Keys, ContainsSubscription(subs, c, k)
                PROVE  held[c][k] = redis[k]
    BY DEF WindowlessIsCurrent
  <2>1. held[c][k] = redis[k] \/ InFlight(c, k)
    BY DEF IInv, Windowless, Current
  <2>2. 1..Len(queue) = {}
    OBVIOUS
  <2>3. ~ InFlight(c, k)
    BY <2>2 DEF InFlight, Queued, Among, Waiting
  <2>. QED BY <2>1, <2>3
<1>. QED BY <1>1, Invariant, PTL
=============================================================================
