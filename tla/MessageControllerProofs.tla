------------------------ MODULE MessageControllerProofs ------------------------
(***************************************************************************)
(* Proofs about MessageController, for any pages, websites, approvals and  *)
(* permissions: no request is left waiting for a message that was decided, *)
(* no new request meets an old decision, and the page API implements Reply.*)
(*                                                                         *)
(* They need what the messages of a request are: it waits for an access    *)
(* message, perhaps of another request, or for its own signing message.    *)
(* So a signing message that is created already decided has no other       *)
(* waiter, and what ends one request with a result is an approval of its   *)
(* own message.                                                            *)
(***************************************************************************)
EXTENDS MessageController, TLAPS

AccessIds == Requests \X {"access"}

StoreType == [origins : [Origins -> SUBSET Types],
              inPending : [Origins -> AccessIds \cup {NoMessage}]]

RequestType == [at : {"new", "access", "generating", "signing", "answered", "lost"},
                waits : Ids \cup {NoMessage}, told : Statuses, answer : Answers]

ApprovalType == [at : {"free", "signing", "broadcasting", "over"},
                 of : Ids \cup {NoMessage}]

\* TypeOK without counters and fees, and with only access messages pending.
StateTypes ==
  /\ originOf \in [Connections -> Origins]
  /\ request \in [Requests -> RequestType]
  /\ message \in [Ids -> Statuses]
  /\ approval \in [Approvals -> ApprovalType]
  /\ permissions \in StoreType

Done == {"signed", "published"}

\* What a request that is at x in the page API waits for.
WaitsWell(r, x) ==
  /\ x.at = "access" => x.waits \in AccessIds
  /\ x.at = "signing" => x.waits = <<r, "signing">>
  /\ x.at = "signing" /\ x.told \in Done => r \in Approved

\* The message is undecided, or the request was told, or the message cleared.
NotLost(r) ==
  request[r].at \in {"access", "signing"}
    => \/ request[r].told # "absent"
       \/ request[r].waits \in Pending
       \/ r \in cleared

Waiters == \A r \in Requests : WaitsWell(r, request[r]) /\ NotLost(r)

Results == \A r \in Requests : message[<<r, "signing">>] \in Done => r \in Approved

Working ==
  \A a \in Approvals :
    /\ approval[a].at = "free" => approval[a].of = NoMessage
    /\ approval[a].at \in {"signing", "broadcasting"}
         => approval[a].of \in Requests \X {"signing"}

IInv == StateTypes /\ Waiters /\ Results /\ Working

-----------------------------------------------------------------------------
(* The permission store keeps its type, and what is pending is an access   *)
(* message or none.                                                        *)
LEMMA StoreOps ==
  ASSUME NEW store \in StoreType, NEW o \in Origins, StoreAssumption
  PROVE  /\ \A m \in AccessIds \cup {NoMessage} : SetMessageIdAccess(store, o, m) \in StoreType
         /\ \A ps \in SUBSET Types : SetPermissions(store, o, ps) \in StoreType
         /\ GetPermissions(store, o) \in SUBSET Types
         /\ DeletePermissions(store, o) \in StoreType
<1>1. \A m \in AccessIds \cup {NoMessage} : SetMessageIdAccess(store, o, m) \in StoreType
  BY DEF StoreType, SetMessageIdAccess, NothingPending
<1>2. \A ps \in SUBSET Types : SetPermissions(store, o, ps) \in StoreType
  BY <1>1 DEF SetPermissions, StoreType, NoPermissions
<1>3. GetPermissions(store, o) \in SUBSET Types
  BY DEF GetPermissions, StoreType, Types
<1>4. DeletePermissions(store, o) \in StoreType
  BY DEF DeletePermissions, StoreType
<1> QED
  BY <1>1, <1>2, <1>3, <1>4

LEMMA StoreUpdates ==
  ASSUME NEW store \in StoreType, NEW o \in Origins, NEW type \in Types, StoreAssumption
  PROVE  /\ SetPermission(store, o, type) \in StoreType
         /\ UpdatePermission(store, o, type) \in StoreType
         /\ DeletePermission(store, o, type) \in StoreType
<1>1. \A ps \in SUBSET Types : SetPermissions(store, o, ps) \in StoreType
  BY StoreOps
<1>2. GetPermissions(store, o) \in SUBSET Types
  BY StoreOps
<1>3. UpdatePermission(store, o, type) \in StoreType
  BY <1>1, <1>2 DEF UpdatePermission
<1>4. SetPermission(store, o, type) \in StoreType
  BY <1>1, <1>2 DEF SetPermission
<1>5. DeletePermission(store, o, type) \in StoreType
  BY <1>1, <1>2 DEF DeletePermission
<1> QED
  BY <1>3, <1>4, <1>5

LEMMA OriginType ==
  ASSUME StateTypes, NEW r \in Requests, ControllerAssumption
  PROVE  Origin(r) \in Origins
  BY DEF Origin, StateTypes, ControllerAssumption

(* Telling awaiters changes nothing else of a request.                     *)
LEMMA ToldFacts ==
  ASSUME StateTypes, NEW ms, NEW status \in Finished, NEW r \in Requests
  PROVE  LET x == Told(ms, status)[r]
             y == request[r]
         IN  /\ x \in RequestType
             /\ x.at = y.at /\ x.waits = y.waits /\ x.answer = y.answer
             /\ \/ x.told = y.told /\ (y.waits \in ms => y.told # "absent")
                \/ y.waits \in ms /\ x.told = status
  BY DEF StateTypes, RequestType, Told, Statuses

-----------------------------------------------------------------------------
LEMMA InitInv == Init => IInv
<1> SUFFICES ASSUME Init PROVE IInv
  OBVIOUS
<1> USE DEF Init
<1>1. StateTypes
  BY ControllerAssumption DEF StateTypes, RequestType, ApprovalType, StoreType, EmptyStore,
     NoPermissions, NothingPending, Statuses, Answers, Ids, ControllerAssumption
<1>2. Waiters
  BY DEF Waiters, WaitsWell, NotLost
<1>3. Results
  BY DEF Results, Ids, Done
<1>4. Working
  BY DEF Working
<1> QED
  BY <1>1, <1>2, <1>3, <1>4 DEF IInv

(* The steps that tell awaiters: every message of ms is left alone, gets   *)
(* the status or leaves the list; a result only after an approval.         *)
LEMMA TellStep ==
  ASSUME IInv, NEW ms \in SUBSET Ids, NEW status \in Finished,
         request' = Told(ms, status),
         message' \in [Ids -> Statuses],
         \A m \in Ids \ ms : message'[m] = message[m],
         \A m \in ms : message'[m] \in {message[m], status, "absent"},
         status \in Done => \A r \in Requests : <<r, "signing">> \in ms => r \in Approved',
         Approved \subseteq Approved',
         originOf' = originOf, permissions' \in StoreType, cleared' = cleared,
         approval' \in [Approvals -> ApprovalType], Working'
  PROVE  IInv'
<1> USE DEF IInv
<1>1. \A r \in Requests :
        LET x == request'[r]
            y == request[r]
        IN  /\ x \in RequestType
            /\ x.at = y.at /\ x.waits = y.waits /\ x.answer = y.answer
            /\ \/ x.told = y.told /\ (y.waits \in ms => y.told # "absent")
               \/ y.waits \in ms /\ x.told = status
  BY ToldFacts
<1>2. request' \in [Requests -> RequestType]
  BY <1>1 DEF Told
<1>3. StateTypes'
  BY <1>2 DEF StateTypes
<1>4. ASSUME NEW r \in Requests PROVE WaitsWell(r, request[r])'
  BY <1>1 DEF Waiters, WaitsWell
<1>5. ASSUME NEW r \in Requests PROVE NotLost(r)'
  <2>1. CASE request'[r].told # "absent"
    BY <2>1 DEF NotLost
  <2>2. CASE request'[r].told = "absent"
    <3>1. request[r].told = "absent" /\ request[r].waits \notin ms
      BY <1>1, <2>2 DEF Finished
    <3>2. NotLost(r)
      BY DEF Waiters
    <3>3. request[r].waits \in Pending => request[r].waits \in Pending'
      BY <3>1 DEF Pending, Stored
    <3> QED
      BY <1>1, <3>1, <3>2, <3>3 DEF NotLost
  <2> QED
    BY <2>1, <2>2
<1>6. Results'
  <2> SUFFICES ASSUME NEW r \in Requests, message'[<<r, "signing">>] \in Done
               PROVE  r \in Approved'
    BY DEF Results
  <2>1. <<r, "signing">> \in Ids
    BY DEF Ids
  <2> QED
    BY <2>1 DEF Results, Done
<1> QED
  BY <1>3, <1>4, <1>5, <1>6 DEF Waiters

(* The steps that move one request: of the messages, only its own signing  *)
(* message may change to more than undecided.                              *)
LEMMA MoveStep ==
  ASSUME IInv, NEW r \in Requests, NEW x \in RequestType,
         request' = [request EXCEPT ![r] = x],
         x.at = "access" => x.waits \in AccessIds,
         x.at = "signing" => x.waits = <<r, "signing">>,
         x.at = "signing" /\ x.told \in Done => r \in Approved',
         x.at \in {"access", "signing"} => x.told # "absent" \/ x.waits \in Pending',
         message' \in [Ids -> Statuses],
         \A m \in Ids : \/ message'[m] \in {message[m], "unapproved"}
                        \/ m = <<r, "signing">> /\ message'[m] \notin Done,
         Approved \subseteq Approved',
         originOf' = originOf, permissions' \in StoreType,
         cleared \subseteq cleared' \cup {r},
         approval' \in [Approvals -> ApprovalType], Working'
  PROVE  IInv'
<1> USE DEF IInv
<1>1. request[r] \in RequestType /\ request'[r] = x
      /\ \A q \in Requests : q # r => request'[q] = request[q]
  BY DEF StateTypes
<1>2. request' \in [Requests -> RequestType]
  BY DEF StateTypes
<1>3. StateTypes'
  BY <1>2 DEF StateTypes
<1>4. ASSUME NEW q \in Requests PROVE WaitsWell(q, request[q])' /\ NotLost(q)'
  <2>1. CASE q = r
    BY <1>1, <2>1 DEF WaitsWell, NotLost
  <2>2. CASE q # r
    <3>1. request'[q] = request[q] /\ WaitsWell(q, request[q]) /\ NotLost(q)
      BY <1>1, <2>2 DEF Waiters
    <3>2. WaitsWell(q, request[q])'
      BY <3>1 DEF WaitsWell
    <3>3. request[q].at \in {"access", "signing"} => request[q].waits # <<r, "signing">>
      BY <2>2, <3>1 DEF WaitsWell, AccessIds
    <3>4. request[q].at \in {"access", "signing"} /\ request[q].waits \in Pending
            => request[q].waits \in Pending'
      BY <3>3 DEF Pending, Stored
    <3>5. NotLost(q)'
      BY <2>2, <3>1, <3>4 DEF NotLost
    <3> QED
      BY <3>2, <3>5
  <2> QED
    BY <2>1, <2>2
<1>5. Results'
  <2> SUFFICES ASSUME NEW q \in Requests, message'[<<q, "signing">>] \in Done
               PROVE  q \in Approved'
    BY DEF Results
  <2>1. <<q, "signing">> \in Ids
    BY DEF Ids
  <2>2. message'[<<q, "signing">>] = message[<<q, "signing">>]
    BY <2>1 DEF Done
  <2> QED
    BY <2>2 DEF Results
<1> QED
  BY <1>3, <1>4, <1>5 DEF Waiters

(* The steps that touch no request: messages may become undecided again.   *)
LEMMA AsideStep ==
  ASSUME IInv, request' = request, cleared' = cleared,
         message' \in [Ids -> Statuses],
         \A m \in Ids : message'[m] \in {message[m], "unapproved"},
         Approved \subseteq Approved',
         originOf' = originOf, permissions' \in StoreType,
         approval' \in [Approvals -> ApprovalType], Working'
  PROVE  IInv'
<1> USE DEF IInv
<1>1. StateTypes'
  BY DEF StateTypes
<1>2. Pending \subseteq Pending'
  BY DEF Pending, Stored
<1>3. Waiters'
  BY <1>2 DEF Waiters, WaitsWell, NotLost
<1>4. Results'
  <2> SUFFICES ASSUME NEW q \in Requests, message'[<<q, "signing">>] \in Done
               PROVE  q \in Approved'
    BY DEF Results
  <2>1. <<q, "signing">> \in Ids
    BY DEF Ids
  <2> QED
    BY <2>1 DEF Results, Done
<1> QED
  BY <1>1, <1>3, <1>4

(* Approvals that leave calls of approve() alone.                          *)
LEMMA SameApprovals ==
  ASSUME IInv, approval' = approval
  PROVE  Approved' = Approved /\ Working' /\ approval' \in [Approvals -> ApprovalType]
  BY DEF IInv, StateTypes, Approved, Working

(* A call of approve() that goes on or ends keeps its message.             *)
LEMMA ApprovalMoves ==
  ASSUME IInv, NEW a \in Approvals, NEW at \in {"broadcasting", "over"},
         approval[a].at \in {"signing", "broadcasting"},
         approval' = [approval EXCEPT ![a].at = at]
  PROVE  /\ Approved' = Approved /\ Working' /\ approval' \in [Approvals -> ApprovalType]
         /\ approval[a].of \in Ids
         /\ \A r \in Requests : approval[a].of = <<r, "signing">> => r \in Approved
<1>1. approval \in [Approvals -> ApprovalType] /\ approval[a] \in ApprovalType
  BY DEF IInv, StateTypes
<1>2. /\ approval' \in [Approvals -> ApprovalType]
      /\ \A b \in Approvals : approval'[b].of = approval[b].of
      /\ \A b \in Approvals : b # a => approval'[b] = approval[b]
  BY <1>1 DEF ApprovalType
<1>3. Working'
  BY <1>2 DEF IInv, Working
<1>4. Approved' = Approved
  BY <1>2 DEF Approved
<1>5. approval[a].of \in Requests \X {"signing"}
  BY DEF IInv, Working
<1> QED
  BY <1>2, <1>3, <1>4, <1>5 DEF Approved, Ids

(* A call of approve() that begins.                                        *)
LEMMA ApprovalBegins ==
  ASSUME IInv, NEW a \in Approvals, NEW at \in {"signing", "over"}, NEW m \in Ids,
         approval[a].at = "free", at = "signing" => m \in Requests \X {"signing"},
         approval' = [approval EXCEPT ![a] = [at |-> at, of |-> m]]
  PROVE  /\ Approved \subseteq Approved' /\ Working'
         /\ approval' \in [Approvals -> ApprovalType]
         /\ \A r \in Requests : m = <<r, "signing">> => r \in Approved'
         /\ Approved' = Approved \cup {r \in Requests : m = <<r, "signing">>}
<1>1. approval \in [Approvals -> ApprovalType] /\ approval[a] \in ApprovalType
  BY DEF IInv, StateTypes
<1>2. approval' \in [Approvals -> ApprovalType]
      /\ approval'[a] = [at |-> at, of |-> m]
      /\ \A b \in Approvals : b # a => approval'[b] = approval[b]
  BY <1>1 DEF ApprovalType
<1>3. Working'
  BY <1>2 DEF IInv, Working
<1>4. \A b \in Approvals, r \in Requests :
         approval[b].of = <<r, "signing">> => approval'[b].of = <<r, "signing">>
  <2>1. approval[a].of = NoMessage
    BY DEF IInv, Working
  <2>2. \A r \in Requests : <<r, "signing">> # NoMessage
    BY ControllerAssumption DEF ControllerAssumption
  <2> QED
    BY <1>2, <2>1, <2>2
<1> QED
  BY <1>2, <1>3, <1>4 DEF Approved

-----------------------------------------------------------------------------
(* Finishing one message, and rejecting a set of them.                     *)

LEMMA FinishStep ==
  ASSUME IInv, NEW m \in Ids, NEW status \in Finished, Finish(m, status),
         status \in Done => \A r \in Requests : m = <<r, "signing">> => r \in Approved',
         Approved \subseteq Approved',
         originOf' = originOf, permissions' \in StoreType, cleared' = cleared,
         approval' \in [Approvals -> ApprovalType], Working'
  PROVE  IInv'
<1>1. request' = Told({m}, status)
  BY DEF Finish
<1>2. message \in [Ids -> Statuses] /\ status \in Statuses
  BY DEF IInv, StateTypes, Statuses
<1>3. message' \in [Ids -> Statuses] /\ message'[m] \in {message[m], status, "absent"}
      /\ \A n \in Ids \ {m} : message'[n] = message[n]
  BY <1>2 DEF Finish
<1>4. {m} \in SUBSET Ids
  OBVIOUS
<1> QED
  BY <1>1, <1>3, <1>4, TellStep

LEMMA RejectAllStep ==
  ASSUME IInv, NEW ms \in SUBSET Ids, RejectAll(ms),
         originOf' = originOf, permissions' \in StoreType, cleared' = cleared,
         Approved' = Approved, approval' \in [Approvals -> ApprovalType], Working'
  PROVE  IInv'
<1>1. request' = Told(ms, "rejected") /\ "rejected" \in Finished /\ "rejected" \notin Done
  BY DEF RejectAll, Finished, Done
<1>2. message \in [Ids -> Statuses]
  BY DEF IInv, StateTypes
<1>3. message' \in [Ids -> Statuses]
      /\ \A m \in Ids : message'[m] = IF m \in ms THEN "rejected" ELSE message[m]
  BY <1>2 DEF RejectAll, Statuses, Finished
<1> QED
  BY <1>1, <1>3, TellStep

-----------------------------------------------------------------------------
(* One lemma per step of a page request.                                   *)

\* What steps that leave approvals and permissions alone have in common.
LEMMA Calm ==
  ASSUME IInv, UNCHANGED <<approval, permissions, context>>
  PROVE  /\ originOf' = originOf /\ permissions' \in StoreType /\ permissions \in StoreType
         /\ Approved' = Approved /\ approval' \in [Approvals -> ApprovalType] /\ Working'
         /\ message \in [Ids -> Statuses]
  BY SameApprovals DEF IInv, StateTypes, context

LEMMA AnsweredStep ==
  ASSUME IInv, NEW r \in Requests, NEW answer \in Answers, request' = Answered(r, answer),
         message' = message, cleared \subseteq cleared' \cup {r}, approval' = approval,
         permissions' \in StoreType, originOf' = originOf
  PROVE  IInv'
<1> DEFINE x == [request[r] EXCEPT !.at = "answered", !.answer = answer,
                                   !.waits = NoMessage, !.told = "absent"]
<1>1. request \in [Requests -> RequestType] /\ message \in [Ids -> Statuses]
  BY DEF IInv, StateTypes
<1>2. request' = [request EXCEPT ![r] = x]
  BY <1>1 DEF Answered, RequestType
<1>3. x \in RequestType /\ x.at = "answered"
  BY <1>1 DEF RequestType, Statuses
<1>4. Approved' = Approved /\ Working' /\ approval' \in [Approvals -> ApprovalType]
  BY SameApprovals
<1> HIDE DEF x
<1> QED
  BY <1>1, <1>2, <1>3, <1>4, MoveStep

(* A request that waits for a message has the status as it was read. *)
LEMMA AwaitFields ==
  ASSUME NEW r \in Requests, request[r] \in RequestType, NEW m \in Ids,
         NEW at \in {"access", "signing"}, NEW status \in Statuses
  PROVE  LET x == AwaitResult(r, m, at, status)
         IN  /\ x \in RequestType /\ x.at = at /\ x.waits = m
             /\ x.told = IF status = "unapproved" THEN "absent" ELSE status
  BY DEF AwaitResult, RequestType, Statuses

LEMMA AskAccessStep ==
  ASSUME IInv, NEW r \in Requests, AskAccess(r), UNCHANGED <<cleared, approval, context>>,
         ControllerAssumption, StoreAssumption
  PROVE  IInv'
<1> DEFINE o == Origin(r)
           pending == permissions.inPending[o]
           m == <<r, "access">>
<1>1. /\ request \in [Requests -> RequestType] /\ message \in [Ids -> Statuses]
      /\ permissions \in StoreType /\ o \in Origins /\ m \in Ids /\ m \in AccessIds
      /\ m # <<r, "signing">>
  BY OriginType DEF IInv, StateTypes, Ids, AccessIds
<1>2. originOf' = originOf /\ cleared' = cleared
      /\ Approved' = Approved /\ Working' /\ approval' \in [Approvals -> ApprovalType]
  BY SameApprovals DEF context
<1>3. CASE pending \in Stored
  <2> DEFINE x == AwaitResult(r, pending, "access", message[pending])
  <2>1. /\ request' = [request EXCEPT ![r] = x] /\ message' = message
        /\ permissions' = permissions
    BY <1>3 DEF AskAccess
  <2>2. pending \in Ids /\ pending \in AccessIds
    BY <1>1, <1>3, ControllerAssumption
       DEF Stored, StoreType, AccessIds, Ids, ControllerAssumption
  <2>3. x \in RequestType /\ x.at = "access" /\ x.waits = pending
        /\ (x.told = "absent" => message[pending] = "unapproved")
    <3>1. message[pending] \in Statuses
      BY <1>1, <2>2
    <3>2. /\ x \in RequestType /\ x.at = "access" /\ x.waits = pending
          /\ x.told = IF message[pending] = "unapproved" THEN "absent" ELSE message[pending]
      BY <1>1, <2>2, <3>1, AwaitFields
    <3>3. message[pending] # "absent"
      BY <1>3 DEF Stored
    <3> QED
      BY <3>2, <3>3
  <2>4. x.told # "absent" \/ x.waits \in Pending'
    BY <1>3, <2>1, <2>3 DEF Pending, Stored
  <2> HIDE DEF x, pending
  <2> QED
    BY <1>1, <1>2, <2>1, <2>2, <2>3, <2>4, MoveStep
<1>4. CASE pending \notin Stored
  <2> DEFINE x == AwaitResult(r, m, "access", "unapproved")
  <2>1. /\ request' = [request EXCEPT ![r] = x] /\ message' = [message EXCEPT ![m] = "unapproved"]
        /\ permissions' = SetMessageIdAccess(permissions, o, m)
    BY <1>4 DEF AskAccess
  <2>2. permissions' \in StoreType
    BY <1>1, <2>1, StoreOps
  <2>3. x \in RequestType /\ x.at = "access" /\ x.waits = m
    BY <1>1 DEF AwaitResult, RequestType, Statuses
  <2>4. message' \in [Ids -> Statuses] /\ message'[m] = "unapproved"
        /\ \A n \in Ids : message'[n] \in {message[n], "unapproved"}
    BY <1>1, <2>1 DEF Statuses
  <2>5. x.waits \in Pending'
    BY <1>1, <2>3, <2>4 DEF Pending, Stored
  <2> HIDE DEF x, m, pending
  <2> QED
    BY <1>1, <1>2, <2>1, <2>2, <2>3, <2>4, <2>5, MoveStep
<1> QED
  BY <1>3, <1>4

LEMMA CallPageStep ==
  ASSUME IInv, NEW r \in Requests, CallPage(r), ControllerAssumption, StoreAssumption
  PROVE  IInv'
<1>1. UNCHANGED <<approval, cleared, context>> /\ originOf' = originOf
  BY DEF CallPage, context
<1>2. CASE request' = [request EXCEPT ![r].at = "generating"] /\ UNCHANGED <<message, permissions>>
  <2> DEFINE x == [request[r] EXCEPT !.at = "generating"]
  <2>1. request \in [Requests -> RequestType]
    BY DEF IInv, StateTypes
  <2>2. x \in RequestType /\ x.at = "generating" /\ request' = [request EXCEPT ![r] = x]
    BY <1>2, <2>1 DEF RequestType
  <2>3. cleared' = cleared /\ message' = message
    BY <1>1, <1>2
  <2> HIDE DEF x
  <2> QED
    BY <1>1, <1>2, <2>2, <2>3, MoveStep, Calm
<1>3. CASE request' = Answered(r, "refusal") /\ UNCHANGED <<message, permissions>>
  BY <1>1, <1>3, AnsweredStep DEF Answers, IInv, StateTypes
<1>4. CASE AskAccess(r)
  BY <1>1, <1>4, AskAccessStep
<1> QED
  BY <1>2, <1>3, <1>4 DEF CallPage

LEMMA ResumeAccessStep ==
  ASSUME IInv, NEW r \in Requests, ResumeAccess(r), ControllerAssumption, StoreAssumption
  PROVE  IInv'
<1> DEFINE o == Origin(r)
<1>1. request \in [Requests -> RequestType] /\ permissions \in StoreType /\ o \in Origins
  BY OriginType DEF IInv, StateTypes
<1>2. /\ message' = message /\ approval' = approval /\ originOf' = originOf
      /\ cleared \subseteq cleared' \cup {r} /\ UNCHANGED context
  BY DEF ResumeAccess, context
<1>3. permissions' \in StoreType
  <2>1. /\ SetPermission(permissions, o, "approved") \in StoreType
        /\ SetPermission(permissions, o, "rejected") \in StoreType
    BY <1>1, StoreUpdates DEF Types
  <2>2. SetMessageIdAccess(permissions, o, NoMessage) \in StoreType
    BY <1>1, StoreOps
  <2>3. permissions' \in {SetPermission(permissions, o, "approved"),
                          SetPermission(permissions, o, "rejected"),
                          SetMessageIdAccess(permissions, o, NoMessage), permissions}
    BY DEF ResumeAccess
  <2> QED
    BY <1>1, <2>1, <2>2, <2>3
<1>4. CASE request[r].told = "signed"
  <2> DEFINE x == [request[r] EXCEPT !.at = "generating", !.waits = NoMessage,
                                     !.told = "absent"]
  <2>1. request' = [request EXCEPT ![r] = x]
    BY <1>1, <1>4 DEF ResumeAccess, RequestType
  <2>2. x \in RequestType /\ x.at = "generating"
    BY <1>1 DEF RequestType, Statuses
  <2>3. /\ Approved' = Approved /\ Working' /\ approval' \in [Approvals -> ApprovalType]
        /\ message \in [Ids -> Statuses]
    BY <1>2, SameApprovals DEF IInv, StateTypes
  <2> HIDE DEF x, o
  <2> QED
    BY <1>2, <1>3, <2>1, <2>2, <2>3, MoveStep
<1>5. CASE request[r].told # "signed"
  <2>1. request' = Answered(r, "refusal")
    BY <1>5 DEF ResumeAccess
  <2> HIDE DEF o
  <2> QED
    BY <1>2, <1>3, <2>1, AnsweredStep DEF Answers
<1> QED
  BY <1>4, <1>5

LEMMA AnswerSteps ==
  ASSUME IInv, NEW r \in Requests, ResumeSigning(r) \/ GenerationFails(r)
  PROVE  IInv'
<1>1. /\ message' = message /\ approval' = approval /\ originOf' = originOf
      /\ permissions' = permissions /\ cleared \subseteq cleared' \cup {r}
  BY DEF ResumeSigning, GenerationFails, context
<1>2. permissions' \in StoreType
  BY <1>1 DEF IInv, StateTypes
<1>3. \E answer \in Answers : request' = Answered(r, answer)
  BY DEF ResumeSigning, GenerationFails, Answers, AnswerFor
<1> QED
  BY <1>1, <1>2, <1>3, AnsweredStep

\* A signing message that the request itself makes and awaits.
LEMMA GeneratesStep ==
  ASSUME IInv, NEW r \in Requests, NEW status \in {"unapproved", "failed"},
         message' = [message EXCEPT ![<<r, "signing">>] = status],
         request' = [request EXCEPT
                       ![r] = AwaitResult(r, <<r, "signing">>, "signing", status)],
         Approved \subseteq Approved', originOf' = originOf, cleared' = cleared,
         permissions' \in StoreType, approval' \in [Approvals -> ApprovalType], Working'
  PROVE  IInv'
<1> DEFINE m == <<r, "signing">>
           x == AwaitResult(r, m, "signing", status)
<1>1. /\ request \in [Requests -> RequestType] /\ message \in [Ids -> Statuses]
      /\ m \in Ids /\ status \in Statuses \ Done
  BY DEF IInv, StateTypes, Ids, Statuses, Finished, Done
<1>2. /\ message' \in [Ids -> Statuses] /\ message'[m] = status
      /\ \A n \in Ids : n # m => message'[n] = message[n]
  BY <1>1
<1>3. /\ x \in RequestType /\ x.at = "signing" /\ x.waits = m
      /\ x.told = IF status = "unapproved" THEN "absent" ELSE status
  BY <1>1 DEF AwaitResult, RequestType, Statuses
<1>4. x.told # "absent" \/ x.waits \in Pending'
  BY <1>1, <1>2, <1>3 DEF Pending, Stored
<1>5. request' = [request EXCEPT ![r] = x] /\ x.told \notin Done
  BY <1>3 DEF Done
<1>6. \A n \in Ids : \/ message'[n] \in {message[n], "unapproved"}
                     \/ n = <<r, "signing">> /\ message'[n] \notin Done
  BY <1>1, <1>2
<1> HIDE DEF x
<1> QED
  BY <1>1, <1>2, <1>3, <1>4, <1>5, <1>6, MoveStep

LEMMA GeneratedSteps ==
  ASSUME IInv, NEW r \in Requests,
         Generated(r) \/ \E a \in Approvals : GeneratedAutoSigned(r, a),
         ControllerAssumption, StoreAssumption
  PROVE  IInv'
<1>1. CASE Generated(r)
  <2>1. UNCHANGED <<approval, permissions, context>> /\ cleared' = cleared
    BY <1>1 DEF Generated
  <2>2. /\ message' = [message EXCEPT ![<<r, "signing">>] = "unapproved"]
        /\ request' = [request EXCEPT
             ![r] = AwaitResult(r, <<r, "signing">>, "signing", "unapproved")]
    BY <1>1 DEF Generated
  <2> QED
    BY <2>1, <2>2, Calm, GeneratesStep
<1>2. ASSUME NEW a \in Approvals, GeneratedAutoSigned(r, a) PROVE IInv'
  <2> DEFINE status == IF locked THEN "failed" ELSE "unapproved"
             at == IF locked THEN "over" ELSE "signing"
             m == <<r, "signing">>
  <2>1. /\ message' = [message EXCEPT ![m] = status]
        /\ request' = [request EXCEPT ![r] = AwaitResult(r, m, "signing", status)]
        /\ originOf' = originOf /\ cleared' = cleared
        /\ permissions' = UpdatePermission(permissions, Origin(r), "allowAutoSign")
        /\ approval[a].at = "free"
        /\ approval' = [approval EXCEPT ![a] = [at |-> at, of |-> m]]
    BY <1>2 DEF GeneratedAutoSigned, context
  <2>2. permissions' \in StoreType
    BY <2>1, StoreUpdates, OriginType DEF Types, IInv, StateTypes
  <2>3. m \in Ids /\ m \in Requests \X {"signing"} /\ at \in {"signing", "over"}
        /\ status \in {"unapproved", "failed"}
    BY DEF Ids
  <2> HIDE DEF status, at
  <2>4. Approved \subseteq Approved' /\ Working' /\ approval' \in [Approvals -> ApprovalType]
    BY <2>1, <2>3, ApprovalBegins
  <2> QED
    BY <2>1, <2>2, <2>3, <2>4, GeneratesStep
<1> QED
  BY <1>1, <1>2

-----------------------------------------------------------------------------
(* One lemma per step of approve() and of the other events.                *)

LEMMA ApproveStep ==
  ASSUME IInv, NEW a \in Approvals, NEW m \in Ids, Approve(a, m),
         ControllerAssumption, StoreAssumption
  PROVE  IInv'
<1>1. /\ approval[a].at = "free" /\ originOf' = originOf /\ cleared' = cleared
      /\ message \in [Ids -> Statuses] /\ permissions \in StoreType
  BY DEF Approve, context, IInv, StateTypes
<1>2. CASE locked /\ Finish(m, "failed") /\ permissions' = permissions
           /\ approval' = [approval EXCEPT ![a] = [at |-> "over", of |-> m]]
  <2>1. /\ Approved \subseteq Approved' /\ Working'
        /\ approval' \in [Approvals -> ApprovalType]
    BY <1>1, <1>2, ApprovalBegins
  <2>2. "failed" \in Finished /\ "failed" \notin Done
    BY DEF Finished, Done
  <2> QED
    BY <1>1, <1>2, <2>1, <2>2, FinishStep
<1>3. CASE m[2] = "access" /\ Finish(m, "signed")
           /\ permissions' = SetPermission(permissions, Origin(m[1]), "approved")
           /\ approval' = [approval EXCEPT ![a] = [at |-> "over", of |-> m]]
  <2>1. /\ Approved \subseteq Approved' /\ Working'
        /\ approval' \in [Approvals -> ApprovalType]
        /\ \A r \in Requests : m = <<r, "signing">> => r \in Approved'
    BY <1>1, <1>3, ApprovalBegins
  <2>2. m[1] \in Requests
    BY DEF Ids
  <2>3. permissions' \in StoreType
    BY <1>1, <1>3, <2>2, StoreUpdates, OriginType DEF Types, IInv
  <2>4. "signed" \in Finished
    BY DEF Finished
  <2> QED
    BY <1>1, <1>3, <2>1, <2>3, <2>4, FinishStep
<1>4. CASE m[2] = "signing" /\ UNCHANGED <<message, request, permissions>>
           /\ approval' = [approval EXCEPT ![a] = [at |-> "signing", of |-> m]]
  <2>1. m \in Requests \X {"signing"}
    BY <1>4 DEF Ids
  <2>2. /\ Approved \subseteq Approved' /\ Working'
        /\ approval' \in [Approvals -> ApprovalType]
    BY <1>1, <1>4, <2>1, ApprovalBegins
  <2> QED
    BY <1>1, <1>4, <2>2, AsideStep
<1> QED
  BY <1>2, <1>3, <1>4 DEF Approve

LEMMA SigningSteps ==
  ASSUME IInv, NEW a \in Approvals,
         WalletSigned(a) \/ RejectedOnLedger(a) \/ Broadcast(a) \/ ApproveFails(a)
  PROVE  IInv'
<1> DEFINE m == approval[a].of
<1>1. /\ approval[a].at \in {"signing", "broadcasting"} /\ originOf' = originOf
      /\ cleared' = cleared /\ permissions' = permissions
      /\ \E at \in {"broadcasting", "over"} : approval' = [approval EXCEPT ![a].at = at]
  BY DEF WalletSigned, RejectedOnLedger, Broadcast, ApproveFails, Over, context
<1>2. /\ Approved' = Approved /\ Working' /\ approval' \in [Approvals -> ApprovalType]
      /\ m \in Ids /\ \A r \in Requests : m = <<r, "signing">> => r \in Approved
  BY <1>1, ApprovalMoves
<1>3. message \in [Ids -> Statuses] /\ permissions' \in StoreType
  BY <1>1 DEF IInv, StateTypes
<1>4. CASE UNCHANGED <<message, request>>
  BY <1>1, <1>2, <1>3, <1>4, AsideStep
<1>5. ASSUME NEW status \in {"signed", "published", "failed"}, Finish(m, status)
      PROVE  IInv'
  <2>1. status \in Finished
    BY DEF Finished
  <2> HIDE DEF m
  <2> QED
    BY <1>1, <1>2, <1>3, <1>5, <2>1, FinishStep
<1>6. CASE RejectAll({m} \cap Stored)
  <2>1. {m} \cap Stored \in SUBSET Ids
    BY DEF Stored
  <2> QED
    BY <1>1, <1>2, <1>3, <1>6, <2>1, RejectAllStep
<1> QED
  BY <1>4, <1>5, <1>6 DEF WalletSigned, RejectedOnLedger, Broadcast, ApproveFails

\* The other methods that decide or return messages.
LEMMA UserSteps ==
  ASSUME IInv,
         \/ \E m \in Ids, forever \in BOOLEAN : Reject(m, forever)
         \/ \E f \in Fees : FeeUpdated(f) \/ \E m \in Ids : UpdateFee(f, m)
         \/ \E old \in SUBSET Ids : Expire(old)
         \/ Lock \/ Unlock \/ UNCHANGED vars
  PROVE  IInv'
<1>1. /\ approval' = approval /\ permissions' = permissions /\ originOf' = originOf
      /\ cleared' = cleared
  BY DEF Reject, FeeUpdated, UpdateFee, Expire, Lock, Unlock, context, vars
<1>2. /\ Approved' = Approved /\ Working' /\ approval' \in [Approvals -> ApprovalType]
      /\ message \in [Ids -> Statuses] /\ permissions' \in StoreType
  BY <1>1, SameApprovals DEF IInv, StateTypes
<1>3. ASSUME NEW m \in Ids, NEW forever \in BOOLEAN, Reject(m, forever) PROVE IInv'
  <2> DEFINE status == IF forever THEN "rejected_forever" ELSE "rejected"
  <2>1. Finish(m, status) /\ status \in Finished /\ status \notin Done
    BY <1>3 DEF Reject, Finished, Done
  <2> HIDE DEF status
  <2> QED
    BY <1>1, <1>2, <2>1, FinishStep
<1>4. ASSUME NEW f \in Fees, FeeUpdated(f) \/ \E m \in Ids : UpdateFee(f, m) PROVE IInv'
  <2>1. /\ request' = request /\ message' \in [Ids -> Statuses]
        /\ \A m \in Ids : message'[m] \in {message[m], "unapproved"}
    BY <1>2, <1>4 DEF FeeUpdated, UpdateFee, Statuses
  <2> QED
    BY <1>1, <1>2, <2>1, AsideStep
<1>5. ASSUME NEW ms \in SUBSET Ids, RejectAll(ms) PROVE IInv'
  BY <1>1, <1>2, <1>5, RejectAllStep
<1>6. CASE \E old \in SUBSET Ids : Expire(old)
  BY <1>5, <1>6 DEF Expire
<1>7. CASE Lock
  BY <1>5, <1>7 DEF Lock, Stored
<1>8. CASE Unlock \/ UNCHANGED vars
  BY <1>1, <1>2, <1>8, AsideStep DEF Unlock, vars
<1> QED
  BY <1>3, <1>4, <1>6, <1>7, <1>8

LEMMA OriginSteps ==
  ASSUME IInv, NEW o \in Origins, AllowOrigin(o) \/ ChangeOrigin(o), StoreAssumption
  PROVE  IInv'
<1>1. /\ approval' = approval /\ originOf' = originOf /\ cleared' = cleared
      /\ message \in [Ids -> Statuses] /\ permissions \in StoreType
  BY DEF AllowOrigin, ChangeOrigin, IInv, StateTypes
<1>2. Approved' = Approved /\ Working' /\ approval' \in [Approvals -> ApprovalType]
  BY <1>1, SameApprovals
<1>3. \A type \in Types : /\ SetPermission(permissions, o, type) \in StoreType
                          /\ UpdatePermission(permissions, o, type) \in StoreType
                          /\ DeletePermission(permissions, o, type) \in StoreType
  BY <1>1, StoreUpdates
<1>4. \A type \in Types : \A gone \in Types :
        SetPermission(DeletePermission(permissions, o, gone), o, type) \in StoreType
  BY <1>3, StoreUpdates
<1>5. CASE AllowOrigin(o)
  <2>1. permissions' \in StoreType
    BY <1>4, <1>5 DEF AllowOrigin, Types
  <2>2. FromOrigin(o) \in SUBSET Ids /\ RejectAll(FromOrigin(o))
    BY <1>5 DEF AllowOrigin, FromOrigin, Stored
  <2> QED
    BY <1>1, <1>2, <2>1, <2>2, RejectAllStep
<1>6. CASE ChangeOrigin(o)
  <2>1. DeletePermissions(permissions, o) \in StoreType
    BY <1>1, StoreOps
  <2>2. permissions' \in StoreType
    BY <1>3, <1>4, <1>6, <2>1 DEF ChangeOrigin, SetAutoApprove, Types
  <2>3. UNCHANGED <<request, message>>
    BY <1>6 DEF ChangeOrigin
  <2> QED
    BY <1>1, <1>2, <2>2, <2>3, AsideStep
<1> QED
  BY <1>5, <1>6

LEMMA ClearMessagesStep ==
  ASSUME IInv, ClearMessages
  PROVE  IInv'
<1> USE DEF IInv
<1>1. /\ UNCHANGED <<originOf, request, approval, permissions>>
      /\ message' = [m \in Ids |-> "absent"]
      /\ cleared' = cleared \cup {r \in Requests : request[r].waits \in Stored}
  BY DEF ClearMessages
<1>2. Approved' = Approved /\ Working'
  BY <1>1, SameApprovals
<1>3. StateTypes'
  BY <1>1 DEF StateTypes, Statuses
<1>4. Waiters'
  <2> SUFFICES ASSUME NEW r \in Requests PROVE WaitsWell(r, request[r])' /\ NotLost(r)'
    BY DEF Waiters
  <2>1. WaitsWell(r, request[r]) /\ NotLost(r)
    BY DEF Waiters
  <2>2. WaitsWell(r, request[r])'
    BY <1>1, <1>2, <2>1 DEF WaitsWell
  <2>3. NotLost(r)'
    BY <1>1, <2>1 DEF NotLost, Pending
  <2> QED
    BY <2>2, <2>3
<1>5. Results'
  BY <1>1 DEF Results, Ids, Done
<1> QED
  BY <1>2, <1>3, <1>4, <1>5

LEMMA DisconnectStep ==
  ASSUME IInv, NEW c \in Connections, Disconnect(c)
  PROVE  IInv'
<1> DEFINE mine == {m \in Stored : PageOf[m[1]] = c}
<1>1. UNCHANGED <<approval, permissions, context>> /\ cleared' = cleared
  BY DEF Disconnect
<1>2. /\ message' = [m \in Ids |-> IF m \in mine THEN "absent" ELSE message[m]]
      /\ request' = Told(mine, "rejected")
  BY DEF Disconnect
<1>3. mine \in SUBSET Ids /\ "rejected" \in Finished /\ "rejected" \notin Done
  BY DEF Stored, Finished, Done
<1> HIDE DEF mine
<1>4. message \in [Ids -> Statuses]
  BY DEF IInv, StateTypes
<1>5. /\ message' \in [Ids -> Statuses]
      /\ \A m \in Ids \ mine : message'[m] = message[m]
      /\ \A m \in mine : message'[m] = "absent"
  BY <1>2, <1>3, <1>4 DEF Statuses
<1> QED
  BY <1>1, <1>2, <1>3, <1>5, Calm, TellStep

LEMMA RestartStep ==
  ASSUME IInv, Restart
  PROVE  IInv' /\ Approved' = Approved
<1> USE DEF IInv
<1>1. /\ originOf' = originOf /\ permissions' = permissions
      /\ message' = [m \in Ids |-> "absent"]
  BY DEF Restart
<1>2. \A r \in Requests :
        /\ request'[r] \in RequestType
        /\ request'[r].at \notin {"access", "signing"}
  BY DEF Restart, StateTypes, RequestType, Statuses
<1>3. request' \in [Requests -> RequestType]
  BY <1>2 DEF Restart
<1>4. \A a \in Approvals :
        /\ approval'[a] \in ApprovalType /\ approval'[a].of = approval[a].of
        /\ approval'[a].at \in {"free", "over"}
        /\ approval'[a].at = "free" => approval[a].at = "free"
  BY DEF Restart, StateTypes, ApprovalType
<1>5. approval' \in [Approvals -> ApprovalType]
  BY <1>4 DEF Restart
<1>6. Working' /\ Approved' = Approved
  BY <1>4 DEF Working, Approved
<1>7. StateTypes'
  BY <1>1, <1>3, <1>5 DEF StateTypes, Statuses
<1>8. Waiters'
  BY <1>2 DEF Waiters, WaitsWell, NotLost
<1>9. Results'
  BY <1>1 DEF Results, Ids, Done
<1> QED
  BY <1>6, <1>7, <1>8, <1>9

LEMMA StepInv ==
  ASSUME IInv, [Next]_vars
  PROVE  IInv'
<1> USE ControllerAssumption, StoreAssumption
<1>1. ASSUME NEW r \in Requests,
             \/ CallPage(r) \/ ResumeAccess(r) \/ ResumeSigning(r)
             \/ GenerationFails(r) \/ Generated(r)
             \/ \E a \in Approvals : GeneratedAutoSigned(r, a)
      PROVE  IInv'
  BY <1>1, CallPageStep, ResumeAccessStep, AnswerSteps, GeneratedSteps
<1>2. ASSUME NEW a \in Approvals,
             \/ \E m \in Ids : Approve(a, m)
             \/ WalletSigned(a) \/ RejectedOnLedger(a) \/ Broadcast(a) \/ ApproveFails(a)
      PROVE  IInv'
  BY <1>2, ApproveStep, SigningSteps
<1>3. ASSUME \E o \in Origins : AllowOrigin(o) \/ ChangeOrigin(o) PROVE IInv'
  BY <1>3, OriginSteps
<1>4. ASSUME \E c \in Connections : Disconnect(c) PROVE IInv'
  BY <1>4, DisconnectStep
<1> QED
  BY <1>1, <1>2, <1>3, <1>4, UserSteps, ClearMessagesStep, RestartStep DEF Next

LEMMA Invariant == Spec => []IInv
  BY InitInv, StepInv, PTL DEF Spec

\* The rest of TypeOK.
RestTypes ==
  /\ closed \subseteq Connections
  /\ fee \in [Fees -> [at : {"free", "generating", "over"}, of : Ids \cup {NoMessage}]]
  /\ locked \in BOOLEAN
  /\ cleared \subseteq Requests
  /\ changes \in 0..MaxChanges
  /\ restarts \in 0..MaxRestarts

LEMMA RestInv ==
  ASSUME RestTypes, [Next]_vars
  PROVE  RestTypes'
<1> USE ControllerAssumption DEF RestTypes, ControllerAssumption
<1>1. ASSUME UNCHANGED <<closed, fee, locked, changes, restarts>>,
             cleared' \subseteq cleared \cup Requests
      PROVE  RestTypes'
  BY <1>1
<1>2. ASSUME NEW r \in Requests,
             \/ CallPage(r) \/ ResumeAccess(r) \/ ResumeSigning(r)
             \/ GenerationFails(r) \/ Generated(r)
             \/ \E a \in Approvals : GeneratedAutoSigned(r, a)
      PROVE  RestTypes'
  BY <1>1, <1>2 DEF CallPage, ResumeAccess, ResumeSigning, GenerationFails, Generated,
     GeneratedAutoSigned, context
<1>3. ASSUME NEW a \in Approvals,
             \/ \E m \in Ids : Approve(a, m)
             \/ WalletSigned(a) \/ RejectedOnLedger(a) \/ Broadcast(a) \/ ApproveFails(a)
      PROVE  RestTypes'
  BY <1>1, <1>3 DEF Approve, WalletSigned, RejectedOnLedger, Broadcast, ApproveFails, context
<1>4. ASSUME NEW m \in Ids, NEW forever \in BOOLEAN, Reject(m, forever) PROVE RestTypes'
  BY <1>1, <1>4 DEF Reject, context
<1>5. ASSUME NEW f \in Fees, FeeUpdated(f) \/ \E m \in Ids : UpdateFee(f, m) PROVE RestTypes'
  BY <1>5 DEF FeeUpdated, UpdateFee, context
<1>6. ASSUME NEW o \in Origins, AllowOrigin(o) \/ ChangeOrigin(o) PROVE RestTypes'
  <2>1. /\ UNCHANGED <<closed, fee, locked, restarts, cleared>>
        /\ changes < MaxChanges /\ changes' = changes + 1
    BY <1>6 DEF AllowOrigin, ChangeOrigin
  <2> QED
    BY <2>1
<1>7. ASSUME NEW c \in Connections, Disconnect(c) PROVE RestTypes'
  BY <1>7 DEF Disconnect, context
<1>8. CASE \E old \in SUBSET Ids : Expire(old)
  BY <1>1, <1>8 DEF Expire, context
<1>9. CASE ClearMessages \/ Lock \/ Unlock \/ UNCHANGED vars
  BY <1>9 DEF ClearMessages, Lock, Unlock, vars, context
<1>10. CASE Restart
  <2>1. Opened \subseteq Connections
    BY DEF Opened
  <2>2. /\ fee' = [f \in Fees |-> IF fee[f].at = "free" THEN fee[f]
                                  ELSE [at |-> "over", of |-> NoMessage]]
        /\ closed' = closed \cup Opened /\ cleared' = {} /\ UNCHANGED <<locked, changes>>
        /\ restarts < MaxRestarts /\ restarts' = restarts + 1
    BY <1>10 DEF Restart
  <2> QED
    BY <2>1, <2>2
<1> QED
  BY <1>2, <1>3, <1>4, <1>5, <1>6, <1>7, <1>8, <1>9, <1>10 DEF Next

LEMMA RestAlways == Spec => []RestTypes
<1>1. Init => RestTypes
  <2>1. MaxChanges \in Nat /\ MaxRestarts \in Nat
    BY ControllerAssumption DEF ControllerAssumption
  <2> SUFFICES ASSUME Init PROVE RestTypes
    OBVIOUS
  <2>2. changes \in 0..MaxChanges /\ restarts \in 0..MaxRestarts
    BY <2>1 DEF Init
  <2>3. closed \subseteq Connections /\ locked \in BOOLEAN /\ cleared \subseteq Requests
    BY DEF Init
  <2>4. fee \in [Fees -> [at : {"free", "generating", "over"}, of : Ids \cup {NoMessage}]]
    BY DEF Init
  <2> QED
    BY <2>2, <2>3, <2>4 DEF RestTypes
<1> QED
  BY RestInv, <1>1, PTL DEF Spec

(* The variables keep their types, for any pages, approvals and bounds.    *)
THEOREM TypeCorrect == Spec => []TypeOK
<1>1. IInv /\ RestTypes => TypeOK
  <2>1. AccessIds \subseteq Ids
    BY DEF AccessIds, Ids
  <2> QED
    BY <2>1 DEF IInv, StateTypes, StoreType, RequestType, ApprovalType, RestTypes, TypeOK
<1> QED
  BY Invariant, RestAlways, <1>1, PTL

(* No page request is left waiting for a message that was decided or lost, *)
(* unless the user cleared the messages.                                   *)
THEOREM NoWaiterLost == Spec => []NoLostWaiter
<1>1. IInv => NoLostWaiter
  BY DEF IInv, Waiters, NotLost, NoLostWaiter, Quiet
<1> QED
  BY Invariant, <1>1, PTL

-----------------------------------------------------------------------------
(* What is pending for an origin was never decided, or an approval failed. *)

\* A request of the origin awaits its pending message, and has been told if
\* the user decided: then it clears inPending before anything else runs.
Awaited(o) ==
  LET m == permissions.inPending[o]
      status == message[m]
  IN \E r \in Requests :
       /\ request[r].at = "access" /\ request[r].waits = m /\ Origin(r) = o
       /\ \/ status = "unapproved" /\ request[r].told = "absent"
          \/ status \in {"rejected", "rejected_forever"} /\ request[r].told = status

\* An approval found the wallet locked: its awaiters leave inPending alone.
Spoiled(o) ==
  LET m == permissions.inPending[o] IN
    /\ message[m] \in {"failed", "rejected", "rejected_forever"}
    /\ \E a \in Approvals : approval[a].of = m

\* Only an origin without permissions has a pending message, of its own: so
\* the permission that a decision sets is new and resets inPending.
PendingWell ==
  \A o \in Origins :
    LET m == permissions.inPending[o] IN
      m # NoMessage =>
        /\ Unknown(permissions, o) /\ Origin(m[1]) = o
        /\ m \in Stored => Awaited(o) \/ Spoiled(o)

\* No regenerated message takes the place of an access message.
FeesWell ==
  \A f \in Fees : fee[f].at = "generating" => fee[f].of \in Requests \X {"signing"}

Resets(store) == \A o \in Origins : store.inPending[o] = NoMessage

LEMMA StoreResets ==
  ASSUME NEW store \in StoreType, NEW o \in Origins
  PROVE  /\ \A ps : Resets(SetPermissions(store, o, ps))
         /\ \A type : Resets(UpdatePermission(store, o, type))
         /\ \A type : Resets(DeletePermission(store, o, type))
         /\ Resets(SetMessageIdAccess(store, o, NoMessage))
         /\ \A type : ~Has(store, o, type) => Resets(SetPermission(store, o, type))
         /\ \A type : Resets(store) => Resets(SetPermission(store, o, type))
<1>1. /\ \A ps : Resets(SetPermissions(store, o, ps))
      /\ Resets(SetMessageIdAccess(store, o, NoMessage))
  BY DEF StoreType, Resets, SetPermissions, SetMessageIdAccess, NothingPending
<1> QED
  BY <1>1 DEF UpdatePermission, DeletePermission, SetPermission

LEMMA UnknownHasNone ==
  ASSUME NEW store, NEW o, NEW type, Unknown(store, o)
  PROVE  ~Has(store, o, type)
  BY DEF Unknown, Has

LEMMA ResetStep ==
  ASSUME Resets(permissions')
  PROVE  PendingWell'
  BY DEF Resets, PendingWell

LEMMA PendingIds ==
  ASSUME StateTypes, NEW o \in Origins, permissions.inPending[o] # NoMessage
  PROVE  /\ permissions.inPending[o] \in AccessIds /\ permissions.inPending[o] \in Ids
         /\ permissions.inPending[o][1] \in Requests
  BY DEF StateTypes, StoreType, AccessIds, Ids

\* An approval keeps the message it was called for.
Keeps == \A a \in Approvals : approval[a].of # NoMessage => approval'[a].of = approval[a].of

(* The steps that tell awaiters, with the store as it was.                 *)
LEMMA PendingTold ==
  ASSUME StateTypes, PendingWell, Quiet, Keeps, NEW ms \in SUBSET Ids,
         NEW status \in Finished, request' = Told(ms, status),
         permissions' = permissions, originOf' = originOf,
         \A m \in AccessIds :
           \/ message'[m] = "absent"
           \/ m \notin ms /\ message'[m] = message[m]
           \/ /\ m \in ms \cap Stored /\ message'[m] = status
              /\ \/ status \in {"rejected", "rejected_forever"}
                 \/ status = "failed" /\ \E a \in Approvals : approval'[a].of = m
  PROVE  PendingWell'
<1> SUFFICES ASSUME NEW o \in Origins, permissions.inPending[o] # NoMessage
             PROVE  /\ Unknown(permissions, o) /\ Origin(permissions.inPending[o][1]) = o
                    /\ permissions.inPending[o] \in Stored' => Awaited(o)' \/ Spoiled(o)'
  BY DEF PendingWell, Origin, Unknown
<1> DEFINE m == permissions.inPending[o]
<1>1. m \in AccessIds /\ m \in Ids /\ m # NoMessage
  BY PendingIds
<1>2. /\ Unknown(permissions, o) /\ Origin(m[1]) = o
      /\ m \in Stored => Awaited(o) \/ Spoiled(o)
  BY DEF PendingWell
<1>3. permissions'.inPending[o] = m
  OBVIOUS
<1> HIDE DEF m
<1>4. ASSUME m \in Stored' PROVE Awaited(o)' \/ Spoiled(o)'
  <2>1. m \in Stored /\ message'[m] # "absent"
    BY <1>1, <1>4 DEF Stored
  <2>2. CASE m \notin ms /\ message'[m] = message[m]
    <3>1. \A r \in Requests : request[r].waits = m => request'[r] = request[r]
      BY <2>2 DEF Told
    <3>2. Awaited(o) => Awaited(o)'
      BY <1>3, <2>2, <3>1 DEF Awaited, m, Origin
    <3>3. Spoiled(o) => Spoiled(o)'
      BY <1>1, <1>3, <2>2 DEF Spoiled, m, Keeps
    <3> QED
      BY <1>2, <2>1, <3>2, <3>3
  <2>3. CASE m \in ms /\ message'[m] = status /\ status = "failed"
    BY <1>1, <1>3, <2>3 DEF Spoiled
  <2>4. CASE m \in ms /\ message'[m] = status /\ status \in {"rejected", "rejected_forever"}
    <3>1. ASSUME Awaited(o) PROVE Awaited(o)'
      <4>1. PICK r \in Requests : request[r].at = "access" /\ request[r].waits = m /\ Origin(r) = o
        BY <3>1 DEF Awaited, m
      <4>2. request[r].told = "absent"
        BY DEF Quiet
      <4>3. request'[r].at = "access" /\ request'[r].waits = m /\ request'[r].told = status
        BY <2>4, <4>1, <4>2 DEF Told, StateTypes, RequestType
      <4>4. Origin(r)' = o
        BY <4>1 DEF Origin
      <4> QED
        BY <1>3, <2>4, <4>3, <4>4 DEF Awaited
    <3>2. Spoiled(o) => Spoiled(o)'
      BY <1>1, <1>3, <2>4 DEF Spoiled, m, Keeps
    <3> QED
      BY <1>2, <2>1, <3>1, <3>2
  <2> QED
    BY <1>1, <2>1, <2>2, <2>3, <2>4
<1> QED
  BY <1>2, <1>4 DEF m

(* The steps that change at most one request, which awaits no access       *)
(* message, and no access message.                                         *)
LEMMA PendingAside ==
  ASSUME StateTypes, PendingWell, Keeps, NEW r \in Requests, request[r].at # "access",
         \A q \in Requests : q # r => request'[q] = request[q],
         permissions' = permissions, originOf' = originOf,
         \A m \in AccessIds : message'[m] = message[m]
  PROVE  PendingWell'
<1> SUFFICES ASSUME NEW o \in Origins, permissions.inPending[o] # NoMessage
             PROVE  /\ Unknown(permissions, o) /\ Origin(permissions.inPending[o][1]) = o
                    /\ permissions.inPending[o] \in Stored' => Awaited(o)' \/ Spoiled(o)'
  BY DEF PendingWell, Origin, Unknown
<1> DEFINE m == permissions.inPending[o]
<1>1. m \in AccessIds /\ m \in Ids /\ m # NoMessage /\ message'[m] = message[m]
  BY PendingIds
<1>2. /\ Unknown(permissions, o) /\ Origin(m[1]) = o
      /\ m \in Stored => Awaited(o) \/ Spoiled(o)
  BY DEF PendingWell
<1>3. permissions'.inPending[o] = m
  OBVIOUS
<1> HIDE DEF m
<1>4. Awaited(o) => Awaited(o)'
  BY <1>1, <1>3 DEF Awaited, m, Origin
<1>5. Spoiled(o) => Spoiled(o)'
  BY <1>1, <1>3 DEF Spoiled, m, Keeps
<1>6. m \in Stored' => m \in Stored
  BY <1>1 DEF Stored
<1> QED
  BY <1>2, <1>4, <1>5, <1>6 DEF m

-----------------------------------------------------------------------------
\* The pages' side.
LEMMA PendingCallPage ==
  ASSUME IInv, PendingWell, NEW r \in Requests, CallPage(r),
         ControllerAssumption, StoreAssumption
  PROVE  PendingWell'
<1> DEFINE o == Origin(r)
           pending == permissions.inPending[o]
           m == <<r, "access">>
<1>1. /\ request \in [Requests -> RequestType] /\ message \in [Ids -> Statuses]
      /\ permissions \in StoreType /\ StateTypes /\ o \in Origins
      /\ request[r].at = "new" /\ originOf' = originOf /\ Keeps
  BY OriginType DEF IInv, StateTypes, CallPage, context, Keeps
<1>2. CASE request' \in {[request EXCEPT ![r].at = "generating"], Answered(r, "refusal")}
           /\ UNCHANGED <<message, permissions>>
  <2>1. \A q \in Requests : q # r => request'[q] = request[q]
    BY <1>1, <1>2 DEF Answered
  <2> QED
    BY <1>1, <1>2, <2>1, PendingAside
<1>3. CASE AskAccess(r) /\ pending \in Stored
  <2>1. /\ UNCHANGED <<message, permissions>>
        /\ \A q \in Requests : q # r => request'[q] = request[q]
    BY <1>1, <1>3 DEF AskAccess
  <2> QED
    BY <1>1, <2>1, PendingAside
<1>4. CASE AskAccess(r) /\ pending \notin Stored /\ Unknown(permissions, o)
  <2>1. PICK p \in Origins : p = o
    BY <1>1
  <2>2. PICK n \in Ids : n = m
    BY DEF Ids
  <2>3. /\ message' = [message EXCEPT ![n] = "unapproved"]
        /\ permissions' = SetMessageIdAccess(permissions, p, n)
        /\ request' = [request EXCEPT ![r] = AwaitResult(r, n, "access", "unapproved")]
        /\ Unknown(permissions, p) /\ n[1] = r
    BY <1>4, <2>1, <2>2 DEF AskAccess
  <2>4. /\ permissions'.inPending[p] = n /\ permissions'.origins = permissions.origins
        /\ \A q \in Origins : q # p => permissions'.inPending[q] = NoMessage
    BY <1>1, <2>3 DEF SetMessageIdAccess, NothingPending, StoreType
  <2>5. /\ request'[r].at = "access" /\ request'[r].waits = n /\ request'[r].told = "absent"
        /\ message'[n] = "unapproved"
    BY <1>1, <2>3 DEF AwaitResult, RequestType
  <2>6. Origin(r)' = p /\ Unknown(permissions, p)'
    BY <1>1, <2>1, <2>3, <2>4 DEF Origin, Unknown, GetPermissions
  <2>7. Awaited(p)'
    BY <2>4, <2>5, <2>6 DEF Awaited
  <2> QED
    BY <2>3, <2>4, <2>6, <2>7 DEF PendingWell, Origin
<1> QED
  BY <1>2, <1>3, <1>4 DEF CallPage

LEMMA PendingResume ==
  ASSUME IInv, PendingWell, NEW r \in Requests, ResumeAccess(r),
         ControllerAssumption, StoreAssumption
  PROVE  PendingWell'
<1> DEFINE o == Origin(r)
<1>1. /\ StateTypes /\ request \in [Requests -> RequestType] /\ permissions \in StoreType
      /\ o \in Origins /\ request[r].at = "access" /\ request[r].told # "absent"
      /\ message' = message /\ originOf' = originOf /\ approval' = approval /\ Keeps
      /\ \A q \in Requests : q # r => request'[q] = request[q]
  BY OriginType DEF IInv, StateTypes, ResumeAccess, context, Keeps, Answered
<1>2. CASE Resets(permissions')
  BY <1>2, ResetStep
<1>3. CASE ~Resets(permissions')
  <2>1. permissions' = permissions /\ request[r].told # "rejected"
    BY <1>1, <1>3, StoreResets DEF ResumeAccess, SetPermission
  <2>2. SUFFICES ASSUME NEW p \in Origins, permissions.inPending[p] # NoMessage
                 PROVE  /\ Unknown(permissions, p) /\ Origin(permissions.inPending[p][1]) = p
                        /\ permissions.inPending[p] \in Stored => Awaited(p)' \/ Spoiled(p)'
    BY <1>1, <2>1 DEF PendingWell, Origin, Unknown, Stored
  <2> DEFINE n == permissions.inPending[p]
  <2>3. /\ Unknown(permissions, p) /\ Origin(n[1]) = p
        /\ n \in Stored => Awaited(p) \/ Spoiled(p)
    BY <2>2 DEF PendingWell
  <2>4. Spoiled(p) => Spoiled(p)'
    BY <1>1, <2>1 DEF Spoiled
  <2>5. ASSUME Awaited(p) PROVE Awaited(p)'
    <3>1. PICK q \in Requests :
            /\ request[q].at = "access" /\ request[q].waits = n /\ Origin(q) = p
            /\ \/ message[n] = "unapproved" /\ request[q].told = "absent"
               \/ message[n] \in {"rejected", "rejected_forever"} /\ request[q].told = message[n]
      BY <2>5 DEF Awaited
    <3>2. CASE q # r
      BY <1>1, <2>1, <3>1, <3>2 DEF Awaited, Origin
    <3>3. CASE q = r
      <4>1. request[r].told = "rejected_forever" /\ p = o
        BY <1>1, <2>1, <3>1, <3>3
      <4>2. ~Has(permissions, o, "rejected")
        BY <2>3, <4>1, UnknownHasNone
      <4>3. permissions' = SetPermission(permissions, o, "rejected")
        BY <4>1 DEF ResumeAccess
      <4> QED
        BY <1>1, <1>3, <4>2, <4>3, StoreResets
    <3> QED
      BY <3>2, <3>3
  <2> QED
    BY <2>3, <2>4, <2>5
<1> QED
  BY <1>2, <1>3

LEMMA PendingSigns ==
  ASSUME IInv, PendingWell, NEW r \in Requests,
         \/ ResumeSigning(r) \/ GenerationFails(r) \/ Generated(r)
         \/ \E a \in Approvals : GeneratedAutoSigned(r, a),
         ControllerAssumption, StoreAssumption
  PROVE  PendingWell'
<1>1. StateTypes /\ permissions \in StoreType /\ request \in [Requests -> RequestType]
      /\ message \in [Ids -> Statuses]
  BY DEF IInv, StateTypes
<1>2. ASSUME NEW a \in Approvals, GeneratedAutoSigned(r, a)
      PROVE  PendingWell'
  <2>1. permissions' = UpdatePermission(permissions, Origin(r), "allowAutoSign")
    BY <1>2 DEF GeneratedAutoSigned
  <2> QED
    BY <1>1, <2>1, OriginType, StoreResets, ResetStep
<1>3. CASE ResumeSigning(r) \/ GenerationFails(r) \/ Generated(r)
  <2>1. /\ request[r].at # "access" /\ permissions' = permissions /\ originOf' = originOf /\ Keeps
        /\ \A q \in Requests : q # r => request'[q] = request[q]
    BY <1>1, <1>3 DEF ResumeSigning, GenerationFails, Generated, context, Keeps, Answered
  <2>2. ASSUME NEW m \in AccessIds PROVE message'[m] = message[m]
    <3>1. m \in Ids /\ m # <<r, "signing">>
      BY DEF AccessIds, Ids
    <3> QED
      BY <1>1, <1>3, <3>1 DEF ResumeSigning, GenerationFails, Generated
  <2> QED
    BY <1>1, <2>1, <2>2, PendingAside
<1> QED
  BY <1>2, <1>3

\* The steps of approve().
LEMMA PendingFinish ==
  ASSUME StateTypes, PendingWell, Quiet, Keeps, NEW m \in Ids, NEW status \in Finished,
         Finish(m, status), permissions' = permissions, originOf' = originOf,
         \/ m \notin AccessIds
         \/ status \in {"rejected", "rejected_forever"}
         \/ status = "failed" /\ \E a \in Approvals : approval'[a].of = m
  PROVE  PendingWell'
<1>1. request' = Told({m}, status) /\ {m} \in SUBSET Ids /\ message \in [Ids -> Statuses]
  BY DEF Finish, StateTypes
<1>2. ASSUME NEW n \in AccessIds
      PROVE  \/ message'[n] = "absent"
             \/ n \notin {m} /\ message'[n] = message[n]
             \/ /\ n \in {m} \cap Stored /\ message'[n] = status
                /\ \/ status \in {"rejected", "rejected_forever"}
                   \/ status = "failed" /\ \E a \in Approvals : approval'[a].of = n
  <2>1. n \in Ids
    BY DEF AccessIds, Ids
  <2>2. message'[n] = IF m \in Stored /\ n = m THEN status ELSE message[n]
    BY <1>1, <2>1 DEF Finish
  <2> QED
    BY <2>1, <2>2 DEF Stored
<1> QED
  BY <1>1, <1>2, PendingTold

LEMMA PendingReject ==
  ASSUME StateTypes, PendingWell, Quiet, Keeps, NEW ms \in SUBSET Stored, RejectAll(ms),
         permissions' = permissions, originOf' = originOf
  PROVE  PendingWell'
<1>1. /\ request' = Told(ms, "rejected") /\ ms \in SUBSET Ids /\ "rejected" \in Finished
      /\ AccessIds \subseteq Ids
  BY DEF RejectAll, Stored, Finished, AccessIds, Ids
<1>2. \A n \in AccessIds : message'[n] = IF n \in ms THEN "rejected" ELSE message[n]
  BY <1>1 DEF RejectAll
<1>3. \A n \in AccessIds :
        \/ n \notin ms /\ message'[n] = message[n]
        \/ n \in ms \cap Stored /\ message'[n] = "rejected"
  BY <1>2
<1> QED
  BY <1>1, <1>3, PendingTold

LEMMA PendingApprove ==
  ASSUME IInv, PendingWell, NEW a \in Approvals, NEW m \in Ids, Approve(a, m),
         ControllerAssumption, StoreAssumption
  PROVE  PendingWell'
<1>1. /\ StateTypes /\ Quiet /\ approval[a].at = "free" /\ approval[a].of = NoMessage
      /\ originOf' = originOf /\ m[1] \in Requests /\ permissions \in StoreType
      /\ approval \in [Approvals -> ApprovalType] /\ message \in [Ids -> Statuses]
      /\ request \in [Requests -> RequestType] /\ m \in Stored
  BY DEF IInv, StateTypes, Working, Approve, context, Ids
<1>2. /\ \E at : approval' = [approval EXCEPT ![a] = [at |-> at, of |-> m]]
      /\ approval'[a].of = m
  BY <1>1 DEF Approve
<1>3. Keeps
  BY <1>1, <1>2 DEF Keeps
<1>4. CASE Finish(m, "failed") /\ UNCHANGED permissions
  BY <1>1, <1>2, <1>3, <1>4, PendingFinish DEF Finished
<1>5. CASE m[2] = "signing" /\ UNCHANGED <<message, request, permissions>>
  <2>1. \A n \in AccessIds : \/ n \notin {} /\ message'[n] = message[n]
    BY <1>5
  <2>2. request' = Told({}, "rejected")
    BY <1>1, <1>5 DEF Told
  <2> QED
    BY <1>1, <1>3, <1>5, <2>1, <2>2, PendingTold DEF Finished
<1>6. CASE m[2] = "access" /\ Finish(m, "signed")
           /\ permissions' = SetPermission(permissions, Origin(m[1]), "approved")
  <2> DEFINE o == Origin(m[1])
  <2>1. o \in Origins
    BY <1>1, OriginType
  <2>2. CASE ~Has(permissions, o, "approved")
    BY <1>1, <1>6, <2>1, <2>2, StoreResets, ResetStep
  <2>3. CASE Has(permissions, o, "approved")
    <3>1. permissions' = permissions /\ request' = Told({m}, "signed")
      BY <1>6, <2>3 DEF SetPermission, Finish
    <3>2. SUFFICES ASSUME NEW p \in Origins, permissions.inPending[p] # NoMessage
                   PROVE  /\ Unknown(permissions, p) /\ Origin(permissions.inPending[p][1]) = p
                          /\ permissions.inPending[p] \in Stored' => Awaited(p)' \/ Spoiled(p)'
      BY <1>1, <3>1 DEF PendingWell, Origin, Unknown
    <3> DEFINE n == permissions.inPending[p]
    <3>3. /\ Unknown(permissions, p) /\ Origin(n[1]) = p
          /\ n \in Stored => Awaited(p) \/ Spoiled(p)
      BY <3>2 DEF PendingWell
    <3>4. n # m
      BY <2>3, <3>3, UnknownHasNone
    <3>5. n \in Ids /\ n # NoMessage
      BY <1>1, <3>2, PendingIds
    <3>6. message'[n] = message[n]
      BY <1>1, <1>6, <3>4, <3>5 DEF Finish
    <3>7. \A r \in Requests : request[r].waits = n => request'[r] = request[r]
      BY <3>1, <3>4 DEF Told
    <3>8. Awaited(p) => Awaited(p)'
      BY <1>1, <3>1, <3>6, <3>7 DEF Awaited, Origin
    <3>9. Spoiled(p) => Spoiled(p)'
      BY <1>3, <3>1, <3>5, <3>6 DEF Spoiled, Keeps
    <3>10. n \in Stored' => n \in Stored
      BY <3>6 DEF Stored
    <3> QED
      BY <3>3, <3>8, <3>9, <3>10
  <2> QED
    BY <2>2, <2>3
<1> QED
  BY <1>4, <1>5, <1>6 DEF Approve

LEMMA PendingSigning ==
  ASSUME IInv, PendingWell, NEW a \in Approvals,
         WalletSigned(a) \/ RejectedOnLedger(a) \/ Broadcast(a) \/ ApproveFails(a)
  PROVE  PendingWell'
<1> DEFINE m == approval[a].of
<1>1. /\ StateTypes /\ Quiet /\ permissions' = permissions /\ originOf' = originOf
      /\ approval[a].at \in {"signing", "broadcasting"}
      /\ \E at : approval' = [approval EXCEPT ![a].at = at]
      /\ request \in [Requests -> RequestType] /\ approval \in [Approvals -> ApprovalType]
  BY DEF IInv, StateTypes, WalletSigned, RejectedOnLedger, Broadcast, ApproveFails, Over, context
<1>2. m \in Ids /\ m \notin AccessIds
  BY <1>1 DEF IInv, Working, Ids, AccessIds
<1>3. Keeps
  BY <1>1 DEF Keeps, ApprovalType
<1>4. CASE UNCHANGED <<message, request>>
  <2>1. request' = Told({}, "rejected")
    BY <1>1, <1>4 DEF Told
  <2> QED
    BY <1>1, <1>3, <1>4, <2>1, PendingTold DEF Finished
<1>5. ASSUME NEW status \in {"signed", "published", "failed"}, Finish(m, status)
      PROVE  PendingWell'
  <2> HIDE DEF m
  <2> QED
    BY <1>1, <1>2, <1>3, <1>5, PendingFinish DEF Finished
<1>6. CASE RejectAll({m} \cap Stored)
  BY <1>1, <1>3, <1>6, PendingReject
<1> QED
  BY <1>4, <1>5, <1>6 DEF WalletSigned, RejectedOnLedger, Broadcast, ApproveFails

\* The other methods and events.
LEMMA PendingUser ==
  ASSUME IInv, PendingWell, FeesWell,
         \/ \E m \in Ids, forever \in BOOLEAN : Reject(m, forever)
         \/ \E f \in Fees : FeeUpdated(f) \/ \E m \in Ids : UpdateFee(f, m)
         \/ \E old \in SUBSET Ids : Expire(old)
         \/ \E c \in Connections : Disconnect(c)
         \/ ClearMessages \/ Lock \/ Unlock
  PROVE  PendingWell'
<1>1. /\ StateTypes /\ Quiet /\ permissions' = permissions /\ originOf' = originOf
      /\ Keeps /\ message \in [Ids -> Statuses] /\ request \in [Requests -> RequestType]
  BY DEF IInv, StateTypes, Reject, FeeUpdated, UpdateFee, Expire, Disconnect, ClearMessages,
     Lock, Unlock, context, Keeps
<1>2. ASSUME request' = request,
             \A m \in AccessIds : message'[m] = "absent" \/ message'[m] = message[m]
      PROVE  PendingWell'
  <2>1. request' = Told({}, "rejected")
    BY <1>1, <1>2 DEF Told
  <2> QED
    BY <1>1, <1>2, <2>1, PendingTold DEF Finished
<1>3. ASSUME NEW m \in Ids, NEW forever \in BOOLEAN, Reject(m, forever) PROVE PendingWell'
  BY <1>1, <1>3, PendingFinish DEF Reject, Finished
<1>4. ASSUME NEW f \in Fees, FeeUpdated(f) \/ \E m \in Ids : UpdateFee(f, m)
      PROVE  PendingWell'
  <2>1. CASE FeeUpdated(f)
    <3>1. fee[f].of \in Requests \X {"signing"} /\ request' = request
      BY <2>1 DEF FeeUpdated, FeesWell
    <3>2. ASSUME NEW m \in AccessIds PROVE message'[m] = message[m]
      <4>1. m # fee[f].of /\ m \in Ids
        BY <3>1 DEF AccessIds, Ids
      <4> QED
        BY <1>1, <2>1, <4>1 DEF FeeUpdated
    <3> QED
      BY <1>2, <3>1, <3>2
  <2> QED
    BY <1>2, <1>4, <2>1 DEF UpdateFee
<1>5. ASSUME NEW ms \in SUBSET Stored, RejectAll(ms) PROVE PendingWell'
  BY <1>1, <1>5, PendingReject
<1>6. CASE (\E old \in SUBSET Ids : Expire(old)) \/ Lock
  BY <1>5, <1>6 DEF Expire, Lock, Pending
<1>7. ASSUME NEW c \in Connections, Disconnect(c) PROVE PendingWell'
  <2> DEFINE mine == {m \in Stored : PageOf[m[1]] = c}
  <2>1. mine \in SUBSET Ids /\ request' = Told(mine, "rejected")
    BY <1>7 DEF Disconnect, Stored
  <2>2. \A n \in AccessIds : \/ message'[n] = "absent"
                             \/ n \notin mine /\ message'[n] = message[n]
    BY <1>7 DEF Disconnect, AccessIds, Ids
  <2> HIDE DEF mine
  <2> QED
    BY <1>1, <2>1, <2>2, PendingTold DEF Finished
<1>8. CASE ClearMessages \/ Unlock
  BY <1>2, <1>8 DEF ClearMessages, Unlock, AccessIds, Ids
<1> QED
  BY <1>3, <1>4, <1>6, <1>7, <1>8

LEMMA PendingOrigins ==
  ASSUME IInv, PendingWell, NEW o \in Origins, AllowOrigin(o) \/ ChangeOrigin(o), StoreAssumption
  PROVE  PendingWell'
<1>1. permissions \in StoreType /\ StateTypes
  BY DEF IInv, StateTypes
<1>2. \A type \in Types : DeletePermission(permissions, o, type) \in StoreType
  BY <1>1, StoreUpdates
<1>3. \A gone \in Types : \A type :
        Resets(SetPermission(DeletePermission(permissions, o, gone), o, type))
  BY <1>1, <1>2, StoreResets
<1>4. \A limited : Resets(SetAutoApprove(permissions, o, limited))
  BY <1>1, StoreResets DEF SetAutoApprove
<1>5. CASE Resets(permissions')
  BY <1>5, ResetStep
<1>6. CASE ~Resets(permissions')
  <2>1. /\ permissions' = DeletePermissions(permissions, o)
        /\ UNCHANGED <<request, message, approval, originOf>>
    BY <1>3, <1>4, <1>6 DEF AllowOrigin, ChangeOrigin, Types
  <2>2. /\ permissions'.inPending = permissions.inPending
        /\ \A p \in Origins : permissions'.origins[p] \subseteq permissions.origins[p]
    BY <1>1, <2>1 DEF DeletePermissions, StoreType
  <2>3. \A p \in Origins : Unknown(permissions, p) => Unknown(permissions, p)'
    BY <2>2 DEF Unknown, GetPermissions
  <2>4. ASSUME NEW p \in Origins, permissions.inPending[p] # NoMessage
        PROVE  /\ Unknown(permissions, p)' /\ Origin(permissions.inPending[p][1])' = p
               /\ permissions.inPending[p] \in Stored' => Awaited(p)' \/ Spoiled(p)'
    <3>1. /\ Unknown(permissions, p) /\ Origin(permissions.inPending[p][1]) = p
          /\ permissions.inPending[p] \in Stored => Awaited(p) \/ Spoiled(p)
      BY <2>4 DEF PendingWell
    <3>2. (Awaited(p) => Awaited(p)') /\ (Spoiled(p) => Spoiled(p)')
      BY <2>1, <2>2 DEF Awaited, Spoiled, Origin
    <3>3. Stored' = Stored
      BY <2>1 DEF Stored
    <3> QED
      BY <2>1, <2>2, <2>3, <3>1, <3>2, <3>3 DEF Origin
  <2> QED
    BY <2>2, <2>4 DEF PendingWell, Origin
<1> QED
  BY <1>5, <1>6

LEMMA PendingRestart ==
  ASSUME IInv, PendingWell, Restart
  PROVE  PendingWell'
  BY DEF PendingWell, Restart, Stored, Origin, Unknown, GetPermissions

LEMMA PendingKept ==
  ASSUME PendingWell, UNCHANGED vars
  PROVE  PendingWell'
  BY DEF PendingWell, Awaited, Spoiled, Stored, Origin, Unknown, GetPermissions, vars, context

LEMMA PendingInv ==
  ASSUME IInv, PendingWell, FeesWell, [Next]_vars
  PROVE  PendingWell'
<1> USE ControllerAssumption, StoreAssumption
<1>1. ASSUME NEW r \in Requests,
             \/ CallPage(r) \/ ResumeAccess(r) \/ ResumeSigning(r)
             \/ GenerationFails(r) \/ Generated(r)
             \/ \E a \in Approvals : GeneratedAutoSigned(r, a)
      PROVE  PendingWell'
  BY <1>1, PendingCallPage, PendingResume, PendingSigns
<1>2. ASSUME NEW a \in Approvals,
             \/ \E m \in Ids : Approve(a, m)
             \/ WalletSigned(a) \/ RejectedOnLedger(a) \/ Broadcast(a) \/ ApproveFails(a)
      PROVE  PendingWell'
  BY <1>2, PendingApprove, PendingSigning
<1>3. ASSUME \E o \in Origins : AllowOrigin(o) \/ ChangeOrigin(o) PROVE PendingWell'
  BY <1>3, PendingOrigins
<1> QED
  BY <1>1, <1>2, <1>3, PendingUser, PendingRestart, PendingKept DEF Next

LEMMA FeesInv ==
  ASSUME RestTypes, FeesWell, [Next]_vars
  PROVE  FeesWell'
<1>1. CASE fee' = fee
  BY <1>1 DEF FeesWell
<1>2. ASSUME NEW f \in Fees, FeeUpdated(f) \/ \E m \in Ids : UpdateFee(f, m)
      PROVE  FeesWell'
  BY <1>2 DEF RestTypes, FeesWell, FeeUpdated, UpdateFee, Ids
<1>3. CASE Restart
  BY <1>3 DEF RestTypes, FeesWell, Restart
<1>4. fee' = fee \/ (\E f \in Fees : FeeUpdated(f) \/ \E m \in Ids : UpdateFee(f, m)) \/ Restart
  BY DEF Next, CallPage, ResumeAccess, ResumeSigning, GenerationFails, Generated,
     GeneratedAutoSigned, Approve, WalletSigned, RejectedOnLedger, Broadcast, ApproveFails,
     Reject, AllowOrigin, ChangeOrigin, Disconnect, Expire, ClearMessages, Lock, Unlock, vars
<1> QED
  BY <1>1, <1>2, <1>3, <1>4

(* No new request of an origin is answered with a decision that the user   *)
(* has already taken: only an approval that failed leaves its message      *)
(* pending.                                                                *)
THEOREM PendingNeverDecided == Spec => []PendingIsUndecided
<1>1. Init => PendingWell /\ FeesWell
  <2> SUFFICES ASSUME Init PROVE PendingWell /\ FeesWell
    OBVIOUS
  <2>1. \A o \in Origins : permissions.inPending[o] = NoMessage
    BY DEF Init, EmptyStore, NothingPending
  <2>2. \A f \in Fees : fee[f].at = "free"
    BY DEF Init
  <2> QED
    BY <2>1, <2>2 DEF PendingWell, FeesWell
<1>2. IInv /\ RestTypes /\ PendingWell /\ FeesWell /\ [Next]_vars => PendingWell' /\ FeesWell'
  BY PendingInv, FeesInv
<1>3. IInv /\ PendingWell => PendingIsUndecided
  <2> SUFFICES ASSUME IInv, PendingWell, Quiet, NEW o \in Origins,
                      permissions.inPending[o] \in Stored \ Pending
               PROVE  /\ message[permissions.inPending[o]]
                           \in {"failed", "rejected", "rejected_forever"}
                      /\ \E a \in Approvals : approval[a].of = permissions.inPending[o]
    BY DEF PendingIsUndecided
  <2>1. permissions.inPending[o] # NoMessage
    BY ControllerAssumption DEF Stored, Ids, ControllerAssumption
  <2>2. Awaited(o) \/ Spoiled(o)
    BY <2>1 DEF PendingWell
  <2>3. ~Awaited(o)
    BY DEF Awaited, Quiet, Pending
  <2> QED
    BY <2>2, <2>3 DEF Spoiled
<1> QED
  BY Invariant, RestAlways, <1>1, <1>2, <1>3, PTL DEF Spec

-----------------------------------------------------------------------------
(* The page API implements Reply.                                          *)

SameReplies == \A r \in Requests : ReplyTo(r)' = ReplyTo(r)

LEMMA AsideMaps ==
  ASSUME SameReplies, Approved' = Approved
  PROVE  [Promise!Next]_(Promise!vars)
  BY DEF SameReplies, Promise!vars

LEMMA GrantMaps ==
  ASSUME SameReplies, NEW r \in Requests, Approved' = Approved \cup {r}
  PROVE  Promise!Next
<1>1. Promise!Grant(r)
  BY DEF SameReplies, Promise!Grant
<1> QED
  BY <1>1 DEF Promise!Next

LEMMA ToldMaps ==
  ASSUME StateTypes, NEW ms, NEW status \in Finished, request' = Told(ms, status)
  PROVE  SameReplies
  BY ToldFacts DEF SameReplies, ReplyTo

\* A request that goes on is not settled yet.
LEMMA GoesOnMaps ==
  ASSUME StateTypes, NEW r \in Requests, NEW x \in RequestType,
         request' = [request EXCEPT ![r] = x],
         {request[r].at, x.at} \subseteq {"new", "access", "generating", "signing"}
  PROVE  SameReplies
<1>1. request'[r] = x /\ \A q \in Requests : q # r => request'[q] = request[q]
  BY DEF StateTypes
<1>2. ReplyTo(r)' = "unsettled" /\ ReplyTo(r) = "unsettled"
  BY <1>1 DEF ReplyTo
<1> QED
  BY <1>1, <1>2 DEF SameReplies, ReplyTo

LEMMA AnswerMaps ==
  ASSUME StateTypes, NEW r \in Requests, NEW answer \in {"result", "refusal"},
         request' = Answered(r, answer), Approved' = Approved,
         request[r].at \in {"new", "access", "generating", "signing"},
         answer = "result" => r \in Approved
  PROVE  Promise!Next
<1>1. /\ request'[r].at = "answered" /\ request'[r].answer = answer
      /\ \A q \in Requests : q # r => request'[q] = request[q]
  BY DEF StateTypes, RequestType, Answered
<1>2. ReplyTo(r) = "unsettled" /\ ReplyTo(r)' = answer
      /\ \A q \in Requests : q # r => ReplyTo(q)' = ReplyTo(q)
  BY <1>1 DEF ReplyTo
<1>3. Promise!Settle(r, answer)
  BY <1>2 DEF Promise!Settle
<1> QED
  BY <1>3 DEF Promise!Next

LEMMA CallMaps ==
  ASSUME IInv, NEW r \in Requests, CallPage(r), ControllerAssumption, StoreAssumption
  PROVE  [Promise!Next]_(Promise!vars)
<1>1. /\ StateTypes /\ request[r].at = "new" /\ Approved' = Approved
      /\ request[r] \in RequestType /\ message \in [Ids -> Statuses]
  BY SameApprovals DEF CallPage, IInv, StateTypes
<1>2. ASSUME NEW x \in RequestType, request' = [request EXCEPT ![r] = x],
             x.at \in {"access", "generating"}
      PROVE  [Promise!Next]_(Promise!vars)
  BY <1>1, <1>2, GoesOnMaps, AsideMaps
<1>3. CASE request' = [request EXCEPT ![r].at = "generating"]
  <2> DEFINE x == [request[r] EXCEPT !.at = "generating"]
  <2>1. x \in RequestType /\ x.at = "generating" /\ request' = [request EXCEPT ![r] = x]
    BY <1>1, <1>3 DEF RequestType
  <2> HIDE DEF x
  <2> QED
    BY <1>2, <2>1
<1>4. CASE request' = Answered(r, "refusal")
  BY <1>1, <1>4, AnswerMaps
<1>5. CASE AskAccess(r)
  <2>1. PICK m \in Ids, status \in Statuses :
          request' = [request EXCEPT ![r] = AwaitResult(r, m, "access", status)]
    BY <1>1, <1>5 DEF AskAccess, Stored, Ids, Statuses
  <2> DEFINE x == AwaitResult(r, m, "access", status)
  <2>2. x \in RequestType /\ x.at = "access"
    BY <1>1 DEF AwaitResult, RequestType, Statuses
  <2> HIDE DEF x
  <2> QED
    BY <1>2, <2>1, <2>2 DEF x
<1> QED
  BY <1>3, <1>4, <1>5 DEF CallPage

LEMMA ResumeMaps ==
  ASSUME IInv, NEW r \in Requests,
         ResumeAccess(r) \/ ResumeSigning(r) \/ GenerationFails(r)
  PROVE  [Promise!Next]_(Promise!vars)
<1>1. /\ StateTypes /\ Approved' = Approved /\ request[r] \in RequestType
      /\ request[r].at \in {"access", "signing", "generating"}
  BY SameApprovals DEF ResumeAccess, ResumeSigning, GenerationFails, IInv, StateTypes
<1>2. CASE request' = Answered(r, "refusal")
  BY <1>1, <1>2, AnswerMaps
<1>3. CASE ResumeAccess(r) /\ request[r].told = "signed"
  <2> DEFINE x == [request[r] EXCEPT !.at = "generating", !.waits = NoMessage,
                                     !.told = "absent"]
  <2>1. request' = [request EXCEPT ![r] = x]
    BY <1>1, <1>3 DEF ResumeAccess, StateTypes, RequestType
  <2>2. x \in RequestType /\ x.at = "generating"
    BY <1>1 DEF RequestType, Statuses
  <2> HIDE DEF x
  <2> QED
    BY <1>1, <2>1, <2>2, GoesOnMaps, AsideMaps
<1>4. CASE ResumeSigning(r)
  <2>1. request' = Answered(r, AnswerFor(request[r].told)) /\ request[r].at = "signing"
    BY <1>4 DEF ResumeSigning
  <2>2. AnswerFor(request[r].told) = "result" => r \in Approved
    BY <2>1 DEF AnswerFor, IInv, Waiters, WaitsWell, Done
  <2>3. AnswerFor(request[r].told) \in {"result", "refusal"}
    BY DEF AnswerFor
  <2> QED
    BY <1>1, <2>1, <2>2, <2>3, AnswerMaps
<1> QED
  BY <1>2, <1>3, <1>4 DEF ResumeAccess, GenerationFails

LEMMA GeneratedMaps ==
  ASSUME IInv, NEW r \in Requests,
         Generated(r) \/ \E a \in Approvals : GeneratedAutoSigned(r, a),
         ControllerAssumption
  PROVE  [Promise!Next]_(Promise!vars)
<1>1. ASSUME NEW status \in {"unapproved", "failed"}, request[r].at = "generating",
             request' = [request EXCEPT
                           ![r] = AwaitResult(r, <<r, "signing">>, "signing", status)]
      PROVE  SameReplies
  <2> DEFINE x == AwaitResult(r, <<r, "signing">>, "signing", status)
  <2>1. StateTypes /\ x \in RequestType /\ x.at = "signing"
    <3>1. StateTypes /\ request[r] \in RequestType
      BY DEF IInv, StateTypes
    <3>2. <<r, "signing">> \in Ids /\ status \in Statuses
      BY DEF Ids, Statuses, Finished
    <3> QED
      BY <3>1, <3>2, AwaitFields
  <2>2. request' = [request EXCEPT ![r] = x]
    BY <1>1
  <2>3. {request[r].at, x.at} \subseteq {"new", "access", "generating", "signing"}
    BY <1>1, <2>1
  <2> HIDE DEF x
  <2> QED
    BY <2>1, <2>2, <2>3, GoesOnMaps
<1>2. CASE Generated(r)
  <2>1. SameReplies
    BY <1>1, <1>2 DEF Generated
  <2> QED
    BY <1>2, <2>1, SameApprovals, AsideMaps DEF Generated
<1>3. ASSUME NEW a \in Approvals, GeneratedAutoSigned(r, a)
      PROVE  [Promise!Next]_(Promise!vars)
  <2>1. SameReplies
    BY <1>1, <1>3 DEF GeneratedAutoSigned
  <2> DEFINE m == <<r, "signing">>
  <2>2. PICK at \in {"signing", "over"} :
          approval' = [approval EXCEPT ![a] = [at |-> at, of |-> m]]
    BY <1>3 DEF GeneratedAutoSigned
  <2>3. m \in Ids /\ m \in Requests \X {"signing"} /\ approval[a].at = "free"
    BY <1>3 DEF GeneratedAutoSigned, Ids
  <2> HIDE DEF m
  <2>4. Approved' = Approved \cup {q \in Requests : m = <<q, "signing">>}
    BY <2>2, <2>3, ApprovalBegins
  <2>5. Approved' = Approved \cup {r}
    BY <2>4 DEF m
  <2> QED
    BY <2>1, <2>5, GrantMaps
<1> QED
  BY <1>2, <1>3

LEMMA ApproveMaps ==
  ASSUME IInv, NEW a \in Approvals, NEW m \in Ids, Approve(a, m), ControllerAssumption
  PROVE  [Promise!Next]_(Promise!vars)
<1>1. SameReplies
  <2>1. CASE request' = request
    BY <2>1 DEF SameReplies, ReplyTo
  <2>2. CASE \E status \in Finished : request' = Told({m}, status)
    BY <2>2, ToldMaps DEF IInv
  <2> QED
    BY <2>1, <2>2 DEF Approve, Finish, Finished
<1>2. \E at \in {"signing", "over"} :
        /\ at = "signing" => m \in Requests \X {"signing"}
        /\ approval' = [approval EXCEPT ![a] = [at |-> at, of |-> m]]
  BY DEF Approve, Ids
<1>3. Approved' = Approved \cup {q \in Requests : m = <<q, "signing">>}
  BY <1>2, ApprovalBegins DEF Approve
<1>4. PICK r \in Requests : m = <<r, "signing">> \/ m = <<r, "access">>
  BY DEF Ids
<1>5. Approved' = Approved \cup {r} \/ Approved' = Approved
  BY <1>3, <1>4
<1> QED
  BY <1>1, <1>5, GrantMaps, AsideMaps

LEMMA RestartMaps ==
  ASSUME IInv, Restart
  PROVE  Promise!Next
<1> DEFINE cs == {r \in Requests : request[r].at \in {"access", "generating", "signing"}}
<1>1. \A r \in Requests :
        /\ r \in cs => ReplyTo(r) = "unsettled"
        /\ ReplyTo(r)' = IF r \in cs THEN "forgotten" ELSE ReplyTo(r)
  BY DEF Restart, IInv, StateTypes, RequestType, ReplyTo
<1>2. Promise!GiveUp(cs, "forgotten")
  BY <1>1, RestartStep DEF Promise!GiveUp
<1>3. cs \in SUBSET Requests
  OBVIOUS
<1> HIDE DEF cs
<1> QED
  BY <1>2, <1>3 DEF Promise!Next

(* Every step of the controller is a step of Reply or leaves it alone; so, *)
(* for any pages and approvals, a request gets one outcome at most, and a  *)
(* result only after an approval of its own signing message began.         *)
THEOREM ControllerImplementsReply == Spec => KeepsPromise
<1> USE ControllerAssumption, StoreAssumption
<1>1. Init => Promise!Init
  <2> SUFFICES ASSUME Init PROVE Promise!Init
    OBVIOUS
  <2>1. \A r \in Requests : ReplyTo(r) = "unsettled"
    BY DEF Init, ReplyTo
  <2>2. Approved = {}
    BY DEF Init, Approved, ControllerAssumption
  <2> QED
    BY <2>1, <2>2 DEF Promise!Init
<1>2. IInv /\ [Next]_vars => [Promise!Next]_(Promise!vars)
  <2> SUFFICES ASSUME IInv, [Next]_vars PROVE [Promise!Next]_(Promise!vars)
    OBVIOUS
  <2>1. ASSUME Approved' = Approved,
               \/ request' = request
               \/ \E ms \in SUBSET Ids, status \in Finished : request' = Told(ms, status)
        PROVE  [Promise!Next]_(Promise!vars)
    <3>1. CASE request' = request
      BY <3>1, <2>1, AsideMaps DEF SameReplies, ReplyTo
    <3>2. ASSUME NEW ms \in SUBSET Ids, NEW status \in Finished,
                 request' = Told(ms, status)
          PROVE  [Promise!Next]_(Promise!vars)
      BY <2>1, <3>2, ToldMaps, AsideMaps DEF IInv
    <3> QED
      BY <2>1, <3>1, <3>2
  <2>2. ASSUME NEW a \in Approvals,
               WalletSigned(a) \/ RejectedOnLedger(a) \/ Broadcast(a) \/ ApproveFails(a)
        PROVE  [Promise!Next]_(Promise!vars)
    <3>1. /\ approval[a].at \in {"signing", "broadcasting"}
          /\ \E at \in {"broadcasting", "over"} : approval' = [approval EXCEPT ![a].at = at]
      BY <2>2 DEF WalletSigned, RejectedOnLedger, Broadcast, ApproveFails, Over
    <3>2. Approved' = Approved /\ {approval[a].of} \in SUBSET Ids
      BY <3>1, ApprovalMoves
    <3>3. \/ request' = request
          \/ \E ms \in SUBSET Ids, status \in Finished : request' = Told(ms, status)
      BY <2>2, <3>2 DEF WalletSigned, RejectedOnLedger, Broadcast, ApproveFails, Finish,
         RejectAll, Finished
    <3> QED
      BY <2>1, <3>2, <3>3
  <2>3. ASSUME approval' = approval,
               \/ \E m \in Ids, forever \in BOOLEAN : Reject(m, forever)
               \/ \E f \in Fees : FeeUpdated(f) \/ \E m \in Ids : UpdateFee(f, m)
               \/ \E o \in Origins : AllowOrigin(o) \/ ChangeOrigin(o)
               \/ \E c \in Connections : Disconnect(c)
               \/ \E old \in SUBSET Ids : Expire(old)
               \/ ClearMessages \/ Lock \/ Unlock \/ UNCHANGED vars
        PROVE  [Promise!Next]_(Promise!vars)
    <3>1. \/ request' = request
          \/ \E ms \in SUBSET Ids, status \in Finished : request' = Told(ms, status)
      <4>1. \A o : FromOrigin(o) \in SUBSET Ids
        BY DEF FromOrigin, Stored
      <4>2. ASSUME NEW m \in Ids, NEW forever \in BOOLEAN, Reject(m, forever)
            PROVE  \E ms \in SUBSET Ids, status \in Finished : request' = Told(ms, status)
        <5>1. {m} \in SUBSET Ids
          OBVIOUS
        <5> QED
          BY <4>2, <5>1 DEF Reject, Finish, Finished
      <4>3. ASSUME NEW c \in Connections, Disconnect(c)
            PROVE  \E ms \in SUBSET Ids, status \in Finished : request' = Told(ms, status)
        <5>1. {m \in Stored : PageOf[m[1]] = c} \in SUBSET Ids
          BY DEF Stored
        <5> QED
          BY <4>3, <5>1 DEF Disconnect, Finished
      <4>4. ASSUME NEW ms \in SUBSET Ids, RejectAll(ms)
            PROVE  \E ns \in SUBSET Ids, status \in Finished : request' = Told(ns, status)
        BY <4>4 DEF RejectAll, Finished
      <4> QED
        BY <2>3, <4>1, <4>2, <4>3, <4>4 DEF FeeUpdated, UpdateFee, AllowOrigin, ChangeOrigin,
           Expire, ClearMessages, Lock, Unlock, vars, Stored
    <3> QED
      BY <2>1, <2>3, <3>1, SameApprovals
  <2>4. ASSUME NEW r \in Requests,
               \/ CallPage(r) \/ ResumeAccess(r) \/ ResumeSigning(r)
               \/ GenerationFails(r) \/ Generated(r)
               \/ \E a \in Approvals : GeneratedAutoSigned(r, a)
        PROVE  [Promise!Next]_(Promise!vars)
    BY <2>4, CallMaps, ResumeMaps, GeneratedMaps
  <2> QED
    BY <2>2, <2>3, <2>4, ApproveMaps, RestartMaps
       DEF Next, Reject, FeeUpdated, UpdateFee, AllowOrigin, ChangeOrigin, Disconnect,
           Expire, ClearMessages, Lock, Unlock, vars
<1> QED
  BY Invariant, <1>1, <1>2, PTL DEF Spec, KeepsPromise, Promise!Spec
=============================================================================
