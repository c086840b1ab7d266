------------------------- MODULE MessageController -------------------------
(***************************************************************************)
(* The signing requests of web pages in the background process of          *)
(* cubensis-connect: message.ts (MessageController), the page and user     *)
(* interface methods of background.ts that drive it, and the permission    *)
(* store they share.                                                       *)
(*                                                                         *)
(* The process is single threaded: an action is what one event or one      *)
(* resumed await runs before it awaits I/O again.  A promise that a        *)
(* handler resolves resumes its awaiters before the next event (Quiet).    *)
(*                                                                         *)
(* A page request makes at most two messages: one that asks for access to  *)
(* its origin and one that asks for the signature.  Handlers hold a message*)
(* object across awaits and put it back into the list with its last        *)
(* status, in the place of whatever has the id by then: the model keeps    *)
(* the status that the list shows.  One account is selected throughout.    *)
(***************************************************************************)
EXTENDS PermissionStore, Naturals, FiniteSets

CONSTANTS
  Requests,     \* calls of the page API
  Connections,
  PageOf,       \* the connection of each request
  Broadcasts,   \* the requests that sign and publish
  Layouts,      \* the origins that the connections may have
  Approvals,    \* calls of approve(), bound
  Fees,         \* calls of updateTransactionFee(), bound
  MaxChanges,   \* bound: changes of the origins' permissions by the user
  MaxRestarts   \* bound

ASSUME ControllerAssumption ==
  /\ PageOf \in [Requests -> Connections] /\ Broadcasts \subseteq Requests
  /\ Layouts \subseteq [Connections -> Origins]
  /\ {MaxChanges, MaxRestarts} \subseteq Nat
  /\ NoMessage \notin Requests \X {"access", "signing"}

Ids == Requests \X {"access", "signing"}
Finished == {"signed", "published", "rejected", "rejected_forever", "failed"}
Statuses == {"absent", "unapproved"} \cup Finished

VARIABLES
  originOf,    \* the origin of each connection
  closed,      \* the connections whose port ended
  request,     \* where each page request is
  message,     \* the status of each message in the list
  approval,    \* where each call of approve() is
  fee,         \* where each call of updateTransactionFee() is
  permissions, \* the store of PermissionsController
  locked,      \* VaultController
  cleared,     \* requests whose message clearMessages() removed
  changes,     \* counter for the bound
  restarts

context == <<originOf, locked, changes, restarts>>
vars == <<closed, request, message, approval, fee, permissions, cleared,
          context>>

\* Why a request was refused (denied, failed, blocked by the user, a bad
\* request) is not kept apart.
Answers == {"none", "result", "refusal"}

TypeOK ==
  /\ originOf \in [Connections -> Origins]
  /\ closed \subseteq Connections
  /\ request \in [Requests -> [
       at : {"new", "access", "generating", "signing", "answered", "lost"},
       waits : Ids \cup {NoMessage},
       told : Statuses,  \* what the awaited message finished with
       answer : Answers]]
  /\ message \in [Ids -> Statuses]
  /\ approval \in [Approvals -> [at : {"free", "signing", "broadcasting", "over"},
                                 of : Ids \cup {NoMessage}]]
  /\ fee \in [Fees -> [at : {"free", "generating", "over"},
                       of : Ids \cup {NoMessage}]]
  /\ permissions \in [origins : [Origins -> SUBSET Types],
                      inPending : [Origins -> Ids \cup {NoMessage}]]
  /\ locked \in BOOLEAN
  /\ cleared \subseteq Requests
  /\ changes \in 0..MaxChanges
  /\ restarts \in 0..MaxRestarts

Init ==
  /\ originOf \in Layouts
  /\ closed = {}
  /\ request = [r \in Requests |-> [at |-> "new", waits |-> NoMessage,
                                    told |-> "absent", answer |-> "none"]]
  /\ message = [m \in Ids |-> "absent"]
  /\ approval = [a \in Approvals |-> [at |-> "free", of |-> NoMessage]]
  /\ fee = [f \in Fees |-> [at |-> "free", of |-> NoMessage]]
  /\ permissions = EmptyStore
  /\ locked = FALSE
  /\ cleared = {}
  /\ changes = 0
  /\ restarts = 0

-----------------------------------------------------------------------------
Origin(r) == originOf[PageOf[r]]
Stored == {m \in Ids : message[m] # "absent"}

\* No awaiter has been resolved that has not run yet.
Quiet == \A r \in Requests : request[r].told = "absent"

TellOne(ms, status) ==   \* mutant: one awaiter of a shared message
  [r \in Requests |->
     IF request[r].waits \in ms /\ r = CHOOSE q \in Requests : request[q].waits \in ms
     THEN [request[r] EXCEPT !.told = status] ELSE request[r]]

\* emit(`${id}:finished`): every awaiter of the messages is resolved.
Told(ms, status) ==
  [r \in Requests |->
     IF request[r].waits \in ms /\ request[r].told = "absent"
     THEN [request[r] EXCEPT !.told = status] ELSE request[r]]

\* getMessageResult: a finished message answers at once, any other is awaited.
AwaitResult(r, m, at, status) ==
  [request[r] EXCEPT !.at = at, !.waits = m,
                     !.told = IF status = "unapproved" THEN "absent" ELSE status]

Answered(r, answer) ==
  [request EXCEPT ![r].at = "answered", ![r].answer = answer,
                  ![r].waits = NoMessage, ![r].told = "absent"]

\* #updateMessage after the held object got its last status: the object
\* returns to the list if the message is still there, and the event is sent.
Finish(m, status) ==
  /\ message' = IF m \in Stored THEN [message EXCEPT ![m] = status] ELSE message
  /\ request' = Told({m}, status)

RejectSilently(ms) ==   \* mutant: no event
  /\ message' = [m \in Ids |-> IF m \in ms THEN "rejected" ELSE message[m]]
  /\ UNCHANGED request

\* reject() on each of a set of listed messages.
RejectAll(ms) ==
  /\ message' = [m \in Ids |-> IF m \in ms THEN "rejected" ELSE message[m]]
  /\ request' = Told(ms, "rejected")

-----------------------------------------------------------------------------
(* The page API: validatePermission, newMessage, getMessageResult.         *)

\* A pending access message that is gone is replaced by a new one.
AskAccess(r) ==
  LET o == Origin(r)
      pending == permissions.inPending[o]
      m == <<r, "access">>
  IN IF pending \in Stored
     THEN /\ request' = [request EXCEPT
                           ![r] = AwaitResult(r, pending, "access", message[pending])]
          /\ UNCHANGED <<message, permissions>>
     ELSE /\ message' = [message EXCEPT ![m] = "unapproved"]
          /\ permissions' = SetMessageIdAccess(permissions, o, m)
          /\ request' = [request EXCEPT ![r] = AwaitResult(r, m, "access", "unapproved")]

CallPage(r) ==
  LET o == Origin(r) IN
    /\ Quiet
    /\ request[r].at = "new" /\ PageOf[r] \notin closed
    /\ \/ /\ Has(permissions, o, "approved")
          /\ request' = [request EXCEPT ![r].at = "generating"]
          /\ UNCHANGED <<message, permissions>>
       \/ /\ ~Unknown(permissions, o) /\ ~Has(permissions, o, "approved")
          /\ request' = Answered(r, "refusal")
          /\ UNCHANGED <<message, permissions>>
       \/ Unknown(permissions, o) /\ AskAccess(r)
    /\ UNCHANGED <<closed, approval, fee, cleared, context>>

\* The access message was finished.
ResumeAccess(r) ==
  LET o == Origin(r)  told == request[r].told IN
    /\ request[r].at = "access" /\ told # "absent"
    /\ request' = IF told = "signed"
                  THEN [request EXCEPT ![r].at = "generating",
                                       ![r].waits = NoMessage, ![r].told = "absent"]
                  ELSE Answered(r, "refusal")
    /\ permissions' =
         CASE told = "signed" -> SetPermission(permissions, o, "approved")
           [] told = "rejected" -> SetMessageIdAccess(permissions, o, NoMessage)
           [] told = "rejected_forever" -> SetPermission(permissions, o, "rejected")
           [] OTHER -> permissions
    /\ cleared' = cleared \ {r}
    /\ UNCHANGED <<closed, message, approval, fee, context>>

AnswerStatus(status) == status     \* mutant: the status instead of the outcome
AnswerResult(status) == "result"   \* mutant: a denial is not an error

AnswerFor(status) ==
  IF status \in {"signed", "published"} THEN "result" ELSE "refusal"

\* The signing message was finished: the page gets the result or the denial.
ResumeSigning(r) ==
  /\ request[r].at = "signing" /\ request[r].told # "absent"
  /\ request' = Answered(r, AnswerFor(request[r].told))
  /\ cleared' = cleared \ {r}
  /\ UNCHANGED <<closed, message, approval, fee, permissions, context>>

GenerationFails(r) ==
  /\ Quiet
  /\ request[r].at = "generating"
  /\ request' = Answered(r, "refusal")
  /\ UNCHANGED <<closed, message, approval, fee, permissions, cleared, context>>

\* newMessage stores the message, even after its port was closed, and the
\* user is shown it.
Generated(r) ==
  LET m == <<r, "signing">> IN
    /\ Quiet
    /\ request[r].at = "generating"
    /\ message' = [message EXCEPT ![m] = "unapproved"]
    /\ request' = [request EXCEPT ![r] = AwaitResult(r, m, "signing", "unapproved")]
    /\ UNCHANGED <<closed, approval, fee, permissions, cleared, context>>

\* The same, when canAutoSign finds the amount within the origin's limit,
\* records it and starts the approval.  It reads locked from the copy of the
\* state that follows with a delay: then the wallet is missing.
GeneratedAutoSigned(r, a) ==
  LET m == <<r, "signing">>  o == Origin(r) IN
    /\ Quiet
    /\ request[r].at = "generating"
    /\ "allowAutoSign" \in GetPermissions(permissions, o)
    /\ approval[a].at = "free"
    /\ permissions' = UpdatePermission(permissions, o, "allowAutoSign")
    /\ approval' = [approval EXCEPT
         ![a] = [at |-> IF locked THEN "over" ELSE "signing", of |-> m]]
    /\ LET status == IF locked THEN "failed" ELSE "unapproved" IN
         /\ message' = [message EXCEPT ![m] = status]
         /\ request' = [request EXCEPT ![r] = AwaitResult(r, m, "signing", status)]
    /\ UNCHANGED <<closed, fee, cleared, context>>

-----------------------------------------------------------------------------
(* approve(): the handler holds the message object it found while it       *)
(* awaits the wallet and the node.                                         *)

\* Without wallets getWallet throws; access needs no signature.
Approve(a, m) ==
  /\ Quiet
  /\ approval[a].at = "free" /\ m \in Stored
  /\ \/ /\ locked
        /\ Finish(m, "failed")
        /\ approval' = [approval EXCEPT ![a] = [at |-> "over", of |-> m]]
        /\ UNCHANGED permissions
     \/ /\ ~locked /\ m[2] = "access"
        /\ permissions' = SetPermission(permissions, Origin(m[1]), "approved")
        /\ Finish(m, "signed")
        /\ approval' = [approval EXCEPT ![a] = [at |-> "over", of |-> m]]
     \/ /\ ~locked /\ m[2] = "signing"
        /\ approval' = [approval EXCEPT ![a] = [at |-> "signing", of |-> m]]
        /\ UNCHANGED <<message, request, permissions>>
  /\ UNCHANGED <<closed, fee, cleared, context>>

Over(a) == approval' = [approval EXCEPT ![a].at = "over"]

\* The wallet signed: the result is there, or the broadcast begins.
WalletSigned(a) ==
  LET m == approval[a].of IN
    /\ Quiet
    /\ approval[a].at = "signing"
    /\ \/ /\ m[1] \in Broadcasts
          /\ approval' = [approval EXCEPT ![a].at = "broadcasting"]
          /\ UNCHANGED <<message, request>>
       \/ /\ ~m[1] \in Broadcasts
          /\ Finish(m, "signed")
          /\ Over(a)
    /\ UNCHANGED <<closed, fee, permissions, cleared, context>>

\* 'Request is rejected on ledger' rejects the message that now has the id,
\* and throws if none has.
RejectedOnLedger(a) ==
  /\ Quiet
  /\ approval[a].at = "signing"
  /\ RejectAll({approval[a].of} \cap Stored)
  /\ Over(a)
  /\ UNCHANGED <<closed, fee, permissions, cleared, context>>

Broadcast(a) ==
  /\ Quiet
  /\ approval[a].at = "broadcasting"
  /\ Finish(approval[a].of, "published")
  /\ Over(a)
  /\ UNCHANGED <<closed, fee, permissions, cleared, context>>

\* Signing or broadcasting threw.
ApproveFails(a) ==
  /\ Quiet
  /\ approval[a].at \in {"signing", "broadcasting"}
  /\ Finish(approval[a].of, "failed")
  /\ Over(a)
  /\ UNCHANGED <<closed, fee, permissions, cleared, context>>

-----------------------------------------------------------------------------
(* The other methods of the user interface.                                *)

Reject(m, forever) ==
  LET status == IF forever THEN "rejected_forever" ELSE "rejected" IN
    /\ Quiet
    /\ m \in Stored
    /\ Finish(m, status)
    /\ UNCHANGED <<closed, approval, fee, permissions, cleared, context>>

UpdateFee(f, m) ==
  /\ Quiet
  /\ fee[f].at = "free" /\ m \in Stored /\ m[2] = "signing"
  /\ fee' = [fee EXCEPT ![f] = [at |-> "generating", of |-> m]]
  /\ UNCHANGED <<closed, request, message, approval, permissions, cleared, context>>

\* The regenerated message takes the place of whatever has the id now.
FeeUpdated(f) ==
  LET m == fee[f].of IN
    /\ Quiet
    /\ fee[f].at = "generating"
    /\ fee' = [fee EXCEPT ![f] = [at |-> "over", of |-> NoMessage]]
    /\ message' = IF m \in Stored THEN [message EXCEPT ![m] = "unapproved"]
                                   ELSE message
    /\ UNCHANGED <<closed, request, approval, permissions, cleared, context>>

FromOrigin(o) == {m \in Stored : Origin(m[1]) = o}

AllowOrigin(o) ==
  /\ Quiet
  /\ changes < MaxChanges /\ changes' = changes + 1
  /\ RejectAll(FromOrigin(o))
  /\ permissions' =
       SetPermission(DeletePermission(permissions, o, "rejected"), o, "approved")
  /\ UNCHANGED <<closed, approval, fee, cleared, originOf, locked,
                 restarts>>

\* disableOrigin, deleteOrigin and setAutoSign.
ChangeOrigin(o) ==
  /\ Quiet
  /\ changes < MaxChanges /\ changes' = changes + 1
  /\ permissions' \in
       {SetPermission(DeletePermission(permissions, o, "approved"), o, "rejected"),
        DeletePermissions(permissions, o)}
       \cup {SetAutoApprove(permissions, o, limited) : limited \in BOOLEAN}
  /\ UNCHANGED <<closed, request, message, approval, fee, originOf,
                 locked, cleared, restarts>>

ClearMessages ==
  /\ Quiet
  /\ message' = [m \in Ids |-> "absent"]
  /\ cleared' = cleared \cup {r \in Requests : request[r].waits \in Stored}
  /\ UNCHANGED <<originOf, closed, request, approval, fee, permissions,
                 locked, changes, restarts>>

-----------------------------------------------------------------------------
(* Events of the browser and of the vault.                                 *)

Opened == {PageOf[r] : r \in {q \in Requests : request[q].at # "new"}}

\* removeMessagesFromConnection, when the page's port ends.
Disconnect(c) ==
  LET mine == {m \in Stored : PageOf[m[1]] = c} IN
    /\ Quiet
    /\ c \in Opened \ closed
    /\ closed' = closed \cup {c}
    /\ message' = [m \in Ids |-> IF m \in mine THEN "absent" ELSE message[m]]
    /\ request' = Told(mine, "rejected")
    /\ UNCHANGED <<approval, fee, permissions, cleared, context>>

Pending == {m \in Stored : message[m] = "unapproved"}

\* #rejectAllByTime, on an alarm: rejects the pending messages that are older
\* than message_expiration_ms.
Expire(old) ==
  /\ Quiet
  /\ old # {} /\ old \subseteq Pending
  /\ RejectAll(old)
  /\ UNCHANGED <<closed, approval, fee, permissions, cleared, context>>

\* The subscriber of the vault store rejects every message of the list, each
\* time the vault is locked: by the user, or every five seconds by the timer.
Lock ==
  /\ Quiet
  /\ locked' = TRUE
  /\ RejectAll(Stored)
  /\ UNCHANGED <<closed, approval, fee, permissions, originOf, cleared,
                 changes, restarts>>

Unlock ==
  /\ Quiet
  /\ locked /\ locked' = FALSE
  /\ UNCHANGED <<closed, request, message, approval, fee, permissions,
                 originOf, cleared, changes, restarts>>

\* The browser stops the service worker: handlers and ports are gone, and
\* setupBackgroundService clears the restored messages.
Restart ==
  /\ restarts < MaxRestarts
  /\ restarts' = restarts + 1
  /\ closed' = closed \cup Opened
  /\ request' = [r \in Requests |->
       IF request[r].at \in {"new", "answered"} THEN request[r]
       ELSE [request[r] EXCEPT !.at = "lost", !.waits = NoMessage, !.told = "absent"]]
  /\ message' = [m \in Ids |-> "absent"]
  /\ approval' = [a \in Approvals |->
       IF approval[a].at = "free" THEN approval[a]
       ELSE [approval[a] EXCEPT !.at = "over"]]
  /\ fee' = [f \in Fees |->
       IF fee[f].at = "free" THEN fee[f] ELSE [at |-> "over", of |-> NoMessage]]
  /\ cleared' = {}
  /\ UNCHANGED <<originOf, permissions, locked, changes>>

Next ==
  \/ \E r \in Requests :
       \/ CallPage(r) \/ ResumeAccess(r) \/ ResumeSigning(r)
       \/ GenerationFails(r) \/ Generated(r)
       \/ \E a \in Approvals : GeneratedAutoSigned(r, a)
  \/ \E a \in Approvals :
       \/ \E m \in Ids : Approve(a, m)
       \/ WalletSigned(a) \/ RejectedOnLedger(a) \/ Broadcast(a) \/ ApproveFails(a)
  \/ \E m \in Ids, forever \in BOOLEAN : Reject(m, forever)
  \/ \E f \in Fees : FeeUpdated(f) \/ \E m \in Ids : UpdateFee(f, m)
  \/ \E o \in Origins : AllowOrigin(o) \/ ChangeOrigin(o)
  \/ \E c \in Connections : Disconnect(c)
  \/ \E old \in SUBSET Ids : Expire(old)
  \/ ClearMessages \/ Lock \/ Unlock \/ Restart

\* Resolved promises resume, and the alarm that #rejectAllByTime renews comes
\* again until every pending message is older than the expiration time.
Fairness ==
  /\ \A r \in Requests : WF_vars(ResumeAccess(r)) /\ WF_vars(ResumeSigning(r))
  /\ WF_vars(Expire(Pending))

Spec == Init /\ [][Next]_vars /\ Fairness

-----------------------------------------------------------------------------
(* A page request that waits is answered by whatever finishes its message: *)
(* the message is still listed and undecided, unless clearMessages removed *)
(* it.  No approval, rejection, expiry, lock, disconnect or fee update     *)
(* finishes a message without waking its requesters (getMessageResult      *)
(* awaits an event that is sent once).                                     *)
NoLostWaiter ==
  Quiet => \A r \in Requests :
             request[r].at \in {"access", "signing"}
               => request[r].waits \in Pending \/ r \in cleared

(* The access message that the permission store keeps for an origin is     *)
(* never one the user has already decided: a new request of the origin     *)
(* would be answered with the old decision.  Only an approval that failed  *)
(* leaves it, failed or as a later rejection made it.                      *)
PendingIsUndecided ==
  Quiet => \A o \in Origins :
    LET m == permissions.inPending[o] IN
      m \in Stored \ Pending
        => /\ message[m] \in {"failed", "rejected", "rejected_forever"}
           /\ \E a \in Approvals : approval[a].of = m

(* Every request that waits is answered in the end, by the expiry alarm if *)
(* nobody decides, unless its message was cleared or the process stopped.  *)
EventuallyAnswered ==
  \A r \in Requests :
    request[r].at \in {"access", "signing"}
      ~> request[r].at \notin {"access", "signing"} \/ r \in cleared

(* The page API keeps what Reply promises: one outcome per request, and a  *)
(* result only after the approval of its own signing message began, by the *)
(* user or within his limit for the website.                               *)
ReplyTo(r) ==
  CASE request[r].at = "lost" -> "forgotten"
    [] request[r].at = "answered" -> request[r].answer
    [] OTHER -> "unsettled"

Approved == {r \in Requests : \E a \in Approvals : approval[a].of = <<r, "signing">>}

Promise == INSTANCE Reply WITH
  Calls <- Requests,
  call <- [r \in Requests |-> ReplyTo(r)],
  granted <- Approved

KeepsPromise == Promise!Spec

(* README.md: a website the user allowed is trusted and one he refused is  *)
(* blocked until he marks it otherwise in the interface.  So a step about  *)
(* one origin leaves the permissions of all others alone.                  *)
TrustIsKept ==
  [][\A o1, o2 \in Origins :
       (/\ permissions'.origins[o1] # permissions.origins[o1]
        /\ permissions'.origins[o2] # permissions.origins[o2])
         => o1 = o2]_vars
=============================================================================
