--------------------------- MODULE PermissionStore ---------------------------
(***************************************************************************)
(* PermissionsController of cubensis-connect (permissions.ts) as operators *)
(* on the value of its zustand store: the permissions of every origin and  *)
(* the access message every origin is waiting for.                         *)
(*                                                                         *)
(* A permission list is the set of its types: the order is never read, and *)
(* the amounts and times of allowAutoSign and useNotifications are left to *)
(* the caller's choice.  An origin without an entry has the empty set.     *)
(***************************************************************************)
CONSTANTS
  Origins,
  Whitelist,  \* origins the remote configuration trusts
  NoMessage

ASSUME StoreAssumption == Whitelist \subseteq Origins

Types == {"all", "approved", "rejected", "allowAutoSign", "useNotifications"}

NoPermissions == [o \in Origins |-> {}]
NothingPending == [o \in Origins |-> NoMessage]
EmptyStore == [origins |-> NoPermissions, inPending |-> NothingPending]

\* setState merges only the top level of the store: the new one-entry map
\* replaces the whole of inPending.
SetMessageIdAccess(store, o, m) ==
  [store EXCEPT !.inPending = [NothingPending EXCEPT ![o] = m]]

SetOnlyPermissions(store, o, permissions) ==   \* mutant: inPending is kept
  [store EXCEPT !.origins = [NoPermissions EXCEPT ![o] = permissions]]

\* The same holds for origins: the entries of all other origins are dropped.
SetPermissions(store, o, permissions) ==
  [SetMessageIdAccess(store, o, NoMessage)
     EXCEPT !.origins = [NoPermissions EXCEPT ![o] = permissions]]

GetPermissions(store, o) ==
  store.origins[o] \cup (IF o \in Whitelist THEN {"all"} ELSE {})

\* null, false and true of hasPermission.
Unknown(store, o) == GetPermissions(store, o) = {}

Has(store, o, type) ==
  LET held == GetPermissions(store, o) IN
    IF "rejected" \in held THEN type = "rejected"
                           ELSE held \cap {"all", type} # {}

SetPermission(store, o, type) ==
  IF Has(store, o, type) THEN store
  ELSE SetPermissions(store, o, GetPermissions(store, o) \cup {type})

\* updatePermission, for the permissions that carry data.
UpdatePermission(store, o, type) ==
  SetPermissions(store, o, GetPermissions(store, o) \cup {type})

DeletePermission(store, o, type) ==
  SetPermissions(store, o, GetPermissions(store, o) \ {type})

DeletePermissions(store, o) ==
  IF o \in Whitelist THEN store ELSE [store EXCEPT !.origins[o] = {}]

\* setAutoApprove: a limit switches automatic signing on, none switches it off.
SetAutoApprove(store, o, limited) ==
  IF limited THEN UpdatePermission(store, o, "allowAutoSign")
             ELSE DeletePermission(store, o, "allowAutoSign")
=============================================================================
