------------------------------- MODULE Spaces -------------------------------
(***************************************************************************)
(* One Space, its owner and its members.                                   *)
(*                                                                         *)
(* The owner is recorded twice: in spaces.owner_user_id and as the role of *)
(* the owner's row in space_members.  A request is authorised by its       *)
(* caller's role, then reads the row of the member it is about and writes  *)
(* it with a separate statement; only a transfer runs in a transaction.    *)
(* Several requests are in flight at once.  A start of the server runs     *)
(* migration 0024 over both records and serves only if they agree.         *)
(***************************************************************************)
EXTENDS Naturals, FiniteSets

CONSTANTS Users,     \* the accounts
          Requests   \* what can be in flight at once

ASSUME SpacesAssumption == IsFiniteSet(Users) /\ Users # {} /\ Requests # {}

VARIABLES
  owner,        \* spaces.owner_user_id
  role,         \* the role in a user's space_members row, "none" without row
  request,      \* what each request is doing
  open          \* the server serves: migration 0024 found the records valid

spaceVars == <<owner, role, request, open>>

Roles  == {"viewer", "editor", "owner"}
Kinds  == {"add", "remove", "transfer"}
NoSpaceRequest == [kind |-> "idle"]
AskedTransfer(kind, by, about, to) ==
  [kind |-> kind, by |-> by, about |-> about, to |-> to, found |-> "unread"]

SpacesTypeOK ==
  /\ owner \in Users
  /\ role \in [Users -> Roles \cup {"none"}]
  /\ request \in [Requests -> {NoSpaceRequest} \cup
       [kind : Kinds, by : Users, about : Users,
        to : Roles, found : Roles \cup {"none", "unread"}]]
  /\ open \in BOOLEAN

(* CreateSpace writes the Space and the owner's row in one transaction.    *)
SpacesInit ==
  /\ owner \in Users
  /\ role = [u \in Users |-> IF u = owner THEN "owner" ELSE "none"]
  /\ request = [r \in Requests |-> NoSpaceRequest]
  /\ open = TRUE

-----------------------------------------------------------------------------
(* MemberRole: the row decides, owner_user_id only when there is no row.   *)
MemberRole(u) ==
  CASE role[u] # "none" -> role[u]
    [] role[u] = "none" /\ u = owner -> "owner"
    [] OTHER -> "none"

Ended(r) == request' = [request EXCEPT ![r] = NoSpaceRequest]

(* The handlers and their middleware ask for the owner's role first.       *)
StartRequest(r, by, about, kind, to) ==
  /\ open /\ request[r] = NoSpaceRequest
  /\ MemberRole(by) = "owner"
  /\ kind = "transfer" => about # by
  /\ request' = [request EXCEPT ![r] = AskedTransfer(kind, by, about, to)]
  /\ UNCHANGED <<owner, role, open>>

(* AddMember and RemoveMember first look for the row.                      *)
RefusesRow(kind, found) == found = "owner" \/ (kind = "remove" /\ found = "none")

ReadMember(r) ==
  /\ request[r].kind \in {"add", "remove"} /\ request[r].found = "unread"
  /\ LET found == role[request[r].about] IN
       IF RefusesRow(request[r].kind, found)
       THEN Ended(r)
       ELSE request' = [request EXCEPT ![r].found = found]
  /\ UNCHANGED <<owner, role, open>>

ReadDone(r, kind) == request[r].kind = kind /\ request[r].found # "unread"

(* The insert fails when a row has come in between, the update changes     *)
(* nothing when it has gone.                                               *)
MemberWritten(r) ==
  LET u == request[r].about IN
    IF (request[r].found = "none") = (role[u] = "none")
    THEN [role EXCEPT ![u] = request[r].to] ELSE role

AddMember(r) ==
  /\ ReadDone(r, "add")
  /\ role' = MemberWritten(r)
  /\ Ended(r)
  /\ UNCHANGED <<owner, open>>

RemoveMember(r) ==
  /\ ReadDone(r, "remove")
  /\ role' = [role EXCEPT ![request[r].about] = "none"]
  /\ Ended(r)
  /\ UNCHANGED <<owner, open>>

(* TransferOwner looks at the Space and the receiver's row again.          *)
MayTransfer_FromAnyone(from, to) == role[to] # "none"
MayTransfer(from, to) == owner = from /\ role[to] # "none"

OwnerMoved_BothOwn(from, to) == [role EXCEPT ![to] = "owner"]
OwnerMoved(from, to) == [role EXCEPT ![from] = "editor", ![to] = "owner"]

TransferOwner(r) ==
  /\ request[r].kind = "transfer"
  /\ LET from == request[r].by
         to   == request[r].about IN
       IF MayTransfer(from, to)
       THEN /\ owner' = to
            /\ role' = OwnerMoved(from, to)
       ELSE UNCHANGED <<owner, role>>
  /\ Ended(r)
  /\ UNCHANGED open

(* Migration 0024: a missing owner row is inserted, one that is there is   *)
(* ignored, and the validation asks for the owner's role.                  *)
OwnerRowRepaired == IF role[owner] = "none" THEN [role EXCEPT ![owner] = "owner"] ELSE role

RestartServer ==
  /\ role' = OwnerRowRepaired
  /\ open' = (role'[owner] = "owner")
  /\ request' = [r \in Requests |-> NoSpaceRequest]
  /\ UNCHANGED owner

SpacesNext ==
  \/ \E r \in Requests, by, about \in Users :
       \/ \E to \in {"viewer", "editor"} : StartRequest(r, by, about, "add", to)
       \/ \E kind \in {"remove", "transfer"} : StartRequest(r, by, about, kind, "viewer")
  \/ \E r \in Requests :
       \/ ReadMember(r) \/ AddMember(r) \/ RemoveMember(r) \/ TransferOwner(r)
  \/ RestartServer

SpacesSpec == SpacesInit /\ [][SpacesNext]_spaceVars

-----------------------------------------------------------------------------
(* Nobody but the owner on record holds the role of an owner, whatever     *)
(* transfers and member changes overlap.                                   *)
OneOwner == \A u \in Users : role[u] = "owner" => u = owner

(* Ownership leaves a user only by that user's own transfer: one that was  *)
(* overtaken by another transfer changes nothing.                          *)
GivesOwnership ==
  owner' # owner => \E r \in Requests : request[r].kind = "transfer" /\ request[r].by = owner

OwnershipIsGiven == [][GivesOwnership]_spaceVars
=============================================================================
