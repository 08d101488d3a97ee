------------------------------- MODULE Roles -------------------------------
(***************************************************************************)
(* Roles and permissions: RoleService and PermissionService.               *)
(*                                                                         *)
(* A permission is a row for one route (path and method).  The route is    *)
(* looked up before a permission is inserted and not unique.  Which roles  *)
(* have it is a junction table, whose rows go with their role but keep     *)
(* their permission from being deleted.  Nothing here is a transaction: a  *)
(* handler is a row of statements, and it may stop between any two.        *)
(*                                                                         *)
(* Names of roles are unique in the database, and a second one is an       *)
(* ordinary failure.  Left out: descriptions, the users and customers that *)
(* have a role, and RoleService.update, which does nothing.                *)
(***************************************************************************)
EXTENDS Parties

CONSTANTS
    Routes,  \* a path and a method
    MaxRoles \* bounds the roles that are ever inserted

ASSUME RolesAssumption == MaxRoles \in 0 .. MaxRows /\ IsFiniteSet(Routes)

GJob == [phase: {"idle", "loaded", "renamed", "listed", "cleared", "unlinked"},
         op: {"none", "insert", "edit", "remove", "role", "update", "drop", "delete"},
         routes: SUBSET Routes, at: 0 .. MaxRows, list: SUBSET Rows, old: SUBSET Rows,
         about: SUBSET Rows, alone: BOOLEAN]

IdleGJob == [phase |-> "idle", op |-> "none", routes |-> {}, at |-> 0, list |-> {},
             old |-> {}, about |-> {}, alone |-> TRUE]

VARIABLES
    permission, \* the permissions that were inserted
    standing,   \* the numbers of the permissions that are still there
    made,       \* how many roles were inserted
    roles,      \* the numbers of the roles that are still there
    grants,     \* the junction table role_permissions
    gjob,       \* the requests in flight
    meant,      \* ghost: the permissions that requests, in turn, gave each role
    upset       \* ghost: roles whose requests overlapped, stopped half way, or
                \* asked for no permission at all

roleVars == <<permission, standing, made, roles, grants, gjob, meant, upset>>

GDatabase == <<permission, standing, made, roles, grants, meant, upset>>

---------------------------------------------------------------------------

Granted(r) == {p \in Rows : <<r, p>> \in grants}

GBusy == {k \in Clerks : gjob[k].phase # "idle"}

\* A request starts; no request about the same roles is alone from now on.
GStart(k, j) ==
    LET rivals == {i \in GBusy : gjob[i].about \cap j.about # {}} IN
    /\ k \notin GBusy
    /\ gjob' = [i \in Clerks |->
                   IF i = k THEN [j EXCEPT !.phase = "loaded", !.alone = rivals = {}]
                   ELSE IF i \in rivals THEN [gjob[i] EXCEPT !.alone = FALSE]
                   ELSE gjob[i]]
    /\ UNCHANGED GDatabase

GDone(k) == gjob' = [gjob EXCEPT ![k] = IdleGJob]

\* The roles upset after request j has run to its end.
Upset(j) == IF j.alone THEN upset ELSE upset \cup j.about

---------------------------------------------------------------------------
(* Permissions *)

RouteFree(p) == \A i \in standing : permission[i] # p

CreatePermission(k, p) ==
    /\ Uses("createPermission")
    /\ RouteFree(p)
    /\ GStart(k, [IdleGJob EXCEPT !.op = "insert", !.routes = {p}])

\* The routes that have a permission already are passed over.
CreateManyPermissions(k, set) ==
    LET new == {p \in set : RouteFree(p)} IN
    /\ Uses("createManyPermissions")
    /\ new # {}
    /\ GStart(k, [IdleGJob EXCEPT !.op = "insert", !.routes = new])

PermissionsInsert(k) ==
    LET j == gjob[k]
        n == Cardinality(j.routes)
    IN
    /\ j.op = "insert"
    /\ Len(permission) + n <= inUse.rows
    /\ \E new \in [1 .. n -> j.routes] :
          /\ {new[i] : i \in 1 .. n} = j.routes
          /\ permission' = permission \o new
    /\ standing' = standing \cup (Len(permission) + 1 .. Len(permission) + n)
    /\ GDone(k)
    /\ UNCHANGED <<made, roles, grants, meant, upset>>

\* Of several permissions for the route any may be the one that is found.
UpdatePermissionLoad(k, i, p) ==
    /\ Uses("updatePermission")
    /\ i \in standing
    /\ RouteFree(p) \/ permission[i] = p
    /\ GStart(k, [IdleGJob EXCEPT !.op = "edit", !.at = i, !.routes = {p}])

\* A permission removed meanwhile is inserted again.
UpdatePermissionSave(k) ==
    LET j == gjob[k] IN
    /\ j.op = "edit"
    /\ \E p \in j.routes : permission' = [permission EXCEPT ![j.at] = p]
    /\ standing' = standing \cup {j.at}
    /\ GDone(k)
    /\ UNCHANGED <<made, roles, grants, meant, upset>>

\* A permission without roles is deleted at once.
RemovePermissionLoad(k, i) ==
    /\ Uses("removePermission")
    /\ i \in standing
    /\ GStart(k, [IdleGJob EXCEPT !.op = "remove", !.at = i,
                     !.routes = {permission[i]}, !.about = roles,
                     !.old = {r \in roles : i \in Granted(r)}])

\* The permission is saved without roles, those it got meanwhile included.
RemovePermissionUnlink(k) ==
    LET j == gjob[k] IN
    /\ j.op = "remove" /\ j.phase = "loaded" /\ j.old # {}
    /\ grants' = {g \in grants : g[2] # j.at}
    /\ standing' = standing \cup {j.at}
    /\ \E p \in j.routes : permission' = [permission EXCEPT ![j.at] = p]
    /\ gjob' = [gjob EXCEPT ![k].phase = "unlinked"]
    /\ UNCHANGED <<made, roles, meant, upset>>

\* The foreign key refuses it while a role has the permission.
RemovePermissionDelete(k) ==
    LET j == gjob[k] IN
    /\ j.op = "remove"
    /\ j.phase = "unlinked" \/ j.old = {}
    /\ \A r \in roles : j.at \notin Granted(r)
    /\ standing' = standing \ {j.at}
    /\ meant' = [r \in Rows |-> meant[r] \ {j.at}]
    /\ upset' = Upset(j)
    /\ GDone(k)
    /\ UNCHANGED <<permission, made, roles, grants>>

---------------------------------------------------------------------------
(* Roles *)

\* Every id of the list must be found.
CreateRoleLoad(k, list) ==
    /\ Uses("createRole")
    /\ list # {} /\ list \subseteq standing
    /\ GStart(k, [IdleGJob EXCEPT !.op = "role", !.list = list])

CreateRoleSave(k) ==
    LET j == gjob[k] IN
    /\ j.op = "role"
    /\ made < MaxRoles
    /\ j.list \subseteq standing
    /\ made' = made + 1
    /\ roles' = roles \cup {made + 1}
    /\ grants' = grants \cup ({made + 1} \X j.list)
    /\ meant' = [meant EXCEPT ![made + 1] = j.list]
    /\ GDone(k)
    /\ UNCHANGED <<permission, standing, upset>>

\* updatePermission_of_role: first the role is read, with its permissions.
UpdateRoleLoad(k, r, list) ==
    /\ Uses("updatePermission_of_role")
    /\ r \in roles
    /\ list \subseteq standing
    /\ GStart(k, [IdleGJob EXCEPT !.op = "update", !.at = r, !.list = list,
                     !.old = Granted(r), !.about = {r}])

\* To save it stores that list of permissions too; a role deleted meanwhile is
\* inserted again.
UpdateRoleSave(k) ==
    LET j == gjob[k] IN
    /\ j.op = "update" /\ j.phase = "loaded"
    /\ j.old \subseteq standing
    /\ roles' = roles \cup {j.at}
    /\ grants' = {g \in grants : g[1] # j.at} \cup ({j.at} \X j.old)
    /\ gjob' = [gjob EXCEPT ![k].phase = "renamed"]
    /\ UNCHANGED <<permission, standing, made, meant, upset>>

\* findBy with an empty list of conditions finds every row.
Found(list) == IF list = {} THEN standing ELSE list \cap standing

UpdateRoleFind(k) ==
    /\ gjob[k].op = "update" /\ gjob[k].phase = "renamed"
    /\ gjob' = [gjob EXCEPT ![k].phase = "listed", ![k].list = Found(@),
                            ![k].alone = @ /\ gjob[k].list # {}]
    /\ UNCHANGED GDatabase

\* Mutant: the old permissions stay.
StrippedMutant(r, set) == grants

\* The junction rows without those of role r and the permissions in set.
Stripped(r, set) == grants \ ({r} \X set)

UpdateRoleClear(k) ==
    LET j == gjob[k] IN
    /\ j.op = "update" /\ j.phase = "listed"
    /\ grants' = Stripped(j.at, j.old)
    /\ gjob' = [gjob EXCEPT ![k].phase = "cleared"]
    /\ UNCHANGED <<permission, standing, made, roles, meant, upset>>

\* One INSERT, which fails when one of the rows is there or one of the
\* permissions is not.
UpdateRoleAdd(k) ==
    LET j == gjob[k] IN
    /\ j.op = "update" /\ j.phase = "cleared"
    /\ j.at \in roles \/ j.list = {}
    /\ j.list \subseteq standing \ Granted(j.at)
    /\ grants' = grants \cup ({j.at} \X j.list)
    /\ meant' = [meant EXCEPT ![j.at] = j.list]
    /\ upset' = IF j.alone THEN upset \ {j.at} ELSE upset \cup {j.at}
    /\ GDone(k)
    /\ UNCHANGED <<permission, standing, made, roles>>

\* deleteRole_permission_of_role, one permission after the other.
DropLoad(k, r, list) ==
    /\ Uses("deleteRole_permission_of_role")
    /\ r \in roles
    /\ list # {} /\ list \subseteq Granted(r)
    /\ GStart(k, [IdleGJob EXCEPT !.op = "drop", !.at = r, !.list = list, !.old = list,
                     !.about = {r}])

DropOne(k, p) ==
    LET j == gjob[k] IN
    /\ j.op = "drop"
    /\ p \in j.old
    /\ grants' = Stripped(j.at, {p})
    /\ IF j.old = {p}
         THEN /\ meant' = [meant EXCEPT ![j.at] = @ \ j.list]
              /\ upset' = Upset(j)
              /\ GDone(k)
         ELSE /\ gjob' = [gjob EXCEPT ![k].old = @ \ {p}, ![k].phase = "cleared"]
              /\ UNCHANGED <<meant, upset>>
    /\ UNCHANGED <<permission, standing, made, roles>>

DeleteRoleLoad(k, r) ==
    /\ Uses("deleteRole")
    /\ r \in roles
    /\ GStart(k, [IdleGJob EXCEPT !.op = "delete", !.at = r, !.old = Granted(r),
                     !.about = {r}])

\* First the permissions are taken from the role (and the users).
DeleteRoleClear(k) ==
    LET j == gjob[k] IN
    /\ j.op = "delete" /\ j.phase = "loaded"
    /\ grants' = Stripped(j.at, j.old)
    /\ gjob' = [gjob EXCEPT ![k].phase = "cleared"]
    /\ UNCHANGED <<permission, standing, made, roles, meant, upset>>

\* Customers with the role refuse this (GAbort), and it is left without anything.
DeleteRole(k) ==
    LET j == gjob[k] IN
    /\ j.op = "delete" /\ j.phase = "cleared"
    /\ roles' = roles \ {j.at}
    /\ grants' = Stripped(j.at, Rows)
    /\ meant' = [meant EXCEPT ![j.at] = {}]
    /\ upset' = Upset(j)
    /\ GDone(k)
    /\ UNCHANGED <<permission, standing, made>>

\* A check refuses, a statement fails or the server stops.
GAbort(k) ==
    LET j == gjob[k]
        left == IF j.op = "remove" THEN {r \in Rows : j.at \in meant[r]} ELSE {}
    IN
    /\ k \in GBusy
    /\ upset' = IF j.phase = "loaded" THEN upset ELSE upset \cup j.about \cup left
    /\ GDone(k)
    /\ UNCHANGED <<permission, standing, made, roles, grants, meant>>

---------------------------------------------------------------------------

GInit ==
    /\ permission = <<>> /\ standing = {}
    /\ made = 0 /\ roles = {} /\ grants = {}
    /\ gjob = [k \in Clerks |-> IdleGJob]
    /\ meant = [r \in Rows |-> {}] /\ upset = {}

PermissionController(k) ==
    \/ \E p \in Routes :
          CreatePermission(k, p) \/ \E i \in standing : UpdatePermissionLoad(k, i, p)
    \/ \E set \in SUBSET Routes : CreateManyPermissions(k, set)
    \/ \E i \in standing : RemovePermissionLoad(k, i)
    \/ PermissionsInsert(k) \/ UpdatePermissionSave(k)
    \/ RemovePermissionUnlink(k) \/ RemovePermissionDelete(k)

RoleController(k) ==
    \/ \E list \in SUBSET standing :
          CreateRoleLoad(k, list) \/ \E r \in roles : UpdateRoleLoad(k, r, list)
                                                      \/ DropLoad(k, r, list)
    \/ \E r \in roles : DeleteRoleLoad(k, r)
    \/ \E p \in Rows : DropOne(k, p)
    \/ CreateRoleSave(k) \/ UpdateRoleSave(k) \/ UpdateRoleFind(k)
    \/ UpdateRoleClear(k) \/ UpdateRoleAdd(k) \/ DeleteRoleClear(k) \/ DeleteRole(k)

GNext == \E k \in Clerks : PermissionController(k) \/ RoleController(k) \/ GAbort(k)

---------------------------------------------------------------------------
(* Properties *)

\* A role has the permissions that its requests, in turn, asked for, except for
\* requests in flight: a permission that is being removed, a role that a
\* request is about; and except for roles that requests left upset.  Among
\* these are all that an update gave an empty list, which grants everything
\* (create, updatePermission_of_role, deleteRole_permission_of_role, remove).
RolesAsAsked ==
    LET inFlight == UNION {gjob[k].about : k \in {i \in GBusy : gjob[i].op # "remove"}}
        leaving == {gjob[k].at : k \in {i \in GBusy : gjob[i].op = "remove"}}
    IN  \A r \in roles \ (upset \cup inFlight) : Granted(r) \ leaving = meant[r] \ leaving

---------------------------------------------------------------------------
(* The inductive invariant behind the property *)

RolesTypeOK ==
    /\ permission \in Seq(Routes) /\ Len(permission) <= MaxRows
    /\ standing \subseteq DOMAIN permission
    /\ made \in 0 .. MaxRoles /\ roles \subseteq 1 .. made
    /\ grants \subseteq roles \X standing
    /\ gjob \in [Clerks -> GJob]
    /\ meant \in [Rows -> SUBSET Rows] /\ upset \subseteq Rows

\* What a request is about, and how far it can be.
GJobOK(j) ==
    /\ j.op \in {"edit", "remove"} => j.at \in DOMAIN permission
    /\ j.op \in {"update", "drop", "delete"} => j.at \in 1 .. made /\ j.about = {j.at}
    /\ j.op \in {"none", "insert", "edit", "role"} => j.about = {}
    /\ j.op = "drop" => j.old \subseteq j.list
    /\ j.phase = "idle" => j.op = "none"
    /\ j.op = "remove" => j.phase \in {"loaded", "unlinked"}
    /\ j.phase = "unlinked" => j.op = "remove"

\* No other request is about a role that a request alone is about.
AloneApart ==
    \A k, i \in Clerks :
        k # i /\ gjob[k].alone => gjob[k].about \cap gjob[i].about = {}

\* An update that is alone will leave nothing but what it was asked for.
UpdatesClear ==
    \A k \in Clerks :
        gjob[k].op = "update" /\ gjob[k].alone =>
            Granted(gjob[k].at) \subseteq IF gjob[k].phase = "cleared" THEN {} ELSE gjob[k].old

\* The permissions that removals took from the roles so far.
Unlinked == {gjob[k].at : k \in {i \in Clerks : gjob[i].phase = "unlinked"}}

\* Role r has what it was meant to have but for set, and nothing else.
HasMeant(r, set) ==
    /\ Granted(r) \subseteq meant[r] \ set
    /\ (meant[r] \ set) \ Unlinked \subseteq Granted(r)

\* What a drop that is alone has dropped is gone, and the rest is there.
DropsAsAsked ==
    \A k \in Clerks :
        gjob[k].op = "drop" /\ gjob[k].alone /\ gjob[k].at \in roles \ upset =>
            HasMeant(gjob[k].at, gjob[k].list \ gjob[k].old)

\* The roles that requests in flight have changed already.
Begun == UNION {gjob[k].about :
                   k \in {i \in Clerks : gjob[i].op # "remove" /\ gjob[i].phase # "loaded"}}

RolesInv ==
    /\ inUse \in Mixes
    /\ RolesTypeOK
    /\ \A k \in Clerks : GJobOK(gjob[k])
    /\ AloneApart
    /\ UpdatesClear
    /\ DropsAsAsked
    /\ \A r \in roles \ (upset \cup Begun) : HasMeant(r, {})

============================================================================
