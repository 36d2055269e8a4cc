--------------------------- MODULE AccessControl ---------------------------
(***************************************************************************)
(* The AccessControl trait (contracts/contracts/lib/access/                *)
(* access_control.tolk): roles, each with a set of members, an explicit    *)
(* member count and the role that administers it.                          *)
(*                                                                         *)
(* A message is one transaction.  A failed requirement throws and rolls    *)
(* the transaction back, so it is a guard here and never a step.  A role   *)
(* with no entry in the `roles` dictionary reads exactly like the default  *)
(* entry (no member, count 0, DEFAULT_ADMIN_ROLE), so `roles` is total.    *)
(***************************************************************************)
EXTENDS Integers, FiniteSets

CONSTANTS
    Account,        \* addresses; naturals, because dictionaries order their keys
    Role,           \* role identifiers
    DEFAULT_ADMIN_ROLE,
    InitialRoles    \* the role data a deployment puts in the initial storage

VARIABLE roles      \* AccessControl_Data.roles

RoleData == [adminRole : Role, membersLen : Nat, hasRole : SUBSET Account]

ASSUME AccountAssumption == Account \subseteq Nat

ASSUME RoleAssumption == DEFAULT_ADMIN_ROLE \in Role

ASSUME InitialRolesAssumption ==
    /\ InitialRoles \in [Role -> RoleData]
    /\ \A role \in Role :
          /\ IsFiniteSet(InitialRoles[role].hasRole)
          /\ InitialRoles[role].membersLen = Cardinality(InitialRoles[role].hasRole)

AddressNone == -1   \* createAddressNone()
NullSlice == -2     \* what a dictionary primitive returns when it finds nothing

DefaultRoleData == [adminRole |-> DEFAULT_ADMIN_ROLE, membersLen |-> 0, hasRole |-> {}]

-----------------------------------------------------------------------------
(* Getters. *)

hasRole(role, account) == account \in roles[role].hasRole

getRoleAdmin(role) == roles[role].adminRole

getRoleMemberCount(role) == roles[role].membersLen

\* The entry a dictionary in key order yields after `index` deletions of its first entry.
EntryAt(S, index) ==
    LET atRank == {a \in S : Cardinality({b \in S : b < a}) = index}
    IN  IF atRank = {} THEN NullSlice ELSE CHOOSE a \in atRank : TRUE

\* The first entry of a dictionary whose key is greater than `pivot`.
EntryAfter(S, pivot) ==
    LET above == {a \in S : a > pivot}
    IN  IF above = {} THEN NullSlice ELSE CHOOSE a \in above : \A b \in above : a <= b

getRoleMember(role, index) ==
    IF index >= getRoleMemberCount(role) THEN AddressNone
    ELSE EntryAt(roles[role].hasRole, index)

getRoleMemberFirst(role) ==
    IF getRoleMemberCount(role) = 0 THEN AddressNone
    ELSE EntryAt(roles[role].hasRole, 0)

getRoleMemberNext(role, pivot) ==
    LET next == EntryAfter(roles[role].hasRole, pivot)
    IN  IF next = NullSlice THEN AddressNone ELSE next

-----------------------------------------------------------------------------
(* Internal functions without access restriction: new data of one role. *)

Members(d, members, len) == [adminRole |-> d.adminRole, membersLen |-> len, hasRole |-> members]

InternalGrantRole(d, account) ==
    IF account \in d.hasRole
    THEN d
    ELSE Members(d, d.hasRole \cup {account}, d.membersLen + 1)

MutRevokeKeepsCount(d, account) == Members(d, d.hasRole \ {account}, d.membersLen)

InternalRevokeRole(d, account) ==
    IF account \notin d.hasRole
    THEN d
    ELSE Members(d, d.hasRole \ {account}, d.membersLen - 1)

-----------------------------------------------------------------------------
(* Message handlers. *)

grantRole(sender, role, account) ==
    /\ hasRole(getRoleAdmin(role), sender)
    /\ roles' = [roles EXCEPT ![role] = InternalGrantRole(@, account)]

revokeRole(sender, role, account) ==
    /\ hasRole(getRoleAdmin(role), sender)
    /\ roles' = [roles EXCEPT ![role] = InternalRevokeRole(@, account)]

\* The code delegates to revokeRole, admin requirement included.
renounceRole(sender, role, callerConfirmation) ==
    /\ callerConfirmation = sender
    /\ revokeRole(sender, role, callerConfirmation)

-----------------------------------------------------------------------------

AccessControlInit == roles = InitialRoles

AccessControlNext ==
    \E sender \in Account, role \in Role, account \in Account :
        \/ grantRole(sender, role, account)
        \/ revokeRole(sender, role, account)
        \/ renounceRole(sender, role, account)

AccessControlSpec == AccessControlInit /\ [][AccessControlNext]_roles

-----------------------------------------------------------------------------
(* Properties. *)

\* Type invariant of the trait's storage (struct AccessControl_RoleData).
AccessControlTypeOK == roles \in [Role -> RoleData]

\* The explicit counter `membersLen` and the `hasRole` dictionary, which
\* _grantRole and _revokeRole update separately, always agree: the counter is
\* the number of members, however often a grant or a revocation is repeated.
MembersLenIsCardinality ==
    \A role \in Role :
        /\ IsFiniteSet(roles[role].hasRole)
        /\ roles[role].membersLen = Cardinality(roles[role].hasRole)

\* Both ways of enumerating a role (getRoleMember by index up to
\* getRoleMemberCount, and getRoleMemberFirst followed by getRoleMemberNext)
\* visit every member exactly once and in the same order, and neither runs into
\* the null slice of an exhausted dictionary.
EnumerationsAgree ==
    \A role \in Role :
        LET n == getRoleMemberCount(role)
            at(i) == getRoleMember(role, i)
        IN  /\ {at(i) : i \in 0 .. n - 1} = roles[role].hasRole
            /\ at(n) = AddressNone
            /\ getRoleMemberFirst(role) = at(0)
            /\ \A i \in 0 .. n - 1 : getRoleMemberNext(role, at(i)) = at(i + 1)

=============================================================================
