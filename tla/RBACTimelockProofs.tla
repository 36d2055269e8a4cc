------------------------- MODULE RBACTimelockProofs -------------------------
(***************************************************************************)
(* Proofs about the timelock and the AccessControl trait it uses, for      *)
(* every set of accounts, roles, operations and selectors, every initial   *)
(* role table, every graph of predecessors and every bound.                *)
(***************************************************************************)
EXTENDS RBACTimelock, FiniteSetTheorems, TLAPS

-----------------------------------------------------------------------------
(* The AccessControl trait. *)

\* One role's data is consistent when its counter is its number of members.
Consistent(d) == IsFiniteSet(d.hasRole) /\ d.membersLen = Cardinality(d.hasRole)

\* _grantRole keeps a role's data typed and consistent, also when the account
\* is a member already.
LEMMA GrantConsistent ==
    ASSUME NEW d \in RoleData, NEW account \in Account, Consistent(d)
    PROVE  /\ InternalGrantRole(d, account) \in RoleData
           /\ Consistent(InternalGrantRole(d, account))
<1>1. CASE account \in d.hasRole
  BY <1>1 DEF InternalGrantRole
<1>2. CASE account \notin d.hasRole
  <2>1. /\ IsFiniteSet(d.hasRole \cup {account})
        /\ Cardinality(d.hasRole \cup {account}) = Cardinality(d.hasRole) + 1
    BY <1>2, FS_AddElement DEF Consistent
  <2>2. InternalGrantRole(d, account)
          = Members(d, d.hasRole \cup {account}, d.membersLen + 1)
    BY <1>2 DEF InternalGrantRole
  <2>3. QED
    BY <2>1, <2>2 DEF RoleData, Members, Consistent
<1>3. QED
  BY <1>1, <1>2

\* _revokeRole keeps a role's data typed and consistent, also when the account
\* is not a member; in particular the counter never goes below zero.
LEMMA RevokeConsistent ==
    ASSUME NEW d \in RoleData, NEW account \in Account, Consistent(d)
    PROVE  /\ InternalRevokeRole(d, account) \in RoleData
           /\ Consistent(InternalRevokeRole(d, account))
<1>1. CASE account \notin d.hasRole
  BY <1>1 DEF InternalRevokeRole
<1>2. CASE account \in d.hasRole
  <2>1. /\ IsFiniteSet(d.hasRole \ {account})
        /\ Cardinality(d.hasRole \ {account}) = Cardinality(d.hasRole) - 1
    BY <1>2, FS_RemoveElement, Zenon DEF Consistent
  <2>2. Cardinality(d.hasRole \ {account}) \in Nat
    BY <2>1, FS_CardinalityType
  <2>3. InternalRevokeRole(d, account)
          = Members(d, d.hasRole \ {account}, d.membersLen - 1)
    BY <1>2 DEF InternalRevokeRole
  <2>4. QED
    BY <2>1, <2>2, <2>3 DEF RoleData, Members, Consistent
<1>3. QED
  BY <1>1, <1>2

\* The two invariants together are inductive.
AccessControlIInv == AccessControlTypeOK /\ MembersLenIsCardinality

\* Any step of the trait (grantRole, revokeRole, renounceRole) keeps the
\* role table typed and every counter equal to its number of members.
LEMMA AccessControlStep ==
    ASSUME AccessControlIInv,
           NEW sender \in Account, NEW role \in Role, NEW account \in Account,
           \/ grantRole(sender, role, account)
           \/ revokeRole(sender, role, account)
           \/ renounceRole(sender, role, account)
    PROVE  AccessControlIInv'
<1> USE DEF AccessControlIInv, AccessControlTypeOK, MembersLenIsCardinality
<1>1. roles[role] \in RoleData /\ Consistent(roles[role])
  BY DEF Consistent
<1>2. CASE grantRole(sender, role, account)
  <2>1. roles' = [roles EXCEPT ![role] = InternalGrantRole(roles[role], account)]
    BY <1>2 DEF grantRole
  <2>2. QED
    BY <1>1, <2>1, GrantConsistent DEF Consistent
<1>3. CASE revokeRole(sender, role, account) \/ renounceRole(sender, role, account)
  <2>1. roles' = [roles EXCEPT ![role] = InternalRevokeRole(roles[role], account)]
    BY <1>3 DEF revokeRole, renounceRole
  <2>2. QED
    BY <1>1, <2>1, RevokeConsistent DEF Consistent
<1>4. QED
  BY <1>2, <1>3

\* The role table keeps its type, and `membersLen` is the number of members of
\* every role after any sequence of grants, revocations and renunciations.
THEOREM MembersLenCorrect ==
    AccessControlSpec => [](AccessControlTypeOK /\ MembersLenIsCardinality)
<1>1. AccessControlInit => AccessControlIInv
  BY InitialRolesAssumption
  DEF AccessControlInit, AccessControlIInv, AccessControlTypeOK, MembersLenIsCardinality
<1>2. AccessControlIInv /\ [AccessControlNext]_roles => AccessControlIInv'
  <2>1. CASE AccessControlNext
    BY <2>1, AccessControlStep DEF AccessControlNext
  <2>2. CASE UNCHANGED roles
    BY <2>2 DEF AccessControlIInv, AccessControlTypeOK, MembersLenIsCardinality
  <2>3. QED
    BY <2>1, <2>2
<1>3. AccessControlIInv => AccessControlTypeOK /\ MembersLenIsCardinality
  BY DEF AccessControlIInv
<1>4. QED
  BY <1>1, <1>2, <1>3, PTL DEF AccessControlSpec

-----------------------------------------------------------------------------
(* Enumeration of a dictionary in key order. *)

\* The place of a key: how many keys come before it.
Rank(S, a) == Cardinality({b \in S : b < a})

\* The place of a key is below the number of keys, and a smaller key has a
\* smaller place.
LEMMA RankIsMonotone ==
    ASSUME NEW S, S \subseteq Nat, IsFiniteSet(S), NEW a \in S
    PROVE  /\ Rank(S, a) \in 0 .. Cardinality(S) - 1
           /\ \A c \in S : a < c => Rank(S, a) < Rank(S, c)
<1> DEFINE Before(c) == {b \in S : b < c}
<1>1. ASSUME NEW c \in S
      PROVE  IsFiniteSet(Before(c)) /\ Rank(S, c) = Cardinality(Before(c)) /\ Rank(S, c) \in Nat
  BY FS_Subset, FS_CardinalityType DEF Rank
<1>2. Cardinality(Before(a)) < Cardinality(S)
  <2>1. Before(a) \in SUBSET S /\ Before(a) # S
    OBVIOUS
  <2>2. Cardinality(Before(a)) <= Cardinality(S) /\ Cardinality(Before(a)) # Cardinality(S)
    BY <2>1, FS_Subset
  <2> QED
    BY <1>1, <2>2, FS_CardinalityType
<1>3. ASSUME NEW c \in S, a < c
      PROVE  Rank(S, a) < Rank(S, c)
  <2>0. a \in Nat /\ c \in Nat /\ \A b \in S : b \in Nat
    OBVIOUS
  <2>1. a \in Before(c) /\ a \notin Before(a)
    BY <1>3, <2>0
  <2>2. ASSUME NEW b \in Before(a)
        PROVE  b \in Before(c)
    BY <1>3, <2>0
  <2>3. Before(a) \in SUBSET Before(c)
    BY <2>2, Zenon
  <2> HIDE DEF Before
  <2>4. /\ Cardinality(Before(a)) <= Cardinality(Before(c))
        /\ Cardinality(Before(a)) # Cardinality(Before(c))
    BY <1>1, <2>1, <2>3, FS_Subset
  <2> QED
    BY <1>1, <2>4
<1> QED
  BY <1>1, <1>2, <1>3, FS_CardinalityType

\* Every place below the number of keys is the place of one key, the one that
\* is found there.
LEMMA EntryAtRank ==
    ASSUME NEW S, S \subseteq Nat, IsFiniteSet(S)
    PROVE  /\ \A a \in S : EntryAt(S, Rank(S, a)) = a
           /\ \A i \in 0 .. Cardinality(S) - 1 : EntryAt(S, i) \in S /\ Rank(S, EntryAt(S, i)) = i
<1>0. /\ \A c \in S : Rank(S, c) \in 0 .. Cardinality(S) - 1
      /\ \A c, d \in S : c < d => Rank(S, c) < Rank(S, d)
  BY RankIsMonotone, Zenon
<1>1. ASSUME NEW a \in S, NEW c \in S, Rank(S, a) = Rank(S, c)
      PROVE  a = c
  <2>1. a \in Nat /\ c \in Nat
    OBVIOUS
  <2>2. ~ Rank(S, a) < Rank(S, c) /\ ~ Rank(S, c) < Rank(S, a)
    BY <1>0, <1>1, FS_CardinalityType
  <2>3. ~ a < c /\ ~ c < a
    BY <1>0, <2>2
  <2> QED
    BY <2>1, <2>3
<1>2. ASSUME NEW a \in S, NEW i, Rank(S, a) = i
      PROVE  EntryAt(S, i) = a
  <2> DEFINE atRank == {c \in S : Rank(S, c) = i}
  <2>1. atRank = {a}
    BY <1>1, <1>2, Zenon
  <2>2. EntryAt(S, i) = IF atRank = {} THEN NullSlice ELSE CHOOSE c \in atRank : TRUE
    BY DEF EntryAt, Rank
  <2> QED
    BY <2>1, <2>2
<1>3. ASSUME NEW i \in 0 .. Cardinality(S) - 1
      PROVE  \E a \in S : Rank(S, a) = i
  <2> DEFINE n == Cardinality(S)
             place == [a \in S |-> Rank(S, a)]
  <2>1. n \in Nat
    BY FS_CardinalityType
  <2> HIDE DEF n
  <2>2. IsFiniteSet(0 .. n - 1) /\ Cardinality(0 .. n - 1) = n
    BY <2>1, FS_Interval
  <2>3. place \in Injection(S, 0 .. n - 1)
    BY <1>1, RankIsMonotone, Zenon DEF Injection, IsInjective, n
  <2>4. place \in Surjection(S, 0 .. n - 1)
    BY <2>2, <2>3, FS_Injection DEF n
  <2> QED
    BY <2>4, Zenon DEF Surjection, n
<1> QED
  BY <1>2, <1>3

\* The key after the one at place i is the one at place i + 1.
LEMMA EntryAfterRank ==
    ASSUME NEW S, S \subseteq Nat, IsFiniteSet(S), NEW i \in 0 .. Cardinality(S) - 1
    PROVE  EntryAfter(S, EntryAt(S, i))
             = IF i + 1 < Cardinality(S) THEN EntryAt(S, i + 1) ELSE NullSlice
<1> DEFINE n == Cardinality(S)
           a == EntryAt(S, i)
           above == {c \in S : c > a}
<1>1. n \in Nat /\ i \in 0 .. n - 1 /\ a \in S
  BY FS_CardinalityType, EntryAtRank, Zenon
<1>2. /\ \A c \in S : Rank(S, c) \in 0 .. n - 1
      /\ \A j \in 0 .. n - 1 : EntryAt(S, j) \in S /\ Rank(S, EntryAt(S, j)) = j
      /\ \A c, d \in S : c < d => Rank(S, c) < Rank(S, d)
  BY RankIsMonotone, EntryAtRank, Zenon
<1>3. EntryAfter(S, a) = IF above = {} THEN NullSlice
                         ELSE CHOOSE c \in above : \A b \in above : c <= b
  BY DEF EntryAfter
<1>4. Rank(S, a) = i
  BY <1>2
<1> HIDE DEF n, a
<1>5. \A c \in S : c \in above <=> Rank(S, c) > i
  <2> SUFFICES ASSUME NEW c \in S
               PROVE  c > a <=> Rank(S, c) > i
    OBVIOUS
  <2>1. (a < c => i < Rank(S, c)) /\ (c < a => Rank(S, c) < i) /\ (c = a => Rank(S, c) = i)
    BY <1>1, <1>2, <1>4
  <2>2. a \in Nat /\ c \in Nat /\ Rank(S, c) \in Nat /\ i \in Nat
    BY <1>1, <1>2
  <2> QED
    BY <2>1, <2>2
<1>6. above \subseteq S
  OBVIOUS
<1> HIDE DEF above
<1>7. CASE i + 1 < n
  <2> DEFINE e == EntryAt(S, i + 1)
  <2>1. e \in S /\ Rank(S, e) = i + 1
    BY <1>1, <1>2, <1>7
  <2> HIDE DEF e
  <2>2. e \in above
    BY <1>1, <1>5, <2>1
  <2>3. ASSUME NEW b \in above
        PROVE  e <= b
    <3>1. b \in S /\ Rank(S, b) > i /\ Rank(S, b) \in Nat
      BY <1>2, <1>5, <1>6
    <3>2. ~ Rank(S, b) < Rank(S, e)
      BY <1>1, <2>1, <3>1
    <3>3. ~ b < e
      BY <1>2, <2>1, <3>1, <3>2
    <3> QED
      BY <2>1, <3>1, <3>3
  <2>4. ASSUME NEW c \in above, \A b \in above : c <= b
        PROVE  c = e
    <3>1. c <= e /\ e <= c /\ c \in Nat /\ e \in Nat
      BY <1>6, <2>2, <2>3, <2>4
    <3> QED
      BY <3>1
  <2>5. (CHOOSE c \in above : \A b \in above : c <= b) = e
    BY <2>2, <2>3, <2>4
  <2> QED
    BY <1>3, <1>7, <2>2, <2>5, Zenon DEF a, e, n
<1>8. CASE ~ i + 1 < n
  <2>1. above = {}
    BY <1>1, <1>2, <1>5, <1>6, <1>8
  <2> QED
    BY <1>3, <1>8, <2>1 DEF a, n
<1> QED
  BY <1>7, <1>8

\* Reading the places below the number of keys, or going from key to key,
\* yields every key and nothing after the last one.
LEMMA Enumeration ==
    ASSUME NEW S, S \subseteq Nat, IsFiniteSet(S), NEW n, n = Cardinality(S)
    PROVE  /\ n \in Nat
           /\ {EntryAt(S, i) : i \in 0 .. n - 1} = S
           /\ \A i \in 0 .. n - 1 :
                 /\ EntryAt(S, i) \in S
                 /\ EntryAfter(S, EntryAt(S, i))
                      = IF i + 1 < n THEN EntryAt(S, i + 1) ELSE NullSlice
<1>1. n \in Nat
  BY FS_CardinalityType
<1>2. \A a \in S : Rank(S, a) \in 0 .. n - 1 /\ EntryAt(S, Rank(S, a)) = a
  BY RankIsMonotone, EntryAtRank, Zenon
<1>3. \A i \in 0 .. n - 1 : EntryAt(S, i) \in S
  BY EntryAtRank, Zenon
<1> QED
  BY <1>1, <1>2, <1>3, EntryAfterRank, Zenon

\* Members of roles can be enumerated when the counters are right.
LEMMA RolesEnumerable ==
    ASSUME AccessControlIInv
    PROVE  EnumerationsAgree
<1> SUFFICES ASSUME NEW role \in Role
             PROVE  LET n == getRoleMemberCount(role)
                        at(i) == getRoleMember(role, i)
                    IN  /\ {at(i) : i \in 0 .. n - 1} = roles[role].hasRole
                        /\ at(n) = AddressNone
                        /\ getRoleMemberFirst(role) = at(0)
                        /\ \A i \in 0 .. n - 1 : getRoleMemberNext(role, at(i)) = at(i + 1)
  BY DEF EnumerationsAgree
<1> DEFINE S == roles[role].hasRole
           n == getRoleMemberCount(role)
<1>1. S \subseteq Nat /\ IsFiniteSet(S) /\ n = Cardinality(S)
  BY AccountAssumption, Zenon DEF AccessControlIInv, AccessControlTypeOK, MembersLenIsCardinality,
     RoleData, getRoleMemberCount
<1>2. \A i : getRoleMember(role, i) = IF i >= n THEN AddressNone ELSE EntryAt(S, i)
  BY DEF getRoleMember
<1>3. getRoleMemberFirst(role) = IF n = 0 THEN AddressNone ELSE EntryAt(S, 0)
  BY DEF getRoleMemberFirst
<1>4. \A pivot : getRoleMemberNext(role, pivot)
        = IF EntryAfter(S, pivot) = NullSlice THEN AddressNone ELSE EntryAfter(S, pivot)
  BY DEF getRoleMemberNext
<1> HIDE DEF S, n
<1>5. /\ n \in Nat
      /\ {EntryAt(S, i) : i \in 0 .. n - 1} = S
      /\ \A i \in 0 .. n - 1 :
            /\ EntryAt(S, i) \in S
            /\ EntryAfter(S, EntryAt(S, i))
                 = IF i + 1 < n THEN EntryAt(S, i + 1) ELSE NullSlice
  BY <1>1, Enumeration, Zenon
<1>6. \A i \in 0 .. n - 1 : getRoleMember(role, i) = EntryAt(S, i)
  BY <1>2, <1>5
<1>7. {getRoleMember(role, i) : i \in 0 .. n - 1} = S
  BY <1>5, <1>6
<1>8. getRoleMember(role, n) = AddressNone
  BY <1>2, <1>5
<1>9. getRoleMemberFirst(role) = getRoleMember(role, 0)
  BY <1>2, <1>3, <1>5
<1>10. ASSUME NEW i \in 0 .. n - 1
       PROVE  getRoleMemberNext(role, getRoleMember(role, i)) = getRoleMember(role, i + 1)
  <2>1. CASE i + 1 < n
    <3>1. i + 1 \in 0 .. n - 1
      BY <1>5, <2>1
    <3>2. EntryAfter(S, EntryAt(S, i)) = EntryAt(S, i + 1) /\ EntryAt(S, i + 1) \in Nat
      BY <1>1, <1>5, <2>1, <3>1, Zenon
    <3>3. EntryAfter(S, EntryAt(S, i)) # NullSlice
      BY <3>2 DEF NullSlice
    <3> QED
      BY <1>4, <1>6, <3>1, <3>2, <3>3
  <2>2. CASE ~ i + 1 < n
    <3>1. EntryAfter(S, EntryAt(S, i)) = NullSlice
      BY <1>5, <2>2
    <3>2. getRoleMember(role, i + 1) = AddressNone
      BY <1>2, <1>5, <2>2
    <3> QED
      BY <1>4, <1>6, <3>1, <3>2
  <2> QED
    BY <2>1, <2>2
<1> QED
  BY <1>7, <1>8, <1>9, <1>10 DEF S, n

\* The same for the blocked selectors.
LEMMA SelectorsEnumerable ==
    ASSUME blockedFnSelectors \subseteq Selector, BlockedLenIsCardinality
    PROVE  BlockedSelectorsEnumerable
<1> DEFINE S == blockedFnSelectors
           n == blockedFnSelectorsLen
           at(i) == getBlockedFunctionSelectorAt(i)
<1>1. S \subseteq Nat /\ IsFiniteSet(S) /\ n = Cardinality(S)
  BY OperationAssumption DEF BlockedLenIsCardinality
<1>2. \A i : at(i) = IF i >= n THEN 0 ELSE EntryAt(S, i)
  BY DEF getBlockedFunctionSelectorAt
<1>3. getBlockedFunctionSelectorFirst = IF n = 0 THEN 0 ELSE EntryAt(S, 0)
  BY DEF getBlockedFunctionSelectorFirst
<1>4. \A pivot : getBlockedFunctionSelectorNext(pivot)
        = IF EntryAfter(S, pivot) = NullSlice THEN 0 ELSE EntryAfter(S, pivot)
  BY DEF getBlockedFunctionSelectorNext
<1> HIDE DEF S, n, at
<1>5. /\ n \in Nat
      /\ {EntryAt(S, i) : i \in 0 .. n - 1} = S
      /\ \A i \in 0 .. n - 1 :
            /\ EntryAt(S, i) \in S
            /\ EntryAfter(S, EntryAt(S, i))
                 = IF i + 1 < n THEN EntryAt(S, i + 1) ELSE NullSlice
  BY <1>1, Enumeration, Zenon
<1>6. \A i \in 0 .. n - 1 : at(i) = EntryAt(S, i)
  BY <1>2, <1>5
<1>7. {at(i) : i \in 0 .. n - 1} = S
  BY <1>5, <1>6
<1>8. getBlockedFunctionSelectorFirst = at(0)
  BY <1>2, <1>3, <1>5
<1>9. ASSUME NEW i \in 0 .. n - 1
      PROVE  getBlockedFunctionSelectorNext(at(i)) = at(i + 1)
  <2>1. CASE i + 1 < n
    <3>1. i + 1 \in 0 .. n - 1
      BY <1>5, <2>1
    <3>2. EntryAfter(S, EntryAt(S, i)) = EntryAt(S, i + 1) /\ EntryAt(S, i + 1) \in Nat
      BY <1>1, <1>5, <2>1, <3>1, Zenon
    <3>3. EntryAfter(S, EntryAt(S, i)) # NullSlice
      BY <3>2 DEF NullSlice
    <3> QED
      BY <1>4, <1>6, <3>1, <3>2, <3>3
  <2>2. CASE ~ i + 1 < n
    <3>1. EntryAfter(S, EntryAt(S, i)) = NullSlice
      BY <1>5, <2>2
    <3>2. at(i + 1) = 0
      BY <1>2, <1>5, <2>2
    <3> QED
      BY <1>4, <1>6, <3>1, <3>2
  <2> QED
    BY <2>1, <2>2
<1> QED
  BY <1>7, <1>8, <1>9 DEF S, n, at, BlockedSelectorsEnumerable

-----------------------------------------------------------------------------
(* The timelock. *)

\* The timestamp of a pending operation is what its booking says.
PendingIsBooked ==
    \A id \in Op :
        isOperationPending(id) =>
            /\ booking[id].at > 0 /\ booking[id].at <= now
            /\ timestamps[id] = booking[id].at + booking[id].delay
            /\ booking[id].delay >= booking[id].floor

\* An operation is marked done exactly when its calls were sent by executeBatch.
DoneIsSent ==
    \A id \in Op : isOperationDone(id) <=> \E i \in Executed : sent[i].op = id

\* What relates the timestamps, the bookings and the calls sent.
History ==
    /\ PendingIsBooked
    /\ DoneIsSent
    /\ ExecutedAsBooked
    /\ ExecutedOnce
    /\ PredecessorsFirst

IInv ==
    /\ TypeOK
    /\ MembersLenIsCardinality
    /\ BlockedLenIsCardinality
    /\ BlockedAfterBooking
    /\ History

\* Every handler keeps the types of the storage and the counters of members and
\* of blocked selectors; unblocking never takes the counter below zero.
LEMMA TypeStep ==
    ASSUME TypeOK, MembersLenIsCardinality, BlockedLenIsCardinality, Next
    PROVE  TypeOK' /\ MembersLenIsCardinality' /\ BlockedLenIsCardinality'
<1> USE TimeAssumption, OperationAssumption
        DEF TypeOK, timelockVars, DONE_TIMESTAMP, Booking, NoBooking
<1>0. ASSUME UNCHANGED roles
      PROVE  AccessControlTypeOK' /\ MembersLenIsCardinality'
  BY <1>0 DEF AccessControlTypeOK, MembersLenIsCardinality
<1>00. ASSUME UNCHANGED <<blockedFnSelectors, blockedFnSelectorsLen>>
       PROVE  BlockedLenIsCardinality'
  BY <1>00 DEF BlockedLenIsCardinality
<1>1. CASE Tick
  BY <1>0, <1>00, <1>1 DEF Tick
<1>2. ASSUME NEW sender \in Account, NEW delay \in Delays, NEW admin \in Account,
             init(sender, delay, admin)
      PROVE  TypeOK' /\ MembersLenIsCardinality' /\ BlockedLenIsCardinality'
  BY <1>0, <1>00, <1>2 DEF init
<1>3. ASSUME NEW sender \in Account, NEW id \in Op, NEW delay \in Delays,
             scheduleBatch(sender, id, delay)
      PROVE  TypeOK' /\ MembersLenIsCardinality' /\ BlockedLenIsCardinality'
  BY <1>0, <1>00, <1>3 DEF scheduleBatch, schedule
<1>4. ASSUME NEW sender \in Account, NEW id \in Op, cancel(sender, id)
      PROVE  TypeOK' /\ MembersLenIsCardinality' /\ BlockedLenIsCardinality'
  BY <1>0, <1>00, <1>4 DEF cancel
<1>5. ASSUME NEW sender \in Account, NEW id \in Op, executeBatch(sender, id)
      PROVE  TypeOK' /\ MembersLenIsCardinality' /\ BlockedLenIsCardinality'
  <2>1. [kind |-> "executed", op |-> id, at |-> now, booked |-> booking[id]] \in Batch
    BY DEF Batch
  <2>2. QED
    BY <1>0, <1>00, <1>5, <2>1 DEF executeBatch, afterCall
<1>6. ASSUME NEW sender \in Account, NEW id \in Op, bypasserExecuteBatch(sender, id)
      PROVE  TypeOK' /\ MembersLenIsCardinality' /\ BlockedLenIsCardinality'
  <2>1. [kind |-> "bypassed", op |-> id, at |-> now, booked |-> NoBooking] \in Batch
    BY DEF Batch
  <2>2. QED
    BY <1>0, <1>00, <1>6, <2>1 DEF bypasserExecuteBatch
<1>7. ASSUME NEW sender \in Account, NEW delay \in Delays, updateDelay(sender, delay)
      PROVE  TypeOK' /\ MembersLenIsCardinality' /\ BlockedLenIsCardinality'
  BY <1>0, <1>00, <1>7 DEF updateDelay
<1>8. ASSUME NEW sender \in Account, NEW selector \in Selector,
             blockFunctionSelector(sender, selector)
      PROVE  TypeOK' /\ MembersLenIsCardinality' /\ BlockedLenIsCardinality'
  <2>1. /\ IsFiniteSet(blockedFnSelectors \cup {selector})
        /\ Cardinality(blockedFnSelectors \cup {selector}) = Cardinality(blockedFnSelectors) + 1
    BY <1>8, FS_AddElement, Zenon DEF blockFunctionSelector, BlockedLenIsCardinality
  <2>2. QED
    BY <1>0, <1>8, <2>1 DEF blockFunctionSelector, BlockedLenIsCardinality
<1>9. ASSUME NEW sender \in Account, NEW selector \in Selector,
             unblockFunctionSelector(sender, selector)
      PROVE  TypeOK' /\ MembersLenIsCardinality' /\ BlockedLenIsCardinality'
  <2>1. /\ IsFiniteSet(blockedFnSelectors \ {selector})
        /\ Cardinality(blockedFnSelectors \ {selector}) = Cardinality(blockedFnSelectors) - 1
    BY <1>9, FS_RemoveElement, Zenon DEF unblockFunctionSelector, BlockedLenIsCardinality
  <2>2. Cardinality(blockedFnSelectors \ {selector}) \in Nat
    BY <2>1, FS_CardinalityType
  <2>3. QED
    BY <1>0, <1>9, <2>1, <2>2 DEF unblockFunctionSelector, BlockedLenIsCardinality
<1>10. ASSUME NEW sender \in Account, NEW change \in RoleChanges,
              roleMessage(sender, change[1], change[2])
       PROVE  TypeOK' /\ MembersLenIsCardinality' /\ BlockedLenIsCardinality'
  <2>1. change[1] \in Role /\ change[2] \in Account
    BY TimelockRoleAssumption
  <2>2. AccessControlTypeOK' /\ MembersLenIsCardinality'
    BY <1>10, <2>1, AccessControlStep DEF roleMessage, AccessControlIInv
  <2>3. QED
    BY <1>00, <1>10, <2>2 DEF roleMessage
<1>11. QED
  BY <1>1, <1>2, <1>3, <1>4, <1>5, <1>6, <1>7, <1>8, <1>9, <1>10, Zenon DEF Next

\* A step that leaves the operations alone, or only lets time pass, keeps what
\* relates them to the calls sent.
LEMMA HistoryFrame ==
    ASSUME TypeOK, TypeOK', History, now' >= now,
           UNCHANGED <<timestamps, booking, sent>>
    PROVE  History'
<1>1. PendingIsBooked'
  BY DEF TypeOK, Booking, History, PendingIsBooked, isOperationPending, getTimestamp
<1>2. DoneIsSent'
  BY DEF History, DoneIsSent, Executed, isOperationDone, getTimestamp
<1>3. ExecutedAsBooked' /\ ExecutedOnce' /\ PredecessorsFirst'
  BY DEF History, ExecutedAsBooked, ExecutedOnce, PredecessorsFirst, Executed
<1>4. QED
  BY <1>1, <1>2, <1>3 DEF History

\* Appending a bypassed batch leaves the executed ones where they were.
LEMMA HistoryBypass ==
    ASSUME TypeOK, History, NEW sender \in Account, NEW id \in Op,
           bypasserExecuteBatch(sender, id)
    PROVE  History'
<1>1. /\ sent' = Append(sent, [kind |-> "bypassed", op |-> id, at |-> now, booked |-> NoBooking])
      /\ UNCHANGED <<timestamps, booking, now>>
  BY SMTT(30) DEF bypasserExecuteBatch
<1>2. /\ Executed' = Executed
      /\ \A i \in Executed : sent'[i] = sent[i]
  BY <1>1 DEF TypeOK, Executed
<1>3. PendingIsBooked'
  BY <1>1 DEF History, PendingIsBooked, isOperationPending, getTimestamp
<1>4. DoneIsSent'
  <2>1. \A op \in Op : isOperationDone(op)' <=> isOperationDone(op)
    BY <1>1 DEF isOperationDone, getTimestamp
  <2>2. \A op \in Op : (\E i \in Executed' : sent'[i].op = op) <=> \E i \in Executed : sent[i].op = op
    BY <1>2, ZenonT(30)
  <2> QED
    BY <2>1, <2>2 DEF History, DoneIsSent
<1>5. ExecutedAsBooked' /\ ExecutedOnce' /\ PredecessorsFirst'
  BY <1>2 DEF History, ExecutedAsBooked, ExecutedOnce, PredecessorsFirst
<1>6. QED
  BY <1>3, <1>4, <1>5 DEF History

\* scheduleBatch turns an unset operation into a pending one; it was not done,
\* so no call of it was sent.
LEMMA HistorySchedule ==
    ASSUME TypeOK, TypeOK', History, NEW sender \in Account, NEW id \in Op,
           NEW delay \in Delays, scheduleBatch(sender, id, delay)
    PROVE  History'
<1>1. /\ timestamps' = [timestamps EXCEPT ![id] = now + delay]
      /\ booking' = [booking EXCEPT ![id] = [at |-> now, delay |-> delay, floor |-> minDelay]]
      /\ ~ timestamps[id] > 0
      /\ delay >= minDelay
      /\ UNCHANGED <<now, sent>>
  BY DEF scheduleBatch, schedule, isOperation, getTimestamp
<1>2. PendingIsBooked'
  BY <1>1, TimeAssumption
  DEF TypeOK, DONE_TIMESTAMP, History, PendingIsBooked, isOperationPending, getTimestamp
<1>3. DoneIsSent'
  BY <1>1, TimeAssumption, SMTT(30)
  DEF TypeOK, DONE_TIMESTAMP, History, DoneIsSent, isOperationDone, getTimestamp, Executed
<1>4. (ExecutedAsBooked /\ ExecutedOnce /\ PredecessorsFirst)'
  BY <1>1 DEF History, ExecutedAsBooked, ExecutedOnce, PredecessorsFirst, Executed
<1>5. QED
  BY <1>2, <1>3, <1>4 DEF History

\* cancel turns a pending operation into an unset one.
LEMMA HistoryCancel ==
    ASSUME TypeOK, TypeOK', History, NEW sender \in Account, NEW id \in Op, cancel(sender, id)
    PROVE  History'
<1>1. /\ timestamps' = [timestamps EXCEPT ![id] = 0]
      /\ booking' = [booking EXCEPT ![id] = NoBooking]
      /\ timestamps[id] > DONE_TIMESTAMP
      /\ UNCHANGED <<now, sent>>
  BY DEF cancel, isOperationPending, getTimestamp
<1>2. PendingIsBooked'
  BY <1>1 DEF TypeOK, DONE_TIMESTAMP, History, PendingIsBooked, isOperationPending, getTimestamp
<1>3. DoneIsSent'
  BY <1>1, SMTT(30)
  DEF TypeOK, DONE_TIMESTAMP, History, DoneIsSent, isOperationDone, getTimestamp, Executed
<1>4. (ExecutedAsBooked /\ ExecutedOnce /\ PredecessorsFirst)'
  BY <1>1 DEF History, ExecutedAsBooked, ExecutedOnce, PredecessorsFirst, Executed
<1>5. QED
  BY <1>2, <1>3, <1>4 DEF History

\* executeBatch sends the calls of a ready operation and marks it done.
LEMMA HistoryExecute ==
    ASSUME TypeOK, TypeOK', History, NEW sender \in Account, NEW id \in Op,
           executeBatch(sender, id)
    PROVE  History'
<1> DEFINE batch == [kind |-> "executed", op |-> id, at |-> now, booked |-> booking[id]]
           n == Len(sent) + 1
<1>1. /\ timestamps' = [timestamps EXCEPT ![id] = DONE_TIMESTAMP]
      /\ booking' = [booking EXCEPT ![id] = NoBooking]
      /\ sent' = Append(sent, batch)
      /\ UNCHANGED now
      /\ timestamps[id] > DONE_TIMESTAMP /\ timestamps[id] <= now
  BY DEF executeBatch, afterCall, isOperationReady, getTimestamp
<1>2. /\ Executed' = Executed \cup {n}
      /\ \A i \in Executed : sent'[i] = sent[i] /\ i \in Nat /\ i < n
      /\ sent'[n] = batch /\ n \in Nat
  BY <1>1, SMTT(30) DEF TypeOK, Executed
<1>3. \A i \in Executed : sent[i].op # id
  <2>1. timestamps[id] # DONE_TIMESTAMP
    BY <1>1 DEF TypeOK, DONE_TIMESTAMP
  <2>2. QED
    BY <2>1 DEF History, DoneIsSent, isOperationDone, getTimestamp
<1>4. PendingIsBooked'
  BY <1>1 DEF TypeOK, DONE_TIMESTAMP, History, PendingIsBooked, isOperationPending, getTimestamp
<1>5. DoneIsSent'
  <2> SUFFICES ASSUME NEW op \in Op
               PROVE  timestamps'[op] = DONE_TIMESTAMP <=> \E i \in Executed' : sent'[i].op = op
    BY SMTT(30) DEF DoneIsSent, isOperationDone, getTimestamp
  <2>1. CASE op = id
    BY <1>1, <1>2, <2>1, SMTT(30) DEF TypeOK
  <2>2. CASE op # id
    <3>1. timestamps'[op] = timestamps[op]
      BY <1>1, <2>2, SMTT(30) DEF TypeOK
    <3>2. (\E i \in Executed' : sent'[i].op = op) <=> (\E i \in Executed : sent[i].op = op)
      BY <1>2, <2>2
    <3>3. QED
      BY <3>1, <3>2 DEF History, DoneIsSent, isOperationDone, getTimestamp
  <2>3. QED
    BY <2>1, <2>2
<1>6. ExecutedAsBooked'
  <2>1. /\ booking[id].at > 0
        /\ timestamps[id] = booking[id].at + booking[id].delay
        /\ booking[id].delay >= booking[id].floor
    BY <1>1, ZenonT(30) DEF History, PendingIsBooked, isOperationPending, getTimestamp
  <2>2. booking[id] # NoBooking
    BY <2>1 DEF NoBooking
  <2>3. now >= booking[id].at + booking[id].delay
    BY <1>1, <2>1 DEF TypeOK, Booking
  <2>4. SUFFICES ASSUME NEW i \in Executed'
                 PROVE  /\ sent'[i].booked # NoBooking
                        /\ sent'[i].at >= sent'[i].booked.at + sent'[i].booked.delay
                        /\ sent'[i].booked.delay >= sent'[i].booked.floor
    BY DEF ExecutedAsBooked
  <2>5. CASE i = n
    BY <1>2, <2>1, <2>2, <2>3, <2>5, SMTT(30)
  <2>6. CASE i \in Executed
    BY <1>2, <2>6, ZenonT(30) DEF History, ExecutedAsBooked
  <2>7. QED
    BY <1>2, <2>5, <2>6
<1>7. ExecutedOnce'
  BY <1>2, <1>3, SMTT(30) DEF History, ExecutedOnce
<1>8. PredecessorsFirst'
  <2>1. Predecessor[id] # NoPredecessor => \E j \in Executed : sent[j].op = Predecessor[id]
    BY DEF executeBatch, beforeCall, History, DoneIsSent
  <2>2. QED
    BY <1>2, <2>1, SMTT(30) DEF History, PredecessorsFirst
<1>9. QED
  BY <1>4, <1>5, <1>6, <1>7, <1>8 DEF History

\* What relates operations to the calls sent survives every step.
LEMMA HistoryStep ==
    ASSUME TypeOK, TypeOK', History, Next
    PROVE  History'
<1>1. CASE Tick
  BY <1>1, HistoryFrame DEF Tick, TypeOK
<1>2. ASSUME NEW sender \in Account, NEW id \in Op, NEW delay \in Delays,
             scheduleBatch(sender, id, delay)
      PROVE  History'
  BY <1>2, HistorySchedule
<1>3. ASSUME NEW sender \in Account, NEW id \in Op,
             \/ cancel(sender, id)
             \/ executeBatch(sender, id)
             \/ bypasserExecuteBatch(sender, id)
      PROVE  History'
  BY <1>3, HistoryCancel, HistoryExecute, HistoryBypass
<1>4. ASSUME NEW sender \in Account,
             \/ \E delay \in Delays, admin \in Account : init(sender, delay, admin)
             \/ \E delay \in Delays : updateDelay(sender, delay)
             \/ \E selector \in Selector : blockFunctionSelector(sender, selector)
             \/ \E selector \in Selector : unblockFunctionSelector(sender, selector)
             \/ \E change \in RoleChanges : roleMessage(sender, change[1], change[2])
      PROVE  History'
  <2>1. UNCHANGED <<timestamps, booking, sent, now>>
    BY <1>4, Zenon DEF init, updateDelay, blockFunctionSelector, unblockFunctionSelector, roleMessage,
       timelockVars
  <2>2. QED
    BY <2>1, HistoryFrame DEF TypeOK
<1>5. QED
  BY <1>1, <1>2, <1>3, <1>4 DEF Next

\* A selector of a pending operation is blocked only after the booking: the
\* check of scheduleBatch covers the time of booking, and a later block is
\* dated now.
LEMMA BlockedStep ==
    ASSUME TypeOK, TypeOK', History, BlockedAfterBooking, Next
    PROVE  BlockedAfterBooking'
<1> USE DEF BlockedAfterBooking, isOperationPending, getTimestamp
<1>1. ASSUME UNCHANGED <<timestamps, booking, blockedFnSelectors, blockedSince>>
      PROVE  BlockedAfterBooking'
  BY <1>1
<1>2. ASSUME NEW sender \in Account, NEW id \in Op, NEW delay \in Delays,
             scheduleBatch(sender, id, delay)
      PROVE  BlockedAfterBooking'
  BY <1>2 DEF scheduleBatch, schedule, checkFunctionSelectorNotBlocked, TypeOK
<1>3. ASSUME NEW sender \in Account, NEW id \in Op,
             cancel(sender, id) \/ executeBatch(sender, id)
      PROVE  BlockedAfterBooking'
  <2>1. /\ timestamps' \in {[timestamps EXCEPT ![id] = 0], [timestamps EXCEPT ![id] = DONE_TIMESTAMP]}
        /\ booking' = [booking EXCEPT ![id] = NoBooking]
        /\ UNCHANGED <<blockedFnSelectors, blockedSince>>
    BY <1>3 DEF cancel, executeBatch, afterCall
  <2>2. QED
    BY <2>1 DEF TypeOK, DONE_TIMESTAMP
<1>4. ASSUME NEW sender \in Account, NEW selector \in Selector,
             blockFunctionSelector(sender, selector)
      PROVE  BlockedAfterBooking'
  <2>1. \A id \in Op : timestamps[id] > DONE_TIMESTAMP => now >= booking[id].at
    BY DEF History, PendingIsBooked, TypeOK, Booking
  <2>2. QED
    BY <1>4, <2>1 DEF blockFunctionSelector, TypeOK
<1>5. ASSUME NEW sender \in Account, NEW selector \in Selector,
             unblockFunctionSelector(sender, selector)
      PROVE  BlockedAfterBooking'
  BY <1>5 DEF unblockFunctionSelector, TypeOK
<1>6. QED
  BY <1>1, <1>2, <1>3, <1>4, <1>5, Zenon
  DEF Next, Tick, init, updateDelay, bypasserExecuteBatch, roleMessage, timelockVars

\* The inductive invariant.
LEMMA Inductive == Spec => []IInv
<1>1. Init => IInv
  <2> SUFFICES ASSUME Init PROVE IInv
    OBVIOUS
  <2>1. TypeOK /\ MembersLenIsCardinality
    BY InitialRolesAssumption, TimeAssumption
    DEF Init, AccessControlInit, TypeOK, AccessControlTypeOK, MembersLenIsCardinality,
        Booking, NoBooking
  <2>2. BlockedLenIsCardinality
    BY FS_EmptySet DEF Init, BlockedLenIsCardinality
  <2>3. BlockedAfterBooking
    BY DEF Init, BlockedAfterBooking
  <2>4. Executed = {}
    BY DEF Init, Executed
  <2>5. History
    BY <2>4 DEF Init, History, PendingIsBooked, DoneIsSent, ExecutedAsBooked, ExecutedOnce,
       PredecessorsFirst, isOperationPending, isOperationDone, getTimestamp, DONE_TIMESTAMP
  <2>6. QED
    BY <2>1, <2>2, <2>3, <2>5 DEF IInv
<1>2. IInv /\ [Next]_vars => IInv'
  <2> SUFFICES ASSUME IInv, [Next]_vars PROVE IInv'
    OBVIOUS
  <2>1. CASE Next
    BY <2>1, TypeStep, HistoryStep, BlockedStep DEF IInv
  <2>2. CASE UNCHANGED vars
    <3>1. TypeOK' /\ MembersLenIsCardinality' /\ BlockedLenIsCardinality'
      BY <2>2 DEF vars, timelockVars, IInv, TypeOK, AccessControlTypeOK, MembersLenIsCardinality,
         BlockedLenIsCardinality
    <3>2. BlockedAfterBooking'
      BY <2>2 DEF vars, timelockVars, IInv, BlockedAfterBooking, isOperationPending, getTimestamp
    <3>3. History'
      BY <2>2, <3>1, HistoryFrame DEF vars, timelockVars, IInv, TypeOK
    <3>4. QED
      BY <3>1, <3>2, <3>3, Zenon DEF IInv
  <2>3. QED
    BY <2>1, <2>2
<1>3. QED
  BY <1>1, <1>2, PTL DEF Spec

\* executeBatch only ever sends a batch that was booked and not cancelled
\* since, after a delay that met the minimum in force at the booking.
THEOREM ExecutionIsTimelocked == Spec => []ExecutedAsBooked
<1>1. IInv => ExecutedAsBooked
  BY DEF IInv, History
<1>2. QED
  BY <1>1, Inductive, PTL

\* executeBatch sends an operation at most once, even if it is offered again to
\* scheduleBatch, cancel or executeBatch after it is done.
THEOREM ExecutionHappensOnce == Spec => []ExecutedOnce
<1>1. IInv => ExecutedOnce
  BY DEF IInv, History
<1>2. QED
  BY <1>1, Inductive, PTL

\* executeBatch sends an operation only after the one it names as predecessor.
THEOREM ExecutionFollowsPredecessors == Spec => []PredecessorsFirst
<1>1. IInv => PredecessorsFirst
  BY DEF IInv, History
<1>2. QED
  BY <1>1, Inductive, PTL

\* The storage keeps its types, the counter of blocked selectors is their
\* number, and a pending operation carries a blocked selector only when it was
\* blocked after the booking.
THEOREM BlockedSelectorsCorrect ==
    Spec => [](TypeOK /\ BlockedLenIsCardinality /\ BlockedAfterBooking)
<1>1. IInv => TypeOK /\ BlockedLenIsCardinality /\ BlockedAfterBooking
  BY DEF IInv
<1>2. QED
  BY <1>1, Inductive, PTL

\* Clients that list the members of a role or the blocked selectors, by index
\* or from key to key, see all of them once and in the same order after every
\* sequence of messages.
THEOREM EntriesEnumerable == Spec => []EveryEntryEnumerable
<1>1. IInv => EveryEntryEnumerable
  BY RolesEnumerable, SelectorsEnumerable, Zenon
  DEF IInv, TypeOK, AccessControlIInv, EveryEntryEnumerable
<1>2. QED
  BY <1>1, Inductive, PTL

\* The four ways a step can change the timestamps, one per kind of handler.
TimestampStep ==
    \/ UNCHANGED timestamps /\ now' \in {now, now + 1}
    \/ \E id \in Op, delay \in Delays :
          /\ timestamps[id] = 0
          /\ timestamps' = [timestamps EXCEPT ![id] = now + delay] /\ now' = now
    \/ \E id \in Op :
          /\ timestamps[id] > DONE_TIMESTAMP
          /\ timestamps' = [timestamps EXCEPT ![id] = 0] /\ now' = now
    \/ \E id \in Op :
          /\ timestamps[id] > DONE_TIMESTAMP /\ timestamps[id] <= now
          /\ timestamps' = [timestamps EXCEPT ![id] = DONE_TIMESTAMP] /\ now' = now

\* Every step of the timelock is one of those four.
LEMMA TimestampSteps ==
    ASSUME TypeOK, [Next]_vars
    PROVE  TimestampStep
<1>1. ASSUME NEW sender \in Account, NEW id \in Op, NEW delay \in Delays,
             scheduleBatch(sender, id, delay)
      PROVE  TimestampStep
  <2>1. /\ timestamps' = [timestamps EXCEPT ![id] = now + delay] /\ now' = now
        /\ ~ timestamps[id] > 0
    BY <1>1 DEF scheduleBatch, schedule, isOperation, getTimestamp
  <2>2. timestamps[id] = 0
    BY <2>1 DEF TypeOK
  <2>3. QED
    BY <2>1, <2>2, Zenon DEF TimestampStep
<1>2. ASSUME NEW sender \in Account, NEW id \in Op, cancel(sender, id)
      PROVE  TimestampStep
  BY <1>2, Zenon DEF cancel, isOperationPending, getTimestamp, TimestampStep
<1>3. ASSUME NEW sender \in Account, NEW id \in Op, executeBatch(sender, id)
      PROVE  TimestampStep
  BY <1>3, Zenon DEF executeBatch, afterCall, isOperationReady, getTimestamp, TimestampStep
<1>4. ASSUME UNCHANGED timestamps, now' \in {now, now + 1}
      PROVE  TimestampStep
  BY <1>4 DEF TimestampStep
<1>5. QED
  BY <1>1, <1>2, <1>3, <1>4, Zenon
  DEF Next, Tick, init, updateDelay, blockFunctionSelector, unblockFunctionSelector,
      bypasserExecuteBatch, roleMessage, vars, timelockVars

\* No message schedules, cancels or executes an operation that is done.
THEOREM DoneOperationsStayDone == Spec => DoneIsForever
<1>1. TypeOK /\ [Next]_vars
        => [\A id \in Op : isOperationDone(id) => isOperationDone(id)']_vars
  <2> SUFFICES ASSUME TypeOK, [Next]_vars, NEW id \in Op, isOperationDone(id)
               PROVE  isOperationDone(id)'
    OBVIOUS
  <2>1. TimestampStep
    BY TimestampSteps
  <2>2. QED
    BY <2>1 DEF TimestampStep, isOperationDone, getTimestamp, TypeOK, DONE_TIMESTAMP
<1>2. QED
  BY <1>1, BlockedSelectorsCorrect, PTL DEF Spec, DoneIsForever

\* What the lifecycle sees when the timestamp of one operation changes.
LEMMA LifecycleUpdate ==
    ASSUME TypeOK, NEW id \in Op, NEW t \in Nat,
           timestamps' = [timestamps EXCEPT ![id] = t]
    PROVE  /\ phaseOf' = [phaseOf EXCEPT ![id] = IF t = DONE_TIMESTAMP THEN "released"
                             ELSE IF t > DONE_TIMESTAMP THEN "announced" ELSE "unset"]
           /\ dueOf' = [dueOf EXCEPT ![id] = IF t > DONE_TIMESTAMP THEN t ELSE 0]
<1>1. \A op \in Op : timestamps'[op] = IF op = id THEN t ELSE timestamps[op]
  BY DEF TypeOK
<1>2. QED
  BY <1>1, Zenon DEF phaseOf, dueOf, isOperationDone, isOperationPending, getTimestamp

\* One step of the timelock is one step of the lifecycle, or leaves it alone.
LEMMA LifecycleStep ==
    ASSUME TypeOK, [Next]_vars
    PROVE  [Lifecycle!Next]_(Lifecycle!lifecycleVars)
<1>0. ASSUME NEW id \in Op, timestamps[id] > DONE_TIMESTAMP
      PROVE  phaseOf[id] = "announced" /\ dueOf[id] = timestamps[id]
  BY <1>0 DEF TypeOK, DONE_TIMESTAMP, phaseOf, dueOf, isOperationDone, isOperationPending, getTimestamp
<1>1. CASE UNCHANGED timestamps /\ now' \in {now, now + 1}
  <2>1. UNCHANGED <<phaseOf, dueOf>>
    BY <1>1 DEF phaseOf, dueOf, isOperationDone, isOperationPending, getTimestamp
  <2>2. QED
    BY <1>1, <2>1 DEF Lifecycle!Next, Lifecycle!Pass, Lifecycle!lifecycleVars
<1>2. ASSUME NEW id \in Op, NEW delay \in Delays, timestamps[id] = 0,
             timestamps' = [timestamps EXCEPT ![id] = now + delay], now' = now
      PROVE  Lifecycle!Next
  <2>1. phaseOf[id] = "unset"
    BY <1>2 DEF DONE_TIMESTAMP, phaseOf, isOperationDone, isOperationPending, getTimestamp
  <2>2. delay \in Nat /\ now + delay \in Nat /\ now + delay > DONE_TIMESTAMP
        /\ now + delay # DONE_TIMESTAMP
    BY TimeAssumption DEF TypeOK, DONE_TIMESTAMP
  <2>3. /\ phaseOf' = [phaseOf EXCEPT ![id] = "announced"]
        /\ dueOf' = [dueOf EXCEPT ![id] = now + delay]
    BY <1>2, <2>2, LifecycleUpdate, Zenon
  <2>4. dueOf'[id] = now + delay /\ now + delay >= now
    BY <2>2, <2>3 DEF dueOf, TypeOK
  <2>5. QED
    BY <1>2, <2>1, <2>3, <2>4, Zenon DEF Lifecycle!Next, Lifecycle!Announce
<1>3. ASSUME NEW id \in Op, timestamps[id] > DONE_TIMESTAMP,
             timestamps' = [timestamps EXCEPT ![id] = 0], now' = now
      PROVE  Lifecycle!Next
  <2>1. 0 \in Nat /\ 0 # DONE_TIMESTAMP /\ ~ 0 > DONE_TIMESTAMP
    BY DEF DONE_TIMESTAMP
  <2>2. /\ phaseOf' = [phaseOf EXCEPT ![id] = "unset"]
        /\ dueOf' = [dueOf EXCEPT ![id] = 0]
    BY <1>3, <2>1, LifecycleUpdate, Zenon
  <2>3. QED
    BY <1>0, <1>3, <2>2, Zenon DEF Lifecycle!Next, Lifecycle!Withdraw
<1>4. ASSUME NEW id \in Op, timestamps[id] > DONE_TIMESTAMP, timestamps[id] <= now,
             timestamps' = [timestamps EXCEPT ![id] = DONE_TIMESTAMP], now' = now
      PROVE  Lifecycle!Next
  <2>1. DONE_TIMESTAMP \in Nat /\ ~ DONE_TIMESTAMP > DONE_TIMESTAMP
    BY DEF DONE_TIMESTAMP
  <2>2. /\ phaseOf' = [phaseOf EXCEPT ![id] = "released"]
        /\ dueOf' = [dueOf EXCEPT ![id] = 0]
    BY <1>4, <2>1, LifecycleUpdate, Zenon
  <2>3. QED
    BY <1>0, <1>4, <2>2, Zenon DEF Lifecycle!Next, Lifecycle!Release
<1>5. QED
  BY <1>1, <1>2, <1>3, <1>4, TimestampSteps DEF TimestampStep

\* The timelock implements the lifecycle of operations.
THEOREM ImplementsLifecycle == Spec => LifecycleSpec
<1>1. Init => Lifecycle!Init
  BY DEF Init, Lifecycle!Init, phaseOf, dueOf, isOperationDone, isOperationPending,
     getTimestamp, DONE_TIMESTAMP
<1>2. TypeOK /\ [Next]_vars => [Lifecycle!Next]_(Lifecycle!lifecycleVars)
  BY LifecycleStep
<1>3. QED
  BY <1>1, <1>2, BlockedSelectorsCorrect, PTL DEF Spec, LifecycleSpec, Lifecycle!Spec

=============================================================================
