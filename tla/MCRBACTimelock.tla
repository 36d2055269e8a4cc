--------------------------- MODULE MCRBACTimelock ---------------------------
(* The timelock with one account per role, an operation with a predecessor  *)
(* and two calls, and an admin role and a proposer role that change hands.  *)
EXTENDS RBACTimelock, TLC

CONSTANTS op1, op2

MCRole ==
    {ADMIN_ROLE, PROPOSER_ROLE, CANCELLER_ROLE, EXECUTOR_ROLE, BYPASSER_ROLE, DEFAULT_ADMIN_ROLE}

MCPredecessor == (op1 :> NoPredecessor) @@ (op2 :> op1)
MCSelectors == (op1 :> {}) @@ (op2 :> {0, 7})

Holders(role) ==
    CASE role = ADMIN_ROLE     -> {1}
      [] role = PROPOSER_ROLE  -> {2}
      [] role = CANCELLER_ROLE -> {3}
      [] role = EXECUTOR_ROLE  -> {4}
      [] role = BYPASSER_ROLE  -> {3}
      [] OTHER                 -> {}

\* The initial storage of a deployment: every role under the admin role.
MCRoles ==
    [role \in Role |->
        IF role = DEFAULT_ADMIN_ROLE THEN DefaultRoleData
        ELSE [adminRole |-> ADMIN_ROLE, membersLen |-> Cardinality(Holders(role)),
              hasRole |-> Holders(role)]]

MCRoleChanges == {<<ADMIN_ROLE, 1>>, <<PROPOSER_ROLE, 1>>}

\* A deployment that leaves all roles to Timelock_Init.
NoRoles == [role \in Role |-> DefaultRoleData]

=============================================================================
