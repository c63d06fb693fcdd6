---------------------------- MODULE TenantSettings ----------------------------
(***************************************************************************)
(* The settings of a tenant: POST /tenants and PUT /tenants/me as          *)
(* TenantService serves them.  Update reads the row, puts the fields the   *)
(* request names into its copy, checking each, and writes every column     *)
(* back in a second statement.                                             *)
(*                                                                         *)
(* PUT /tenants/me is modelled behind Auth, where the handlers' tests      *)
(* mount it (endpoint_test.go, lines 148-153); router.go mounts /tenants   *)
(* outside of Auth, so in the deployed server it only ever answers 401.    *)
(* Names, keys and times are left out.                                     *)
(***************************************************************************)
EXTENDS Integers

CONSTANTS
    Tenants,
    Fields,             \* the settings watched
    Updates,            \* the PUT /tenants/me requests served at the same time
    Asked,              \* the numbers requests put into the three settings
    DefaultRate,        \* rate_limit_per_minute where POST has 0: 1000 in the code
    DefaultRetries,     \* max_retries where POST has 0: 5
    MaxRetries,         \* the largest max_retries: 10
    DefaultBase,        \* retry_base_ms where POST has 0: 1000
    MinBase,            \* the smallest retry_base_ms: 100
    MaxColumn           \* the largest INTEGER of PostgreSQL

ASSUME SettingsAssumption ==
    /\ Fields \subseteq {"rate_limit", "max_retries", "retry_base"} /\ "retry_base" \in Fields
    /\ Asked \subseteq Int
    /\ {DefaultRate, DefaultRetries, MaxRetries} \subseteq Nat
    /\ {DefaultBase, MinBase, MaxColumn} \subseteq Nat \ {0}
    /\ {DefaultRate, DefaultRetries, DefaultBase} \subseteq 0..MaxColumn
    /\ DefaultRetries <= MaxRetries
    /\ MinBase <= DefaultBase

VARIABLES
    settings,   \* the tenants table, NoTenant before the INSERT
    update      \* what a PUT holds between its SELECT and its UPDATE

settingsVars == <<settings, update>>

Default ==
    [f \in Fields |-> CASE f = "rate_limit"  -> DefaultRate
                        [] f = "max_retries" -> DefaultRetries
                        [] f = "retry_base"  -> DefaultBase]

\* domain.UpdateTenantInput: the fields a request names, with their new contents.
Inputs == UNION {[named -> Asked] : named \in SUBSET Fields}

NoTenant == [f \in {} |-> 0]
NoUpdate == [stage |-> "none"]
Held     == [stage : {"read"}, tenant : Tenants, seen : [Fields -> Int], input : Inputs]

SettingsTypeOK ==
    /\ settings \in [Tenants -> [Fields -> Int] \cup {NoTenant}]
    /\ update \in [Updates -> Held \cup {NoUpdate}]

SettingsInit ==
    /\ settings = [t \in Tenants |-> NoTenant]
    /\ update = [u \in Updates |-> NoUpdate]

Registered(t) == settings[t] # NoTenant

\* What an update may put into a setting.
Accepted(f, n) ==
    CASE f = "rate_limit"  -> n >= 0
      [] f = "max_retries" -> n >= 0 /\ n <= MaxRetries
      [] f = "retry_base"  -> n >= MinBase

\* CreateTenantInput.Validate lets a 0 stand for "the default" in every setting.
Validate(input) == \A f \in Fields : input[f] = 0 \/ Accepted(f, input[f])

\* Mutant of WithDefaults: the retry base is stored as it came.
WithTwoDefaults(input) ==
    [f \in Fields |-> IF input[f] = 0 /\ f # "retry_base" THEN Default[f] ELSE input[f]]

WithDefaults(input) == [f \in Fields |-> IF input[f] = 0 THEN Default[f] ELSE input[f]]

\* Every setting fits an INTEGER column; otherwise the statement fails.
Fits(row) == \A f \in Fields : row[f] <= MaxColumn

\* TenantService.Create: the INSERT of a validated request.
CreateTenant(t) ==
    /\ ~Registered(t)
    /\ \E input \in [Fields -> Asked] :
          /\ Validate(input)
          /\ Fits(WithDefaults(input))
          /\ settings' = [settings EXCEPT ![t] = WithDefaults(input)]
    /\ UNCHANGED update

\* Mutant of Acceptable: 0 stands for something in an update too.
AcceptableOrZero(input) == \A f \in DOMAIN input : input[f] = 0 \/ Accepted(f, input[f])

Acceptable(input) == \A f \in DOMAIN input : Accepted(f, input[f])

\* TenantService.Update: GetByID, after which every field the request names is checked;
\* a request that names another value ends there.
BeginUpdate(u, t) ==
    /\ update[u] = NoUpdate
    /\ Registered(t)
    /\ \E input \in Inputs :
          /\ Acceptable(input)
          /\ update' = [update EXCEPT ![u] = [stage |-> "read", tenant |-> t,
                                              seen |-> settings[t], input |-> input]]
    /\ UNCHANGED settings

\* The row an update writes: what it names, and the rest as it was read.
Merged(input, seen) == [f \in Fields |-> IF f \in DOMAIN input THEN input[f] ELSE seen[f]]

\* UPDATE of all columns WHERE id.
FinishUpdate(u) ==
    /\ update[u] # NoUpdate
    /\ LET row == Merged(update[u].input, update[u].seen) IN
         /\ Fits(row)
         /\ settings' = [settings EXCEPT ![update[u].tenant] = row]
    /\ update' = [update EXCEPT ![u] = NoUpdate]

\* The UPDATE fails (500), the client hangs up, or the replica dies.
AbandonUpdate(u) ==
    /\ update[u] # NoUpdate
    /\ update' = [update EXCEPT ![u] = NoUpdate]
    /\ UNCHANGED settings

SettingsNext ==
    \/ \E t \in Tenants : CreateTenant(t)
    \/ \E u \in Updates : (\E t \in Tenants : BeginUpdate(u, t)) \/ FinishUpdate(u) \/ AbandonUpdate(u)

(***************************************************************************)
(* Properties.                                                             *)
(***************************************************************************)

\* Whatever requests overlap, a tenant's row only ever holds settings the validations
\* accept, although CreateTenantInput.Validate lets zeros pass and Update checks the
\* named fields alone.
Settled(row) == \A f \in Fields : Accepted(f, row[f]) /\ row[f] <= MaxColumn
SettingsAreAccepted == \A t \in Tenants : Registered(t) => Settled(settings[t])

(***************************************************************************)
(* The inductive invariant behind SettingsAreAccepted.                     *)
(***************************************************************************)
SettingsInv ==
    /\ SettingsTypeOK
    /\ SettingsAreAccepted
    /\ \A u \in Updates : update[u] # NoUpdate => /\ Registered(update[u].tenant)
                                                  /\ Settled(update[u].seen)
                                                  /\ Acceptable(update[u].input)
==============================================================================
