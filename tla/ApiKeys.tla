----------------------------- MODULE ApiKeys -----------------------------
(***************************************************************************)
(* Tenants and the keys that speak for them (app/tenants.py, app/tenancy,  *)
(* app/api/auth.py): the operator's commands, two of which may run at      *)
(* once, and the requests that present a key meanwhile. A save over the    *)
(* version that was read is one step, refused when the record has moved.   *)
(***************************************************************************)
EXTENDS Integers, FiniteSets

CONSTANTS
    Tenants, Keys,   \* ids that may be created
    Requests, Commands,
    MaxChanges,      \* bound: the commands the operator gives
    Admin,           \* the principal of the key in the configuration
    None

VARIABLES
    tenant,          \* tenant[t]: the newest version of its record
    key,             \* key[k]: the newest version of its record
    command,         \* command[c]: one command under way
    changes,
    at, token,       \* where each request is, and what it presents
    principal,       \* whom it was let through as, or is about to be
    barred           \* the keys revoked, the tenants suspended when it came

records == <<tenant, key>>
request == <<at, token, principal, barred>>
vars == <<records, command, changes, request>>
------------------------------------------------------------------------
\* The hash of a key id and a secret. A key is issued with a secret of its own,
\* which is named like the key.
Digest(k, secret) == <<k, secret>>

NoTenant == [status |-> "absent", version |-> 0]
NoKey == [tenant |-> None, active |-> FALSE, digest |-> None, version |-> 0]
NoCommand == [at |-> "idle", tenant |-> None, key |-> None, status |-> "active", version |-> 0]

\* Shaped like a key, or only good for a comparison with the configured one.
Shaped == [id : Keys, secret : Keys]
Configured == [id |-> None, secret |-> Admin]
Other == [id |-> None, secret |-> None]
Presented == Shaped \cup {Configured, Other}

Init ==
    /\ tenant = [t \in Tenants |-> NoTenant]
    /\ key = [k \in Keys |-> NoKey]
    /\ command = [c \in Commands |-> NoCommand]
    /\ changes = 0
    /\ at = [r \in Requests |-> "idle"]
    /\ token = [r \in Requests |-> Other]
    /\ principal = [r \in Requests |-> None]
    /\ barred = [r \in Requests |-> {}]

Barred ==
    {k \in Keys : key[k] # NoKey /\ ~key[k].active}
        \cup {t \in Tenants : tenant[t].status = "suspended"}
------------------------------------------------------------------------
\* The operator's commands.
Give(c, given) ==
    /\ command[c].at = "idle" /\ changes < MaxChanges
    /\ changes' = changes + 1
    /\ command' = [command EXCEPT ![c] = given]
Step(c, given) == command' = [command EXCEPT ![c] = given] /\ UNCHANGED changes
Done(c) == Step(c, NoCommand)

\* create: the tenant, and then its first key unless --no-key.
CreateTenant(c, t) ==
    /\ tenant[t] = NoTenant
    /\ \E next \in {"issue", "idle"} :
          Give(c, [NoCommand EXCEPT !.at = next, !.tenant = IF next = "issue" THEN t ELSE None])
    /\ tenant' = [tenant EXCEPT ![t] = [status |-> "active", version |-> 1]]
    /\ UNCHANGED <<key, request>>

\* issue-key, for a tenant that exists.
FindForKey(c, t) ==
    /\ tenant[t] # NoTenant
    /\ Give(c, [NoCommand EXCEPT !.at = "issue", !.tenant = t])
    /\ UNCHANGED <<records, request>>

Issue(c, k) ==
    /\ command[c].at = "issue" /\ key[k] = NoKey
    /\ key' = [key EXCEPT ![k] = [tenant |-> command[c].tenant, active |-> TRUE,
                                  digest |-> Digest(k, k), version |-> 1]]
    /\ Done(c)
    /\ UNCHANGED <<tenant, request>>

\* revoke-key finds the key, reads it again, and leaves a revoked one alone.
FindKeyToRevoke(c, k) ==
    /\ key[k] # NoKey
    /\ Give(c, [NoCommand EXCEPT !.at = "revoke", !.key = k])
    /\ UNCHANGED <<records, request>>

ReadKey(c) ==
    LET k == command[c].key IN
    /\ command[c].at = "revoke"
    /\ IF key[k].active
       THEN Step(c, [command[c] EXCEPT !.at = "revoked", !.version = key[k].version])
       ELSE Done(c)
    /\ UNCHANGED <<records, request>>

Revoke(c) ==
    LET k == command[c].key IN
    /\ command[c].at = "revoked"
    /\ key' = IF key[k].version = command[c].version
              THEN [key EXCEPT ![k].active = FALSE, ![k].version = @ + 1] ELSE key
    /\ Done(c)
    /\ UNCHANGED <<tenant, request>>

\* suspend and activate find the tenant, read its version and save the status.
FindTenant(c, t, status) ==
    /\ tenant[t] # NoTenant
    /\ Give(c, [NoCommand EXCEPT !.at = "update", !.tenant = t, !.status = status])
    /\ UNCHANGED <<records, request>>

ReadTenant(c) ==
    /\ command[c].at = "update"
    /\ Step(c, [command[c] EXCEPT !.at = "save", !.version = tenant[command[c].tenant].version])
    /\ UNCHANGED <<records, request>>

SaveTenant(c) ==
    LET t == command[c].tenant
        status == command[c].status
    IN
    /\ command[c].at = "save"
    /\ IF tenant[t].version = command[c].version
       THEN /\ tenant' = [tenant EXCEPT ![t] = [status |-> status, version |-> @.version + 1]]
            /\ barred' = [r \in Requests |->
                  IF status = "active" THEN barred[r] \ {t} ELSE barred[r]]
       ELSE UNCHANGED <<tenant, barred>>
    /\ Done(c)
    /\ UNCHANGED <<key, at, token, principal>>

\* The operator's shell ends between two steps of a command.
Interrupt(c) ==
    /\ command[c].at # "idle"
    /\ Done(c)
    /\ UNCHANGED <<records, request>>
------------------------------------------------------------------------
\* A request comes in with a bearer token.
Present(r, presented) ==
    /\ at[r] = "idle"
    /\ token' = [token EXCEPT ![r] = presented]
    /\ barred' = [barred EXCEPT ![r] = Barred]
    /\ at' = [at EXCEPT ![r] = "key"]
    /\ UNCHANGED <<records, command, changes, principal>>

To(r, place, whom) ==
    /\ at' = [at EXCEPT ![r] = place]
    /\ principal' = [principal EXCEPT ![r] = whom]
    /\ UNCHANGED <<records, command, changes, token, barred>>

\* One that is not shaped like a key is compared with the configured one.
CompareConfigured(r) ==
    /\ at[r] = "key"
    /\ \/ token[r] = Configured /\ To(r, "in", Admin)
       \/ token[r] = Other /\ To(r, "refused", None)

\* The stored hash is of this key id and this secret.
Matches(k, secret) == key[k].digest = Digest(k, secret)

\* The record is found by the key's id; one message for every refusal.
LookUp(r) ==
    /\ at[r] = "key" /\ token[r] \in Shaped
    /\ LET k == token[r].id IN
       IF key[k].active /\ Matches(k, token[r].secret)
       THEN To(r, "tenant", key[k].tenant)
       ELSE To(r, "refused", None)

\* And its tenant must exist and be active.
CheckTenant(r) ==
    /\ at[r] = "tenant"
    /\ IF tenant[principal[r]].status = "active"
       THEN To(r, "in", principal[r]) ELSE To(r, "refused", None)

Answer(r) ==
    /\ at[r] \in {"in", "refused"}
    /\ at' = [at EXCEPT ![r] = "idle"]
    /\ token' = [token EXCEPT ![r] = Other]
    /\ principal' = [principal EXCEPT ![r] = None]
    /\ barred' = [barred EXCEPT ![r] = {}]
    /\ UNCHANGED <<records, command, changes>>

Next ==
    \/ \E c \in Commands :
          \/ \E t \in Tenants :
                \/ CreateTenant(c, t) \/ FindForKey(c, t)
                \/ \E status \in {"suspended", "active"} : FindTenant(c, t, status)
          \/ \E k \in Keys : Issue(c, k) \/ FindKeyToRevoke(c, k)
          \/ ReadKey(c) \/ Revoke(c) \/ ReadTenant(c) \/ SaveTenant(c) \/ Interrupt(c)
    \/ \E r \in Requests :
          \/ \E presented \in Presented : Present(r, presented)
          \/ CompareConfigured(r) \/ LookUp(r) \/ CheckTenant(r) \/ Answer(r)

Spec == Init /\ [][Next]_vars
------------------------------------------------------------------------
(* Every variable keeps its type. *)
TypeOK ==
    /\ tenant \in [Tenants -> [status : {"absent", "active", "suspended"}, version : Nat]]
    /\ \A k \in Keys : key[k] = NoKey \/ key[k].tenant \in Tenants
    /\ \A c \in Commands : command[c].at \in
          {"idle", "issue", "revoke", "revoked", "update", "save"}
    /\ changes \in 0..MaxChanges
    /\ at \in [Requests -> {"idle", "key", "tenant", "in", "refused"}]
    /\ token \in [Requests -> Presented]
    /\ principal \in [Requests -> Tenants \cup {Admin, None}]
    /\ barred \in [Requests -> SUBSET (Keys \cup Tenants)]

(* A request is let through only as the tenant of the key whose id and       *)
(* secret it presents, and never by a key that was revoked before it came    *)
(* ("It stops working on the next request", app/tenants.py) or for a tenant  *)
(* suspended since before it came, however commands and requests interleave  *)
(* (TenantAPIKeyAuthenticator.authenticate).                                 *)
KeyHasItsTenant ==
    \A r \in Requests : at[r] = "in" =>
        \/ token[r] = Configured /\ principal[r] = Admin
        \/ /\ token[r] \in Shaped /\ token[r].id = token[r].secret
           /\ principal[r] = key[token[r].id].tenant
           /\ {token[r].id, principal[r]} \cap barred[r] = {}
========================================================================
