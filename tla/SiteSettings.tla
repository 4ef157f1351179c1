-------------------------- MODULE SiteSettings --------------------------
(***************************************************************************)
(* One site of a customer (app/onboarding/site_store, the site endpoints   *)
(* of app/api/app.py): its adapter and the adapter's credential in the     *)
(* vault, its Search Console property, the proof of ownership, its         *)
(* removal. A request reads the site, asks others, and writes last.        *)
(***************************************************************************)
EXTENDS Naturals, FiniteSets

CONSTANTS
    Adapters,        \* configurations a customer may send, with a credential each
    Requests,
    MaxWrites,       \* bound: writes to the site
    None

VARIABLES
    site,            \* the newest version of the site's record
    vault,           \* the configuration whose credential is stored
    action,          \* one proposed change on the site
    at, copy, sent   \* a request: what it is doing, the site it read, what was sent

request == <<at, copy, sent>>
vars == <<site, vault, action, request>>
------------------------------------------------------------------------
\* gsc: none, through the operator's shared account, or the customer's own grant.
Site == [status : {"active", "removed"}, adapter : Adapters \cup {None},
         gsc : {"none", "shared", "own"}, tag : BOOLEAN, owned : BOOLEAN, stamp : Nat]

New == [status |-> "active", adapter |-> None, gsc |-> "none", tag |-> FALSE,
        owned |-> FALSE, stamp |-> 1]

Writes == {"remove", "adapter", "shared", "own", "tag", "owned"}
UnderWay == {"approved", "executing", "executed"}

Init ==
    /\ site = New /\ vault = None /\ action = "proposed"
    /\ at = [r \in Requests |-> "idle"]
    /\ copy = [r \in Requests |-> New]
    /\ sent = [r \in Requests |-> None]

Answer(r) ==
    /\ at' = [at EXCEPT ![r] = "idle"]
    /\ copy' = [copy EXCEPT ![r] = New]
    /\ sent' = [sent EXCEPT ![r] = None]

\* A request that has read the site, passed its checks and will write.
Begin(r, write, config) ==
    /\ at[r] = "idle"
    /\ site.status = "active"          \* _get_site: a removed site is not found
    /\ site.stamp <= MaxWrites         \* bound
    /\ at' = [at EXCEPT ![r] = write]
    /\ copy' = [copy EXCEPT ![r] = site]
    /\ sent' = [sent EXCEPT ![r] = config]
    /\ UNCHANGED <<site, vault, action>>

\* remove_site: refused while a change is under way.
BeginRemove(r) == action \notin UnderWay /\ Begin(r, "remove", None)

\* configure_site_adapter
BeginAdapter(r) == \E config \in Adapters : Begin(r, "adapter", config)

\* configure_gsc: the shared account needs the proof, the customer's grant does not.
BeginGsc(r) == Begin(r, "own", None) \/ (site.owned /\ Begin(r, "shared", None))

\* get_ownership: the token for the meta tag is made once.
BeginTag(r) == ~site.tag /\ Begin(r, "tag", None)

\* verify_ownership: by the connector, or by the tag on the home page.
BeginVerify(r) == (site.adapter # None \/ site.tag) /\ Begin(r, "owned", None)

\* What it writes, over its copy.
Written(write, old, config) ==
    CASE write = "remove"  -> [old EXCEPT !.status = "removed"]
      [] write = "adapter" -> [old EXCEPT !.adapter = config]
      [] write \in {"own", "shared"} -> [old EXCEPT !.gsc = write]
      [] write = "tag"     -> [old EXCEPT !.tag = TRUE]
      [] write = "owned"   -> [old EXCEPT !.owned = TRUE]

\* Faulty variant: whatever has been written since is written over.
WriteOver(r) ==
    /\ at[r] # "idle"
    /\ site' = [Written(at[r], copy[r], sent[r]) EXCEPT !.stamp = @ + 1]
    /\ vault' = IF at[r] = "adapter" THEN sent[r] ELSE vault
    /\ Answer(r)
    /\ UNCHANGED action

\* SiteStore.update: refused if the site has been written since. The credential is
\* stored in the same transaction.
Write(r) ==
    /\ at[r] # "idle"
    /\ site.stamp = copy[r].stamp
    /\ site' = [Written(at[r], copy[r], sent[r]) EXCEPT !.stamp = @ + 1]
    /\ vault' = IF at[r] = "adapter" THEN sent[r] ELSE vault
    /\ Answer(r)
    /\ UNCHANGED action

Refused(r) ==
    /\ at[r] # "idle"
    /\ site.stamp # copy[r].stamp
    /\ Answer(r)
    /\ UNCHANGED <<site, vault, action>>

\* A check fails: Google cannot read the property, no proof is found, the adapter
\* cannot be built.
CheckFails(r) ==
    /\ at[r] \notin {"idle", "remove", "tag"}
    /\ Answer(r)
    /\ UNCHANGED <<site, vault, action>>
------------------------------------------------------------------------
\* approve_action: the site is connected and not removed.
Approve ==
    /\ action = "proposed" /\ site.status = "active" /\ site.adapter # None
    /\ action' = "approved"
    /\ UNCHANGED <<site, vault, request>>

\* The worker builds the adapter from the site as it is then, ...
Take ==
    /\ action = "approved"
    /\ action' = "executing"
    /\ UNCHANGED <<site, vault, request>>

\* ... with the credential the vault holds.
CarryOut ==
    /\ action = "executing"
    /\ action' = "executed"
    /\ UNCHANGED <<site, vault, request>>

\* Measured, or undone.
Settle ==
    /\ action = "executed"
    /\ action' = "settled"
    /\ UNCHANGED <<site, vault, request>>

Next ==
    \/ \E r \in Requests :
          \/ BeginRemove(r) \/ BeginAdapter(r) \/ BeginGsc(r) \/ BeginTag(r) \/ BeginVerify(r)
          \/ Write(r) \/ Refused(r) \/ CheckFails(r)
    \/ Approve \/ Take \/ CarryOut \/ Settle

Spec == Init /\ [][Next]_vars
------------------------------------------------------------------------
(* Every variable keeps its type. *)
TypeOK ==
    /\ site \in Site /\ vault \in Adapters \cup {None}
    /\ action \in {"proposed", "approved", "executing", "executed", "settled"}
    /\ at \in [Requests -> Writes \cup {"idle"}]
    /\ copy \in [Requests -> Site]
    /\ sent \in [Requests -> Adapters \cup {None}]

(* A slow request never puts older settings back: one write changes one      *)
(* setting, a removed site stays removed, a proof is never lost, and the     *)
(* credential is always the one sent with the adapter's configuration        *)
(* (SiteStore.update, configure_site_adapter).                               *)
SettingsStep ==
    /\ vault' = site'.adapter
    /\ site' # site =>
         /\ \E write \in Writes, config \in Adapters \cup {None} :
               site' = [Written(write, site, config) EXCEPT !.stamp = site.stamp + 1]
         /\ site.status = "active"
         /\ site'.gsc = "shared" => site'.owned

SettingsKept == [][SettingsStep]_vars

(* "A change on this site is still under way; let it finish or undo it       *)
(* first" (remove_site): a removed site has no change under way.             *)
RemovedIsIdle == site.status = "removed" => action \notin UnderWay
========================================================================
