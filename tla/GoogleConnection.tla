------------------------ MODULE GoogleConnection ------------------------
(***************************************************************************)
(* A tenant's sign-ins with Google (app/onboarding/google_oauth, app/      *)
(* accounts/google_login): links that are used once, the grant Google      *)
(* gives, the vault that holds its token, and the disconnection.           *)
(***************************************************************************)
EXTENDS Naturals, FiniteSets

CONSTANTS
    Links,           \* links started by the tenant to connect Search Console
    LoginLinks,      \* links started by a visitor to sign in
    Person,          \* Person[l]: whose Google account answers link l
    Callbacks,       \* requests Google's redirect makes, or a replay of it
    Disconnects,     \* requests to disconnect
    MaxFaults,       \* bound: answers of Google that are refusals or are lost
    None

VARIABLES
    link,            \* link[l]: the state record of a link
    grant,           \* grant[l]: the token Google issued for link l
    exchanges,       \* how often link l was exchanged for a token
    vault,           \* the token held, None once erased
    connection,      \* the tenant's connection record
    sites,           \* sites that read Search Console through the grant
    at, for, copy,   \* a request: where it is, its link, the version it read
    token,           \* what a disconnection took from the vault
    faults

request == <<at, for, copy, token>>
vars == <<link, grant, exchanges, vault, connection, sites, request, faults>>
------------------------------------------------------------------------
AllLinks == Links \cup LoginLinks
HttpRequests == Callbacks \cup Disconnects

LinkState == [step : {"none", "started", "begun", "used"}, version : Nat]
Connection == [live : BOOLEAN, version : Nat]

Places == {"idle", "spend", "exchange", "put", "connect", "take", "revoke", "erase", "save", "detach"}

Init ==
    /\ link = [l \in AllLinks |-> [step |-> "none", version |-> 0]]
    /\ grant = [l \in AllLinks |-> "none"]
    /\ exchanges = [l \in AllLinks |-> 0]
    /\ vault = None
    /\ connection = [live |-> FALSE, version |-> 0]
    /\ sites = FALSE
    /\ at = [r \in HttpRequests |-> "idle"]
    /\ for = [r \in HttpRequests |-> None]
    /\ copy = [r \in HttpRequests |-> 0]
    /\ token = [r \in HttpRequests |-> None]
    /\ faults = 0

Goto(r, place) ==
    /\ at' = [at EXCEPT ![r] = place]
    /\ IF place = "idle"
       THEN /\ for' = [for EXCEPT ![r] = None] /\ copy' = [copy EXCEPT ![r] = 0]
            /\ token' = [token EXCEPT ![r] = None]
       ELSE UNCHANGED <<for, copy, token>>

Fault == faults < MaxFaults /\ faults' = faults + 1
------------------------------------------------------------------------
\* start: of either flow.
Start(l) ==
    /\ link[l].step = "none"
    /\ link' = [link EXCEPT ![l] = [step |-> "started", version |-> 1]]
    /\ UNCHANGED <<grant, exchanges, vault, connection, sites, request, faults>>

\* begin: the page that names the tenant sends its browser to Google, once. A
\* second press at the same moment is refused by the version.
Begin(l) ==
    /\ l \in Links /\ link[l].step = "started"
    /\ link' = [link EXCEPT ![l] = [step |-> "begun", version |-> @.version + 1]]
    /\ UNCHANGED <<grant, exchanges, vault, connection, sites, request, faults>>

MayComplete(l) == link[l].step = (IF l \in Links THEN "begun" ELSE "started")

\* complete: a browser comes back with the link's cookie; the state is read.
Return(c, l) ==
    /\ at[c] = "idle" /\ MayComplete(l)
    /\ at' = [at EXCEPT ![c] = "spend"]
    /\ for' = [for EXCEPT ![c] = l]
    /\ copy' = [copy EXCEPT ![c] = link[l].version]
    /\ UNCHANGED <<link, grant, exchanges, vault, connection, sites, token, faults>>

\* Spent over the version that was read, before anything else.
Spend(c) ==
    /\ at[c] = "spend"
    /\ IF link[for[c]].version = copy[c]
       THEN /\ link' = [link EXCEPT ![for[c]] = [step |-> "used", version |-> @.version + 1]]
            /\ Goto(c, "exchange")
       ELSE Goto(c, "idle") /\ UNCHANGED link
    /\ UNCHANGED <<grant, exchanges, vault, connection, sites, faults>>

\* Faulty variant: the callback of a sign-in stores what it got as a connection.
ExchangeAlike(c) ==
    /\ at[c] = "exchange"
    /\ exchanges' = [exchanges EXCEPT ![for[c]] = @ + 1]
    /\ grant' = [grant EXCEPT ![for[c]] = "live"]
    /\ Goto(c, "put")
    /\ UNCHANGED <<link, vault, connection, sites, faults>>

\* Google exchanges the code for a token, or an identity.
Exchange(c) ==
    LET l == for[c] IN
    /\ at[c] = "exchange"
    /\ exchanges' = [exchanges EXCEPT ![l] = @ + 1]
    /\ IF l \in Links
       THEN /\ grant' = [grant EXCEPT ![l] = "live"]
            /\ Goto(c, "put")
       ELSE Goto(c, "idle") /\ UNCHANGED grant
    /\ UNCHANGED <<link, vault, connection, sites, faults>>

\* The person said no, or Google refuses the exchange.
ExchangeRefused(c) ==
    /\ at[c] = "exchange" /\ Fault
    /\ Goto(c, "idle")
    /\ UNCHANGED <<link, grant, exchanges, vault, connection, sites>>

PutToken(c) ==
    /\ at[c] = "put"
    /\ vault' = for[c]
    /\ Goto(c, "connect")
    /\ UNCHANGED <<link, grant, exchanges, connection, sites, faults>>

\* _save_connection writes over whatever version is there.
Connect(c) ==
    /\ at[c] = "connect"
    /\ connection' = [live |-> TRUE, version |-> connection.version + 1]
    /\ Goto(c, "idle")
    /\ UNCHANGED <<link, grant, exchanges, vault, sites, faults>>

\* configure_gsc takes the tenant's own grant while it is connected.
ConfigureSite ==
    /\ connection.live /\ vault # None
    /\ sites' = TRUE
    /\ UNCHANGED <<link, grant, exchanges, vault, connection, request, faults>>
------------------------------------------------------------------------
\* disconnect: the connection is read; without one only the sites are left to do.
BeginDisconnect(d) ==
    /\ at[d] = "idle"
    /\ Goto(d, IF connection.live THEN "take" ELSE "detach")
    /\ UNCHANGED <<link, grant, exchanges, vault, connection, sites, faults>>

\* The token is taken from the vault; a value that is gone needs no revoking.
TakeToken(d) ==
    /\ at[d] = "take"
    /\ token' = [token EXCEPT ![d] = vault]
    /\ at' = [at EXCEPT ![d] = IF vault = None THEN "erase" ELSE "revoke"]
    /\ UNCHANGED <<link, grant, exchanges, vault, connection, sites, for, copy, faults>>

\* Google ends all the person has granted, or the disconnection ends here.
Revoke(d) ==
    /\ at[d] = "revoke"
    /\ grant' = [l \in AllLinks |->
          IF grant[l] = "live" /\ Person[l] = Person[token[d]] THEN "revoked" ELSE grant[l]]
    /\ Goto(d, "erase")
    /\ UNCHANGED <<link, exchanges, vault, connection, sites, faults>>

\* Faulty variant: a revocation that failed is forgotten, and the token erased.
RevokeFailsErases(d) ==
    /\ at[d] = "revoke" /\ Fault
    /\ Goto(d, "erase")
    /\ UNCHANGED <<link, grant, exchanges, vault, connection, sites>>

RevokeFails(d) ==
    /\ at[d] = "revoke" /\ Fault
    /\ Goto(d, "idle")
    /\ UNCHANGED <<link, grant, exchanges, vault, connection, sites>>

\* What the vault holds now is erased.
Erase(d) ==
    /\ at[d] = "erase"
    /\ vault' = None
    /\ Goto(d, "save")
    /\ UNCHANGED <<link, grant, exchanges, connection, sites, faults>>

SaveDisconnected(d) ==
    /\ at[d] = "save"
    /\ connection' = [live |-> FALSE, version |-> connection.version + 1]
    /\ Goto(d, "detach")
    /\ UNCHANGED <<link, grant, exchanges, vault, sites, faults>>

\* The site is detached while no connection is live, which is looked at again.
Detach(d) ==
    /\ at[d] = "detach"
    /\ sites' = (sites /\ connection.live)
    /\ Goto(d, "idle")
    /\ UNCHANGED <<link, grant, exchanges, vault, connection, faults>>

Next ==
    \/ \E l \in AllLinks : Start(l) \/ Begin(l)
    \/ \E c \in Callbacks :
          \/ Spend(c) \/ Exchange(c) \/ ExchangeRefused(c) \/ PutToken(c) \/ Connect(c)
          \/ \E l \in AllLinks : Return(c, l)
    \/ ConfigureSite
    \/ \E d \in Disconnects :
          \/ BeginDisconnect(d) \/ TakeToken(d) \/ Revoke(d) \/ RevokeFails(d)
          \/ Erase(d) \/ SaveDisconnected(d) \/ Detach(d)

Spec == Init /\ [][Next]_vars
------------------------------------------------------------------------
(* Every variable keeps its type. *)
TypeOK ==
    /\ link \in [AllLinks -> LinkState]
    /\ grant \in [AllLinks -> {"none", "live", "revoked"}]
    /\ exchanges \in [AllLinks -> Nat]
    /\ vault \in Links \cup {None}
    /\ connection \in Connection
    /\ sites \in BOOLEAN
    /\ at \in [HttpRequests -> Places] /\ for \in [HttpRequests -> AllLinks \cup {None}]
    /\ copy \in [HttpRequests -> Nat] /\ token \in [HttpRequests -> Links \cup {None}]
    /\ faults \in 0..MaxFaults

(* However often the browser comes back, and in however many requests at     *)
(* once, a link is exchanged at most once, and only after it has begun       *)
(* (GoogleOAuthService.complete, GoogleLogin.complete).                      *)
LinkUsedOnce ==
    \A l \in AllLinks :
        exchanges[l] <= 1 /\ (exchanges[l] = 1 => link[l].step = "used")

(* The token a disconnection took is revoked at Google before it is erased,  *)
(* whatever fails on the way and however many disconnections there are       *)
(* (GoogleOAuthService.disconnect).                                          *)
DisconnectStep ==
    \A d \in Disconnects :
        vault # None /\ vault' = None /\ at[d] = "erase" /\ vault = token[d]
            => grant[vault] = "revoked"

RevokedBeforeErased == [][DisconnectStep]_vars

(* "erasing it would leave a grant Google still honours and that nobody can  *)
(* revoke" (GoogleOAuthService.disconnect): whatever is erased is revoked.   *)
ErasedIsRevoked ==
    [][vault # None /\ vault' = None => grant[vault] = "revoked"]_vars
========================================================================
