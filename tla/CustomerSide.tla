--------------------------- MODULE CustomerSide ---------------------------
(***************************************************************************)
(* What a customer does besides changing titles: pays, signs in, connects  *)
(* Google, sets up a site, uses a key. The parts share no records, so a    *)
(* behaviour is one of Billing or one of another part: `focus` says which. *)
(* Billing's variables rest while another part is in focus; the variables  *)
(* of the others have their own names, some of them used by several parts, *)
(* and those the part in focus does not use hold nothing.                  *)
(***************************************************************************)
EXTENDS Billing

CONSTANTS
    None,                                      \* nobody and nothing
    \* Accounts
    Account, Subjects, BIND_TRIES, MaxCommands,
    \* MobileSignIn
    Mobiles, CODE_LIFETIME, RESEND_AFTER, DAY, SIGNUP_FORM_TIME,
    CODES_PER_DAY, TRIES_PER_CODE, MaxMoment,
    \* GoogleConnection
    Links, LoginLinks, Person, Disconnects,
    \* SiteSettings
    Adapters, MaxWrites,
    \* ApiKeys
    Tenants, Keys, KeyRequests, Commands, Admin, MaxKeyCommands,
    \* Sessions
    SESSION_LIFETIME, IDLE_TIMEOUT, TOUCH_EVERY, GRACE, MaxTime

ASSUME NoneAssumption ==
    None \notin Account \cup Subjects \cup Links \cup LoginLinks \cup Adapters \cup Tenants
ASSUME CodesAssumption ==
    /\ {CODE_LIFETIME, SIGNUP_FORM_TIME, CODES_PER_DAY, TRIES_PER_CODE, MaxMoment} \subseteq Nat
    /\ {RESEND_AFTER, DAY} \subseteq Nat \ {0} /\ RESEND_AFTER <= DAY
    /\ IsFiniteSet(Requests)
ASSUME LinksAssumption == Links \cap LoginLinks = {} /\ Requests \cap Disconnects = {}
ASSUME KeysAssumption == Keys \cap Tenants = {} /\ MaxKeyCommands \in Nat
ASSUME SessionsAssumption ==
    {SESSION_LIFETIME, IDLE_TIMEOUT, TOUCH_EVERY, GRACE, MaxTime} \subseteq Nat

VARIABLES
    focus,
    account, google, tenantActive, session, who, proof, seen, indexSeen, bindTries,
    challenge, accounts, number, signingUp, details, paid, compared, opened,
    link, grant, exchanges, connection, sites, for, googleFaults,
    site, action, sent,
    tenant, key, principal, barred,
    rows, purge, lastSeen, signedOut,
    stage, copy, moment, now, vault, token, command, changes

accountsOnly ==
    <<account, google, tenantActive, session, who, proof, seen, indexSeen, bindTries>>
mobileOnly == <<challenge, accounts, number, signingUp, details, paid, compared, opened>>
googleOnly == <<link, grant, exchanges, connection, sites, for, googleFaults>>
settingsOnly == <<site, action, sent>>
keysOnly == <<tenant, key, principal, barred>>
sessionsOnly == <<rows, purge, lastSeen, signedOut>>
shared == <<stage, copy, moment, now, vault, token, command, changes>>
partVars ==
    <<accountsOnly, mobileOnly, googleOnly, settingsOnly, keysOnly, sessionsOnly, shared>>
customerVars == <<vars, focus, partVars>>
------------------------------------------------------------------------
A == INSTANCE Accounts WITH
    SignIns <- Requests, MaxChanges <- MaxCommands, at <- stage, tries <- bindTries
M == INSTANCE MobileSignIn WITH MaxClock <- MaxMoment, clock <- moment, at <- stage
G == INSTANCE GoogleConnection WITH Callbacks <- Requests, at <- stage, faults <- googleFaults
S == INSTANCE SiteSettings WITH at <- stage
K == INSTANCE ApiKeys WITH
    Requests <- KeyRequests, MaxChanges <- MaxKeyCommands, at <- stage
N == INSTANCE Sessions WITH MaxClock <- MaxTime, clock <- moment, at <- stage
------------------------------------------------------------------------
NoAccounts ==
    /\ account = None /\ google = None /\ tenantActive = None /\ session = None
    /\ who = None /\ proof = None /\ seen = None /\ indexSeen = None /\ bindTries = None
NoMobile ==
    /\ challenge = None /\ accounts = None /\ number = None /\ signingUp = None
    /\ details = None /\ paid = None /\ compared = None /\ opened = None
NoGoogle ==
    /\ link = None /\ grant = None /\ exchanges = None /\ connection = None
    /\ sites = None /\ for = None /\ googleFaults = None
NoSettings == site = None /\ action = None /\ sent = None
NoKeys == tenant = None /\ key = None /\ principal = None /\ barred = None
NoSessions == rows = None /\ purge = None /\ lastSeen = None /\ signedOut = None
NoCommands == command = None /\ changes = None
NoTimes == moment = None /\ now = None

CustomerInit ==
    /\ Init
    /\ \/ focus = "accounts" /\ A!Init /\ NoMobile /\ NoGoogle /\ NoSettings /\ NoKeys
          /\ NoSessions /\ NoTimes /\ copy = None /\ vault = None /\ token = None
       \/ focus = "mobile" /\ M!Init /\ NoAccounts /\ NoGoogle /\ NoSettings /\ NoKeys
          /\ NoSessions /\ NoCommands /\ vault = None /\ token = None
       \/ focus = "google" /\ G!Init /\ NoAccounts /\ NoMobile /\ NoSettings /\ NoKeys
          /\ NoSessions /\ NoTimes /\ NoCommands
       \/ focus = "settings" /\ S!Init /\ NoAccounts /\ NoMobile /\ NoGoogle /\ NoKeys
          /\ NoSessions /\ NoTimes /\ NoCommands /\ token = None
       \/ focus = "keys" /\ K!Init /\ NoAccounts /\ NoMobile /\ NoGoogle /\ NoSettings
          /\ NoSessions /\ NoTimes /\ copy = None /\ vault = None
       \/ focus = "sessions" /\ N!Init /\ NoAccounts /\ NoMobile /\ NoGoogle /\ NoSettings
          /\ NoKeys /\ NoCommands /\ vault = None /\ token = None
       \/ focus = "billing" /\ NoAccounts /\ NoMobile /\ NoGoogle /\ NoSettings /\ NoKeys
          /\ NoSessions /\ NoTimes /\ NoCommands /\ stage = None /\ copy = None
          /\ vault = None /\ token = None
    /\ focus # "billing" => subscription = Trial

\* What rests while a part is in focus.
CustomerNext ==
    \/ focus = "billing" /\ Next /\ UNCHANGED <<focus, partVars>>
    \/ focus = "accounts" /\ A!Next
       /\ UNCHANGED <<vars, focus, mobileOnly, googleOnly, settingsOnly, keysOnly,
                      sessionsOnly, copy, moment, now, vault, token>>
    \/ focus = "mobile" /\ M!Next
       /\ UNCHANGED <<vars, focus, accountsOnly, googleOnly, settingsOnly, keysOnly,
                      sessionsOnly, vault, token, command, changes>>
    \/ focus = "google" /\ G!Next
       /\ UNCHANGED <<vars, focus, accountsOnly, mobileOnly, settingsOnly, keysOnly,
                      sessionsOnly, moment, now, command, changes>>
    \/ focus = "settings" /\ S!Next
       /\ UNCHANGED <<vars, focus, accountsOnly, mobileOnly, googleOnly, keysOnly,
                      sessionsOnly, moment, now, token, command, changes>>
    \/ focus = "keys" /\ K!Next
       /\ UNCHANGED <<vars, focus, accountsOnly, mobileOnly, googleOnly, settingsOnly,
                      sessionsOnly, copy, moment, now, vault>>
    \/ focus = "sessions" /\ N!Next
       /\ UNCHANGED <<vars, focus, accountsOnly, mobileOnly, googleOnly, settingsOnly,
                      keysOnly, vault, token, command, changes>>

CustomerSpec == CustomerInit /\ [][CustomerNext]_customerVars
------------------------------------------------------------------------
(* Every variable of the part in focus keeps its type. *)
TypesOK ==
    /\ TypeOK
    /\ focus = "accounts" => A!TypeOK
    /\ focus = "mobile" => M!TypeOK
    /\ focus = "google" => G!TypeOK
    /\ focus = "settings" => S!TypeOK
    /\ focus = "keys" => K!TypeOK
    /\ focus = "sessions" => N!TypeOK

(* Nobody gets in without a proof that still holds. A session stands on what *)
(* was proved when it was opened, and the index of Google identities says    *)
(* what the accounts say (AccountStore.bind_google, AuthService._open); it   *)
(* counts until the sign-out, and no longer, whatever touches it and purges  *)
(* its rows meanwhile (session_for, RecordPurge.run_round); a request with a *)
(* key acts for the tenant of that very key, which was not revoked nor its   *)
(* tenant suspended before the request came                                  *)
(* (TenantAPIKeyAuthenticator.authenticate).                                 *)
AccessIsProved ==
    /\ focus = "accounts" => A!SessionHasItsProof /\ A!IndexMatchesAccount
    /\ focus = "sessions" => N!SignedOutStaysOut /\ N!SessionIsKept
    /\ focus = "keys" => K!KeyHasItsTenant

(* What may be used once is used once, whatever requests race with it: a     *)
(* code sent by SMS lets one sign-in through, after at most so many          *)
(* comparisons, and no number is sent more than a day's worth of them        *)
(* (OtpService.send, check); a link to Google is exchanged at most once      *)
(* (GoogleOAuthService.complete, GoogleLogin.complete).                      *)
UsedOnce ==
    /\ focus = "mobile" => M!CodeIsOneTime /\ M!SmsBounded
    /\ focus = "google" => G!LinkUsedOnce

(* A token is erased by a disconnection only once Google has revoked it,     *)
(* whatever fails on the way (GoogleOAuthService.disconnect).                *)
RevokedBeforeErased == [][focus = "google" => G!DisconnectStep]_partVars

(* What others have written meanwhile is never written back: the operator's  *)
(* changes of an account by a sign-in that read it before                    *)
(* (AccountStore.update), a setting of a site by a slow request about        *)
(* another one (SiteStore.update).                                           *)
NothingWrittenBack ==
    [][/\ focus = "accounts" => A!AccountStep
       /\ focus = "settings" => S!SettingsStep]_partVars
=============================================================================
