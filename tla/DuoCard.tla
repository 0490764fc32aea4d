------------------------------ MODULE DuoCard ------------------------------
(***************************************************************************)
(* The Duo card of one POD (duo_run_card): twelve steps a dashboard thread *)
(* runs in order.  They drive four consoles: the Duo tenant dCloud built   *)
(* for the running session, the Secure Access org that outlives sessions,  *)
(* the authentication proxy on the POD's AD1 and the login page on its     *)
(* jump host.  What they learn goes into one org_credentials row, keyed by *)
(* the SCC org, which also outlives sessions: its Duo columns may describe *)
(* a tenant that is gone.  Tenants are numbered in the order dCloud builds *)
(* them, and 0 is a blank column or an object that does not exist.         *)
(***************************************************************************)
EXTENDS Integers, SequencesExt

CONSTANTS
    MaxTenant,   \* bound: Duo tenants dCloud builds
    MaxRuns,     \* bound: runs of the card
    MaxFaults,   \* bound: calls that fail in one run of it
    FromSteps,   \* the steps an operator starts a run from
    Leftovers    \* what an earlier session may have left in the row

Order == <<"bootstrap", "org_setup", "authproxy_push", "ad_sync", "saml_scim_config",
           "authproxy_enroll", "scim_push", "sso_saml", "sso_authsource", "mfa_policy",
           "sso_test", "verify">>
StepNames == ToSet(Order)
Fatal     == {"bootstrap", "org_setup", "authproxy_push"}

Tenants == 0..MaxTenant
Columns == {"url", "api", "admin", "totp", "app", "rad", "cfg", "sso"}

\* Mutant: the operator's proxy file is thought to outlive its tenant.
SessionScoped_KeepsFile == Columns \ {"url", "cfg"}

\* The columns a new Duo tenant makes worthless, and those of them that are the
\* only way back into an account that can be activated once.
SessionScoped == Columns \ {"url"}
AdminLogin    == {"admin"}

ASSUME DuoCardAssumption ==
    /\ MaxTenant \in Nat \ {0} /\ MaxRuns \in Nat /\ MaxFaults \in Nat
    /\ FromSteps \subseteq StepNames
    /\ Leftovers \subseteq [Columns -> Tenants]

VARIABLES
    tenant,  \* the Duo tenant of the running dCloud session
    url,     \* the session's iDAC URL, named for the first tenant that was behind it
    built,   \* what has been configured in that tenant
    sa,      \* Secure Access: a live directory, whose users it holds, where its SSO points
    ad1,     \* authproxy.cfg on AD1, and whether the service runs
    page,    \* the tenant the jump host's login page is for
    creds,   \* the org_credentials row: the tenant each Duo column belongs to
    token,   \* sa_scim_token: blank, of a live directory, of one that is gone
    dead,    \* _PASSKEY_LOGIN_DEAD: no further passkey login is tried
    steps,   \* duo_steps
    card,    \* the thread running the card
    runs

duoVars == <<tenant, url, built, sa, ad1, page, creds, token, dead, steps, card, runs>>
lab  == <<built, sa, ad1, page>>   \* everything outside the dashboard

DuoParts == {"passkey", "stranded", "apiApp", "token", "dirsync", "users", "app", "trust",
             "made", "source", "joined", "noMfa"}
\* A part that is not in Duo: "stranded" remembers that the passkey is enrolled, and that the
\* row missed its account or the API keys made with it, or was cleared of them.
FreshDuo == [p \in DuoParts |-> FALSE]
FreshAd1 == [cloud |-> 0, sync |-> FALSE, sso |-> 0, running |-> TRUE]

Phases == {"off", "scope", "activate", "enrol", "store", "login", "keep", "create", "totp", "publish",
           "sync", "app", "prune", "sp", "idp", "mint", "done"} \cup StepNames

Idle == [pc |-> "off", from |-> "bootstrap", ok |-> TRUE, clean |-> TRUE, asked |-> TRUE, faults |-> 0, known |-> FALSE,
         began |-> 1, needs |-> FALSE, had |-> FALSE, api |-> 0, tok |-> "blank",
         at |-> 0, idac |-> 0, step |-> "bootstrap"]

ScimTokens == {"blank", "live", "gone"}
Cards == [pc : Phases, from : StepNames, ok : BOOLEAN, clean : BOOLEAN, asked : BOOLEAN,
          faults : Nat, known : BOOLEAN, began : 1..MaxTenant, needs : BOOLEAN,
          had : BOOLEAN, api : Tenants, tok : ScimTokens, at : Tenants, idac : Tenants,
          step : StepNames]

DuoTypeOK ==
    /\ tenant \in 1..MaxTenant /\ url \in 1..MaxTenant
    /\ built \in [DuoParts -> BOOLEAN]
    /\ sa \in [dir : BOOLEAN, users : SUBSET (1..MaxTenant), idp : Tenants]
    /\ ad1 \in [cloud : Tenants, sync : BOOLEAN, sso : Tenants, running : BOOLEAN]
    /\ page \in Tenants /\ creds \in [Columns -> Tenants]
    /\ token \in ScimTokens /\ dead \in BOOLEAN
    /\ steps \in [StepNames -> {"absent", "running", "completed", "failed"}]
    /\ card \in Cards /\ card.faults <= MaxFaults
    /\ runs \in 0..MaxRuns

DuoInit ==
    /\ tenant = 1 /\ url = 1 /\ built = FreshDuo
    /\ sa = [dir |-> FALSE, users |-> {}, idp |-> 0]
    /\ ad1 = FreshAd1 /\ page = 0
    /\ creds = [c \in Columns |-> 0] /\ token = "blank" /\ dead = FALSE
    /\ steps = [s \in StepNames |-> "absent"]
    /\ card = Idle /\ runs = 0

-----------------------------------------------------------------------------
(* dCloud, and the dashboard process. *)

\* A new session: another tenant, behind another URL as a rule but not always, and VMs as
\* they were shipped.  Secure Access
\* keeps its org, but the reset may delete the directory, and with it the SSO
\* configuration pinned to it and its users.  The row is as the runs so far, or an older session
\* that was mapped onto the same SCC org, left it.
NewSession ==
    /\ tenant < MaxTenant /\ tenant' = tenant + 1 /\ url' \in {url, tenant + 1}
    /\ built' = FreshDuo /\ ad1' = FreshAd1 /\ page' = 0
    /\ \/ UNCHANGED <<sa, token>>
       \/ /\ sa' = [dir |-> FALSE, users |-> {}, idp |-> 0]
          /\ token' = IF token = "live" THEN "gone" ELSE token
    /\ creds' \in {creds} \cup (IF card.pc = "off" THEN Leftovers ELSE {})
    /\ UNCHANGED <<dead, steps, card, runs>>

\* The rest of the dashboard, at any time: api_idac_populate and the SCC reset write the
\* session's URL into the row and leave its Duo columns; the SCC reset takes the URL out of
\* the row when SCC says that it opens another org.  After bootstrap the card's steps do not
\* look at the row's URL, and a time when it is done stands for the times between.
FileUrl ==
    /\ card.pc \in {"off", "scope", "bootstrap", "store", "done"}
    /\ \/ creds.url # url /\ creds' = [creds EXCEPT !.url = url]
       \/ creds.url = url /\ creds' = [creds EXCEPT !.url = 0]
    /\ UNCHANGED <<tenant, url, lab, token, dead, steps, card, runs>>

\* What a console change does to the running session's tenant when it is made with
\* the credentials of tenant k.
DuoWith(k, parts) == [p \in DuoParts |-> built[p] \/ (k = tenant /\ p \in parts)]

\* A bootstrap that ends between its passkey and its API keys.
Strands == built' = DuoWith(card.at, {"stranded"})

\* The host process ends and starts again: the thread is lost where it stands, and
\* so is the process's memory of logins that were refused.
HostRestart ==
    /\ card.pc # "off"
    /\ card' = Idle /\ dead' = FALSE
    /\ IF card.pc \in {"store", "login", "keep", "create"} THEN Strands ELSE built' = built
    /\ UNCHANGED <<tenant, url, sa, ad1, page, creds, token, steps, runs>>

-----------------------------------------------------------------------------
(* Running the steps. *)

\* The card carries on at a phase of the same step.
GoTo(c, phase) ==
    /\ c.faults <= MaxFaults
    /\ card' = [c EXCEPT !.pc = phase] /\ UNCHANGED steps

\* A call outside the dashboard fails, or its answer cannot be had.
Fault(c) == [c EXCEPT !.clean = FALSE, !.faults = @ + 1]

Verdict(good) == IF good THEN "completed" ELSE "failed"

\* _run and the loop over DUO_CARD_STEPS: record the step, and start the next unless
\* a fatal one failed.
Finish(c, s, good) ==
    LET i    == SelectInSeq(Order, LAMBDA x : x = s)
        last == i = Len(Order) \/ (~good /\ s \in Fatal)
        rec  == [steps EXCEPT ![s] = Verdict(good)]
    IN  /\ c.faults <= MaxFaults
        /\ steps' = IF last THEN rec ELSE [rec EXCEPT ![Order[i + 1]] = "running"]
        /\ card' = IF last THEN [c EXCEPT !.pc = "done", !.ok = @ /\ good]
                   ELSE [c EXCEPT !.pc = Order[i + 1], !.step = Order[i + 1], !.ok = @ /\ good]

Start ==
    /\ card.pc \in {"off", "done"} /\ runs < MaxRuns
    /\ runs' = runs + 1
    /\ \E s \in FromSteps :
          card' = [Idle EXCEPT !.pc = "scope", !.from = s, !.step = s, !.began = tenant]
    /\ UNCHANGED <<tenant, url, lab, creds, token, dead, steps>>

\* A tenant's Admin API credentials, tried: those of a tenant that is gone may be
\* answered or refused.
Probe(k) == IF k = tenant THEN {IF built.apiApp THEN "valid" ELSE "rejected"}
                          ELSE {"valid", "rejected"}

\* A browser login with the stored passkey (duo_passkey_login): refused without a try
\* once the process gave up on it.
CanLogIn == ~dead /\ creds.admin # 0

\* A step whose login, or whose console, fails it: the login may end in a lockout.
NoConsole == IF CanLogIn THEN Fault(card) ELSE [card EXCEPT !.clean = FALSE]
Lockout   == dead' \in {dead, CanLogIn \/ dead}
ConsoleFails(s) ==
    /\ Lockout /\ Finish(NoConsole, s, FALSE)
    /\ UNCHANGED <<tenant, url, lab, creds, token, runs>>

\* duo_refresh_session_scope: unless the row may describe the running session, its Duo
\* columns are cleared before anything is read from them.  The session log gives the live
\* URL, or cannot be read; a row with that URL is compared by its account too, when it has
\* one and the iDAC page can be read.  A card is known to be in its session when the row was
\* cleared, or was found with the session's URL and held nothing of another tenant.
Scope ==
    /\ card.pc = "scope"
    /\ \E read \in {"log", "log and page", "neither"} :
         LET stale == \/ read # "neither" /\ creds.url # url
                      \/ read = "log and page" /\ creds.admin \notin {0, tenant}
             held  == \A c \in Columns \ {"url"} : creds[c] \in {0, tenant}
             row   == IF stale
                      THEN [c \in Columns |-> CASE c = "url"           -> url
                                                 [] c \in SessionScoped -> 0
                                                 [] OTHER              -> creds[c]]
                      ELSE creds
             s     == card.from
         IN  /\ creds' = row
             /\ dead' = (dead /\ ~stale)
             /\ built' = IF stale THEN DuoWith(creds.admin, {"stranded"}) ELSE built
             /\ steps' = [steps EXCEPT ![s] = "running"]
             /\ card' = [card EXCEPT
                   !.pc = s, !.known = stale \/ (read # "neither" /\ held),
                   !.clean = read = "log and page" /\ s = "bootstrap",
                   !.api = row.api, !.tok = token,
                   !.needs = row.api = 0 \/ row.admin = 0]
    /\ UNCHANGED <<tenant, url, sa, ad1, page, token, runs>>

-----------------------------------------------------------------------------
(* bootstrap: an activated admin with a passkey, an Admin API application, and   *)
(* the student's second factor.                                                  *)

BootstrapFails == Finish(Fault(card), "bootstrap", FALSE)

\* Nothing was missing: the API credentials are probed, and the application is made
\* again when the tenant refuses them.
BootstrapProbe ==
    /\ card.pc = "bootstrap" /\ ~card.needs
    /\ \/ /\ "valid" \in Probe(card.api)
          /\ GoTo(card, "totp")
          /\ UNCHANGED <<tenant, url, lab, creds, token, dead, runs>>
       \/ /\ "rejected" \in Probe(card.api) /\ CanLogIn
          /\ built' = DuoWith(creds.admin, {"apiApp"})
          /\ creds' = [creds EXCEPT !.api = creds.admin]
          /\ LET c == [card EXCEPT !.api = creds.admin]
             IN  GoTo(c, "totp") \/ Finish(Fault(c), "bootstrap", FALSE)
          /\ UNCHANGED <<tenant, url, sa, ad1, page, token, dead, runs>>
       \/ ConsoleFails("bootstrap")

\* duo_passkey_bootstrap: the row is read again, and API credentials that answer are
\* to be kept; the iDAC URL is the stored one, or the session's, and never minted.  A row
\* that holds the account but no API keys is bootstrapped from the start as well.
BootstrapReuse ==
    /\ card.pc = "bootstrap" /\ card.needs
    /\ \E answer \in IF creds.api = 0 THEN {"none"} ELSE Probe(creds.api) :
          IF answer = "valid" /\ creds.admin # 0
          THEN GoTo([card EXCEPT !.api = creds.api], "totp")
          ELSE \/ GoTo([card EXCEPT !.had = answer = "valid",
                                    !.idac = IF creds.url # 0 THEN creds.url ELSE url], "activate")
               \/ BootstrapFails
    /\ UNCHANGED <<tenant, url, lab, creds, token, dead, runs>>

\* The tenant whose account an iDAC page lists.
Behind(u) == IF u = url THEN tenant ELSE u

\* _pw_activate_duo_admin: the account and its password are read from the page, and the
\* password is set.  One that was activated before is logged in with the same password, so
\* that an activation cut short costs nothing.
Activate ==
    /\ card.pc = "activate"
    /\ GoTo([card EXCEPT !.at = Behind(card.idac)], "enrol") \/ BootstrapFails
    /\ UNCHANGED <<tenant, url, lab, creds, token, dead, runs>>

\* A passkey is enrolled.  An account that has one lets nobody in without it, and the one it
\* has is not tried here: such an enrolment produces no credential.
Enrol ==
    /\ card.pc = "enrol"
    /\ \/ /\ card.at = tenant => ~built.passkey
          /\ built' = DuoWith(card.at, {"passkey"}) /\ GoTo(card, "store")
       \/ /\ card.at = tenant => built.passkey
          /\ built' = built /\ Finish(card, "bootstrap", FALSE)
       \/ built' \in {built, DuoWith(card.at, {"passkey", "stranded"})} /\ BootstrapFails
    /\ UNCHANGED <<tenant, url, sa, ad1, page, creds, token, dead, runs>>

\* Only then is the account written down, with the URL it was read from.
Store ==
    /\ card.pc = "store"
    /\ \/ /\ creds' = [creds EXCEPT !.admin = card.at, !.url = card.idac]
          /\ dead' = FALSE /\ built' = built
          /\ GoTo([card EXCEPT !.idac = 0], "login")
       \/ Strands /\ BootstrapFails /\ UNCHANGED <<creds, dead>>
    /\ UNCHANGED <<tenant, url, sa, ad1, page, token, runs>>

\* The first login with it, then the API application: kept when its tenant lists this
\* admin, else forgotten with everything else that came from its tenant.
FirstLogin ==
    /\ card.pc = "login"
    /\ \/ built' = built /\ GoTo(card, IF card.had THEN "keep" ELSE "create")
       \/ Strands /\ BootstrapFails
    /\ UNCHANGED <<tenant, url, sa, ad1, page, creds, token, dead, runs>>

KeepApi ==
    /\ card.pc = "keep"
    /\ \E listed \in {TRUE, FALSE} :
          IF listed /\ creds.api = card.at
          THEN GoTo([card EXCEPT !.api = creds.api], "totp") /\ creds' = creds
          ELSE /\ creds' = [c \in Columns |->
                            IF c \in SessionScoped \ AdminLogin THEN 0 ELSE creds[c]]
               /\ GoTo([card EXCEPT !.clean = @ /\ listed], "create")
    /\ UNCHANGED <<tenant, url, lab, token, dead, runs>>

CreateApi ==
    /\ card.pc = "create"
    /\ \/ /\ built' = DuoWith(card.at, {"apiApp"})
          /\ creds' = [creds EXCEPT !.api = card.at]
          /\ GoTo([card EXCEPT !.api = card.at], "totp")
       \/ /\ built' \in {DuoWith(card.at, {"stranded"}), DuoWith(card.at, {"apiApp", "stranded"})}
          /\ BootstrapFails /\ creds' = creds
    /\ UNCHANGED <<tenant, url, sa, ad1, page, token, dead, runs>>

\* Does Duo list the token whose secret is stored?  Who cannot ask takes it for yes.
TokenListed(k) == IF k # tenant THEN BOOLEAN
                  ELSE IF built.apiApp THEN {built.token} ELSE {TRUE}

\* duo_provision_admin_totp: the token is made, bound to the admin, and its secret is
\* stored last.  Whatever comes of it, the step goes on.
Totp ==
    /\ card.pc = "totp"
    /\ \/ /\ creds.totp # 0
          /\ \/ TRUE \in TokenListed(card.api) /\ GoTo(card, "publish")
             \/ GoTo(Fault(card), "publish")
          /\ UNCHANGED <<built, creds>>
       \/ /\ creds.totp = 0 \/ FALSE \in TokenListed(card.api)
          /\ \/ /\ creds.api = creds.admin
                /\ built' = DuoWith(creds.api, {"token"})
                /\ creds' = [creds EXCEPT !.totp = creds.api]
                /\ GoTo(card, "publish")
             \/ /\ creds.api # creds.admin
                /\ UNCHANGED <<built, creds>> /\ GoTo(card, "publish")
             \/ /\ built' \in {built, DuoWith(creds.api, {"token"})}
                /\ creds' = creds /\ GoTo(Fault(card), "publish")
    /\ UNCHANGED <<tenant, url, sa, ad1, page, token, dead, runs>>

\* duo_publish_totp_page: the login page, rebuilt from the row on every run.
Publish ==
    /\ card.pc = "publish"
    /\ \/ creds.totp # 0 /\ page' = creds.totp /\ Finish(card, "bootstrap", TRUE)
       \/ creds.totp = 0 /\ page' = page /\ Finish(card, "bootstrap", TRUE)
       \/ page' = page /\ Finish(Fault(card), "bootstrap", TRUE)
    /\ UNCHANGED <<tenant, url, built, sa, ad1, creds, token, dead, runs>>

\* org_setup only verifies: every run is a re-integration.
OrgSetup ==
    /\ card.pc = "org_setup"
    /\ \/ card.api # 0 /\ "valid" \in Probe(card.api) /\ Finish(card, "org_setup", TRUE)
       \/ /\ card.api = 0 \/ "rejected" \in Probe(card.api)
          /\ Finish(card, "org_setup", FALSE)
       \/ Finish(Fault(card), "org_setup", FALSE)
    /\ UNCHANGED <<tenant, url, lab, creds, token, dead, runs>>

-----------------------------------------------------------------------------
(* The authentication proxy and the directory.                               *)

\* _winrm_write_restart_cfg: the file is written, then the service is restarted; the
\* service may stay down, and a write may not happen at all.
WriteProxy(cfg, s, followed) ==
    \/ ad1' = [cfg EXCEPT !.running = TRUE] /\ followed
    \/ ad1' \in {ad1, [cfg EXCEPT !.running = FALSE]} /\ Finish(Fault(card), s, FALSE)

\* duo_push_authproxy_config: the file an operator stored, as it is, or one built from
\* the Auth Proxy integration, which holds [cloud] only.
AuthproxyPush ==
    /\ card.pc = "authproxy_push"
    /\ \/ /\ creds.cfg # 0
          /\ \E sso \in {0, creds.cfg} :
                WriteProxy([cloud |-> creds.cfg, sync |-> TRUE, sso |-> sso, running |-> TRUE],
                           "authproxy_push", Finish(card, "authproxy_push", TRUE))
          /\ creds' = creds
       \/ /\ creds.cfg = 0 /\ creds.api # 0 /\ "valid" \in Probe(creds.api)
          /\ creds' = [creds EXCEPT !.rad = creds.api]
          /\ WriteProxy([cloud |-> creds.api, sync |-> FALSE, sso |-> 0, running |-> TRUE],
                        "authproxy_push", Finish(card, "authproxy_push", TRUE))
       \/ /\ creds.cfg = 0 /\ (creds.api = 0 \/ "rejected" \in Probe(creds.api))
          /\ UNCHANGED <<ad1, creds>> /\ Finish(card, "authproxy_push", FALSE)
       \/ /\ UNCHANGED <<ad1, creds>> /\ Finish(Fault(card), "authproxy_push", FALSE)
    /\ UNCHANGED <<tenant, url, built, sa, page, token, dead, runs>>

\* duo_setup_external_directory: [cloud] is rewritten with the connection's own keys,
\* and [sso] is kept, or put back from the row.
OwnKeys == [cloud |-> creds.admin, sync |-> TRUE, running |-> TRUE,
            sso |-> IF ad1.sso # 0 THEN ad1.sso ELSE creds.sso]

\* The directory is filled in and its groups are chosen, saved and read back from this
\* connector's own page: only a setup that got so far is completed.
GroupsChosen == DuoWith(creds.admin, {"dirsync"})

\* What came of it is only logged.
AdConfig ==
    /\ card.pc = "ad_sync"
    /\ \/ /\ CanLogIn /\ ad1' = OwnKeys
          /\ \/ built' = GroupsChosen /\ GoTo(card, "sync")
             \/ built' = built /\ GoTo(Fault(card), "sync")
          /\ dead' = dead
       \/ /\ Lockout /\ GoTo(NoConsole, "sync")
          /\ UNCHANGED <<built, ad1>>
    /\ UNCHANGED <<tenant, url, sa, page, creds, token, runs>>

\* duo_sync_now, and where it fails the per-user API, which answers yes to every
\* question it cannot ask.
SyncReady == built.dirsync /\ ad1.cloud = tenant /\ ad1.sync /\ ad1.running
AdSync ==
    /\ card.pc = "sync"
    /\ \/ /\ CanLogIn /\ creds.admin = tenant /\ SyncReady
          /\ built' = DuoWith(tenant, {"users"})
          /\ Finish(card, "ad_sync", TRUE)
          /\ dead' = dead
       \/ /\ ~(CanLogIn /\ creds.admin = tenant /\ SyncReady)
          /\ \E good \in BOOLEAN : Finish(card, "ad_sync", good)
          /\ UNCHANGED <<built, dead>>
       \/ /\ Lockout
          /\ \E good \in BOOLEAN : Finish(NoConsole, "ad_sync", good)
          /\ built' = built
    /\ UNCHANGED <<tenant, url, sa, ad1, page, creds, token, runs>>

-----------------------------------------------------------------------------
(* Provisioning into Secure Access.                                          *)

\* sa_generate_scim_token_ui: another directory, whose token is shown once and stored;
\* the wizard may fail before or after the directory is there.
SaGenerateToken(c) ==
    \/ /\ sa' = [sa EXCEPT !.dir = TRUE] /\ token' = "live"
       /\ GoTo([c EXCEPT !.tok = "live"], "app")
    \/ /\ sa' \in {sa, [sa EXCEPT !.dir = TRUE]} /\ token' = token
       /\ Finish([Fault(c) EXCEPT !.tok = "blank"], "saml_scim_config", FALSE)

\* Mutant: a stored token is used without asking whether its directory is there.
ScimToken_TrustsStored ==
    /\ card.pc = "saml_scim_config"
    /\ \/ card.tok # "blank" /\ GoTo(card, "app") /\ UNCHANGED <<sa, token>>
       \/ card.tok = "blank" /\ SaGenerateToken(card)
    /\ UNCHANGED <<tenant, url, built, ad1, page, creds, dead, runs>>

\* step_saml_scim_config: a stored token is used only if it is accepted and the org
\* still shows a Duo directory; what cannot be asked is taken for yes.
ScimToken ==
    /\ card.pc = "saml_scim_config"
    /\ \E known \in BOOLEAN :
         LET c == IF known THEN card ELSE Fault(card)
         IN  \/ /\ card.tok # "blank" /\ (known => sa.dir)
                /\ GoTo(c, "app") /\ UNCHANGED <<sa, token>>
             \/ /\ card.tok = "blank" \/ (card.tok = "gone" /\ known)
                /\ SaGenerateToken(c)
    /\ UNCHANGED <<tenant, url, built, ad1, page, creds, dead, runs>>

\* How many users Secure Access counts: with the token of a directory that is gone it
\* may be any number, and they need not be this tenant's.
ScimCount(tok, s) == IF tok = "live" THEN {s.users # {}} ELSE BOOLEAN

\* duo_setup_secure_access_app: the application is found or made, and given the token.
AppMade == DuoWith(creds.admin, {"app"})

\* It is given its attributes and groups, and provisions the users the tenant holds.
Provisions == IF creds.admin = tenant /\ built.users /\ token = "live"
              THEN [sa EXCEPT !.users = @ \cup {tenant}] ELSE sa

\* Its key is stored whether or not Secure Access counts any user.
ScimApp ==
    /\ card.pc = "app"
    /\ \/ /\ CanLogIn /\ token # "blank"
          /\ built' = AppMade /\ sa' = Provisions
          /\ creds' = [creds EXCEPT !.app = creds.admin]
          /\ \/ \E some \in ScimCount(token, sa') : Finish(card, "saml_scim_config", some)
             \/ Finish(Fault(card), "saml_scim_config", FALSE)
          /\ dead' = dead
       \/ /\ Lockout
          /\ Finish(NoConsole, "saml_scim_config", FALSE)
          /\ UNCHANGED <<built, sa, creds>>
    /\ UNCHANGED <<tenant, url, ad1, page, token, runs>>

\* step_scim_push counts again, and a success is followed by the prune.
ScimPush ==
    /\ card.pc = "scim_push"
    /\ \/ card.tok = "blank" /\ Finish(card, "scim_push", TRUE)
       \/ /\ card.tok # "blank"
          /\ \E some \in ScimCount(card.tok, sa) :
                IF some THEN GoTo(card, "prune") ELSE Finish(card, "scim_push", FALSE)
       \/ Finish(Fault(card), "scim_push", FALSE)
    /\ UNCHANGED <<tenant, url, lab, creds, token, dead, runs>>

\* step_scim_push_and_prune: once Secure Access holds a user of the tenant the card
\* knows, those it does not know are deleted, as far as that goes.
Prune ==
    /\ card.pc = "prune"
    /\ \/ /\ card.tok = "live" /\ card.api \in sa.users
          /\ sa' \in {[sa EXCEPT !.users = @ \ gone] :
                        gone \in SUBSET (sa.users \ {card.api})}
       \/ sa' = sa
    /\ Finish(card, "scim_push", TRUE)
    /\ UNCHANGED <<tenant, url, built, ad1, page, creds, token, dead, runs>>

-----------------------------------------------------------------------------
(* Single sign-on.                                                           *)

\* duo_enroll_sso_authproxy, in Duo: a proxy listed as connected is left alone (the
\* list may be behind), else an enrolment command is minted.
Enroll(c) ==
    \/ built.joined /\ ad1.sso = creds.admin /\ ad1.running /\ Finish(c, c.step, TRUE)
    \/ built.joined /\ Finish(Fault(c), c.step, TRUE)
    \/ ~(built.joined /\ ad1.sso = creds.admin /\ ad1.running) /\ GoTo(c, "mint")
    \/ Finish(Fault(c), c.step, FALSE)

\* duo_setup_saml_sso, first pass: is there an SSO configuration, and which tenant
\* does it send users to?  Without one, the wizard needs a directory to go through.
SsoSaml ==
    /\ card.pc = "sso_saml"
    /\ \/ /\ creds.app # 0 /\ (sa.idp # 0 \/ sa.dir)
          /\ \/ GoTo([card EXCEPT !.had = sa.idp # 0, !.at = sa.idp], "sp")
             \/ sa.idp # 0 /\ GoTo([Fault(card) EXCEPT !.had = TRUE, !.at = 0], "sp")
       \/ (creds.app = 0 \/ (sa.idp = 0 /\ ~sa.dir)) /\ Finish(card, "sso_saml", FALSE)
       \/ Finish(Fault(card), "sso_saml", FALSE)
    /\ UNCHANGED <<tenant, url, lab, creds, token, dead, runs>>

\* Second pass, in Duo: the service provider's metadata, the application enabled for
\* all users, userName mapped to the address, each read back.
SsoTrust ==
    /\ card.pc = "sp"
    /\ \/ /\ CanLogIn /\ creds.app = creds.admin
          /\ built' = DuoWith(creds.admin, {"trust"})
          /\ GoTo(card, "idp") /\ dead' = dead
          /\ UNCHANGED <<tenant, url, sa, ad1, page, creds, token, runs>>
       \/ ConsoleFails("sso_saml")

\* Third pass: a configuration that sends users to this tenant, or nobody knows where,
\* is left; any other is deleted and made again, on a directory that is there.
SsoConfigure ==
    /\ card.pc = "idp"
    /\ LET here == creds.admin IN
       IF card.had /\ card.at \in {0, here}
       THEN sa' = sa /\ Finish(card, "sso_saml", TRUE)
       ELSE \/ sa.dir /\ sa' = [sa EXCEPT !.idp = here] /\ Finish(card, "sso_saml", TRUE)
            \/ ~sa.dir /\ sa' = [sa EXCEPT !.idp = 0] /\ Finish(card, "sso_saml", FALSE)
            \/ /\ sa' \in {sa, [sa EXCEPT !.idp = 0]} \cup
                          {[sa EXCEPT !.idp = here] : x \in {y \in {1} : sa.dir}}
               /\ Finish(Fault(card), "sso_saml", FALSE)
    /\ UNCHANGED <<tenant, url, built, ad1, page, creds, token, dead, runs>>

\* duo_configure_sso_auth_source: the Active Directory source is made if need be, then
\* enabled, the domain permitted and the default route pointed at it, each read back.
SourceMade   == DuoWith(creds.admin, {"made"})
SourceRouted == DuoWith(creds.admin, {"made", "source"})
SsoAuthsource ==
    /\ card.pc = "sso_authsource"
    /\ \/ /\ CanLogIn
          /\ \/ built' = SourceRouted /\ Enroll(card)
             \/ /\ built' = SourceMade
                /\ Finish(Fault(card), "sso_authsource", FALSE)
          /\ dead' = dead
          /\ UNCHANGED <<tenant, url, sa, ad1, page, creds, token, runs>>
       \/ ConsoleFails("sso_authsource")

\* The card's own step: with no source there is nothing to enrol against yet.
AuthproxyEnroll ==
    /\ card.pc = "authproxy_enroll"
    /\ \/ /\ CanLogIn
          /\ IF creds.admin = tenant /\ ~built.made
             THEN Finish(card, "authproxy_enroll", TRUE) ELSE Enroll(card)
          /\ UNCHANGED <<tenant, url, lab, creds, token, dead, runs>>
       \/ ConsoleFails("authproxy_enroll")

\* duo_enroll_sso_authproxy on AD1: the [sso] stanza is written, then stored, then the
\* single-use code is applied, and the result is read back from the proxy.
Mint ==
    /\ card.pc = "mint"
    /\ LET t == creds.admin IN
       \/ /\ t # 0
          /\ ad1' = [ad1 EXCEPT !.sso = t, !.running = TRUE]
          /\ \/ /\ creds' = [creds EXCEPT !.sso = t]
                /\ built' = DuoWith(t, {"joined"})
                /\ Finish(card, card.step, TRUE)
             \/ /\ creds' \in {creds, [creds EXCEPT !.sso = t]} /\ built' = built
                /\ Finish(Fault(card), card.step, FALSE)
       \/ /\ UNCHANGED <<ad1, creds, built>>
          /\ Finish(Fault(card), card.step, FALSE)
    /\ UNCHANGED <<tenant, url, sa, page, token, dead, runs>>

\* duo_disable_lab_mfa, on the Global Policy only, read back from a reloaded editor.
MfaPolicy ==
    /\ card.pc = "mfa_policy"
    /\ \/ /\ CanLogIn
          /\ built' = DuoWith(creds.admin, {"noMfa"})
          /\ Finish(card, "mfa_policy", TRUE) /\ dead' = dead
          /\ UNCHANGED <<tenant, url, sa, ad1, page, creds, token, runs>>
       \/ ConsoleFails("mfa_policy")

\* duo_test_sso_login: Secure Access sends the POD's own user through the whole chain.
\* One that leads to a tenant that is gone may still answer.
SsoChain(t) == /\ sa.idp = t /\ ad1.sso = t /\ ad1.running
            /\ t = tenant => built.trust /\ built.source /\ built.joined /\ built.noMfa /\ built.users
SsoTest ==
    /\ card.pc = "sso_test"
    /\ \/ sa.idp # 0 /\ SsoChain(sa.idp) /\ Finish(card, "sso_test", TRUE)
       \/ (sa.idp # tenant \/ ~SsoChain(tenant)) /\ Finish(card, "sso_test", FALSE)
       \/ Finish(Fault(card), "sso_test", FALSE)
    /\ UNCHANGED <<tenant, url, lab, creds, token, dead, runs>>

ProxyHealthy == ad1.running /\ ad1.cloud # 0 /\ ad1.sso # 0

\* Duo cannot be asked for its tokens with keys that are missing or refused.
Asks(k)  == k # 0 /\ "valid" \in Probe(k)
Unasked  == IF "rejected" \in Probe(creds.api) \/ creds.api = 0
            THEN [card EXCEPT !.clean = FALSE, !.asked = FALSE]
            ELSE [Fault(card) EXCEPT !.asked = FALSE]

\* Mutant: the jump host is not looked at.
Verify_NoPage ==
    /\ card.pc = "verify"
    /\ \/ creds.totp = 0 /\ Finish(card, "verify", FALSE)
       \/ /\ creds.totp # 0 /\ Asks(creds.api)
          /\ \E listed \in TokenListed(creds.api) :
                Finish(card, "verify", ProxyHealthy /\ listed)
       \/ \E good \in BOOLEAN :
             /\ good => ProxyHealthy /\ creds.totp # 0
             /\ Finish(Unasked, "verify", good)
    /\ UNCHANGED <<tenant, url, lab, creds, token, dead, runs>>

\* step_verify: the service runs, both sections are there and connect; the secret is
\* stored and its token listed; the page is on the jump host.  What is missing fails
\* the step, what cannot be asked does not.
Verify ==
    /\ card.pc = "verify"
    /\ \/ creds.totp = 0 /\ Finish(card, "verify", FALSE)
       \/ /\ creds.totp # 0 /\ Asks(creds.api)
          /\ \E listed \in TokenListed(creds.api) :
                Finish(card, "verify", ProxyHealthy /\ listed /\ page # 0)
       \/ \E good \in BOOLEAN :
             /\ good => ProxyHealthy /\ creds.totp # 0
             /\ Finish(Unasked, "verify", good)
    /\ UNCHANGED <<tenant, url, lab, creds, token, dead, runs>>

-----------------------------------------------------------------------------
(* An operator's tools, while the card does not run. *)

\* duo_rollback_for_test: what the card built is taken down, each part as far as that
\* goes, and forgotten whatever came of it, with what the card had reported; the account
\* and its API application stay.
Rollback ==
    /\ card.pc \in {"off", "done"} /\ runs < MaxRuns
    /\ sa' \in {sa, [sa EXCEPT !.idp = 0], [dir |-> FALSE, users |-> {}, idp |-> 0]}
    /\ \E gone \in SUBSET {"dirsync", "app"} :
          built' = [p \in DuoParts |->
                    built[p] /\ p \notin gone
                           /\ ("dirsync" \in gone => p # "users")
                           /\ ("app" \in gone => p # "trust")]
    /\ creds' = [creds EXCEPT !.rad = 0, !.cfg = 0, !.sso = 0, !.app = 0]
    /\ token' = "blank"
    /\ steps' = [s \in StepNames |-> "absent"]
    /\ card' = Idle
    /\ UNCHANGED <<tenant, url, ad1, page, dead, runs>>

DuoNext ==
    \/ NewSession \/ FileUrl \/ HostRestart \/ Rollback \/ Start \/ Scope
    \/ BootstrapProbe \/ BootstrapReuse \/ Activate \/ Enrol \/ Store \/ FirstLogin
    \/ KeepApi \/ CreateApi \/ Totp \/ Publish \/ OrgSetup
    \/ AuthproxyPush \/ AdConfig \/ AdSync
    \/ ScimToken \/ ScimApp \/ ScimPush \/ Prune
    \/ SsoSaml \/ SsoTrust \/ SsoConfigure \/ SsoAuthsource \/ AuthproxyEnroll \/ Mint
    \/ MfaPolicy \/ SsoTest \/ Verify

DuoSpec == DuoInit /\ [][DuoNext]_duoVars

-----------------------------------------------------------------------------
Undisturbed == card.began = tenant /\ card.known

\* A card that reports OK in the session it began in has left no column of the row describing
\* another tenant, the point of the refresh that duo_run_card makes before it reads any
\* credential.  Not claimed where the refresh could not tell (see Scope): the log unread, or
\* another tenant's columns under the session's URL with no account, or no page, to compare.
OkMeansThisTenant ==
    card.pc = "done" /\ card.ok /\ Undisturbed =>
        creds.url \in {0, url} /\ \A c \in Columns \ {"url"} : creds[c] \in {0, tenant}

\* However earlier runs were cut short, a full run in which no call fails ends OK: nothing they
\* left behind needs an operator, but for two things.  A bootstrap that ended between its
\* passkey and its API keys, or a row cleared of both (see FileUrl), leaves an account that no
\* later one gets into; and so does a token of a directory that is gone where another stands.
CleanRunSucceeds ==
    card.pc = "done" /\ card.clean /\ Undisturbed /\ ~built.stranded
       /\ ~(card.tok = "gone" /\ sa.dir) => card.ok

\* A card that reports OK, and whose last step could ask everything, has left students a
\* way in: a secret of this tenant, its token in the tenant, and a page on the jump host,
\* whatever failed before and was only logged.
OkMeansStudentsGetIn ==
    card.pc = "done" /\ card.ok /\ card.asked /\ Undisturbed =>
        creds.totp = tenant /\ built.token /\ page # 0

\* The code does not keep this from a row that was given the session's URL (FileUrl) and
\* holds another's keys: a bootstrap that completed leaves the API credentials and the account of
\* one tenant, as its check of the API org's admins is for.
BootstrapOneTenant ==
    card.pc = "org_setup" /\ steps["bootstrap"] = "completed" => creds.api = creds.admin

\* Nor is the token given to the application that of the directory that stands: an earlier
\* run may have made that directory and failed before it could store its token.
TokenAlive ==
    card.pc = "app" /\ card.faults = 0 /\ Undisturbed => token = "live"
=============================================================================
