---------------------------- MODULE Configuration ---------------------------
(***************************************************************************)
(* The local environment file: env.mjs writes it (runInit) and checks it   *)
(* (runCheck), an operator edits it, PostgreSQL takes its passwords when   *)
(* the data volume is first initialised, and the launchers start every     *)
(* service with the example's variables overlaid by the file's and by      *)
(* those exported in the shell.  Variables that are treated alike are one  *)
(* field of the record; a secret is the generation it was drawn in.        *)
(***************************************************************************)
EXTENDS Naturals

CONSTANTS Exports,            \* fields of which the shell may hold a value
          MaxInits, MaxEdits  \* bounds on initialisations and on hand edits

VARIABLES env, replaced,      \* .env and the passwords of .env.replaced
          volume,             \* passwords PostgreSQL was initialised with; 0: none
          checked,            \* env:check accepted this very file
          attempt,            \* the last service started and how it went
          inits, edits, forced, byHand

vars == <<env, replaced, volume, checked, attempt, inits, edits, forced, byHand>>

DemoServices == {"identity", "ledger", "payments", "risk", "resilience", "router", "gateway"}

(* "absent": the file has no such line; "empty": a line without a value.   *)
Domain ==
    [node |-> {"development", "production"}, sabcl |-> {"off", "compatible", "strict"},
     token |-> {"absent", "empty", "placeholder", "ok"},       \* tokens, signing keys
     url |-> {"absent", "empty", "bad", "placeholder", "ok"},  \* PostgreSQL and Redis
     key |-> {"absent", "empty", "bad", "placeholder", "ok"},  \* 32-byte keys
     sabclKey |-> {"absent", "placeholder", "ok"},      \* private keys, route secret
     unread |-> {"bad", "ok"},         \* limits, peers, key ids, the ports' format
     bootstrap |-> {"unset", "set"}, demo |-> {"absent", "false", "true"},
     identityPort |-> {"same", "other"},  \* IDENTITY_PORT and IDENTITY_SERVICE_PORT
     apiPort |-> {"same", "other"}]       \* API_PORT and API_GATEWAY_PORT

NoEnv == [node |-> "none"]
NoAttempt == [service |-> "none", outcome |-> "none", exported |-> FALSE]

(* .env.example as shipped; passwords and URLs carry generation 1. *)
Example ==
    [node |-> "development", sabcl |-> "off", token |-> "placeholder",
     url |-> "placeholder", key |-> "placeholder", sabclKey |-> "placeholder",
     unread |-> "ok", bootstrap |-> "unset", demo |-> "true", identityPort |-> "same",
     apiPort |-> "same", password |-> 1, urlPassword |-> 1]

Init ==
    /\ env = NoEnv /\ replaced = 0 /\ volume = 0 /\ checked = FALSE
    /\ attempt = NoAttempt /\ inits = 0 /\ edits = 0 /\ forced = 0 /\ byHand = FALSE

Exists == env # NoEnv

-----------------------------------------------------------------------------
(* The connection URLs after a regeneration: (the mutant) left as they are *)
(* in the example.                                                         *)
FromExample(generation) == Example.urlPassword

(* REBUILT_URLS: rebuilt from the new passwords. *)
Rebuilt(generation) == generation

initializeEnvironmentText(generation) ==
    [Example EXCEPT !.token = "ok", !.key = "ok", !.url = "ok",
                    !.password = generation, !.urlPassword = Rebuilt(generation)]

(* What is left of the file that is overwritten: (the mutant) nothing. *)
NoCopy == replaced

(* runInit copies it to .env.replaced. *)
Copied == IF Exists THEN env.password ELSE replaced

(* Without --force an existing file is left alone. *)
runInit(force) ==
    /\ Exists => force
    /\ inits < MaxInits /\ inits' = inits + 1
    /\ replaced' = Copied
    /\ env' = initializeEnvironmentText(inits + 2)
    /\ forced' = IF Exists /\ volume # 0 THEN forced + 1 ELSE forced
    /\ checked' = FALSE /\ attempt' = NoAttempt /\ byHand' = FALSE
    /\ UNCHANGED <<volume, edits>>

Edited(e) ==
    /\ edits < MaxEdits /\ edits' = edits + 1
    /\ env' = e /\ checked' = FALSE /\ attempt' = NoAttempt
    /\ UNCHANGED <<replaced, volume, inits, forced>>

(* The operator copies the example, changes a value, or a password only.   *)
Copy == ~Exists /\ Edited(Example) /\ UNCHANGED byHand
Edit == Exists /\ (\E name \in DOMAIN Domain : \E value \in Domain[name] :
                      env[name] # value /\ Edited([env EXCEPT ![name] = value]))
        /\ UNCHANGED byHand
EditPassword == /\ Exists /\ env.password < 10
                /\ Edited([env EXCEPT !.password = @ + 10]) /\ byHand' = TRUE

-----------------------------------------------------------------------------
(* Which missing variables are reported: (the mutant) not the URLs, which  *)
(* have defaults in the loaders.                                           *)
MissingSecrets == {env.token, env.key} \intersect {"absent", "empty"} # {}

(* REQUIRED_VARIABLES names tokens, keys and URLs. *)
Missing == {env.token, env.key, env.url} \intersect {"absent", "empty"} # {}

production == env.node = "production"

checkEnvironment ==
    /\ ~Missing
    /\ env.url # "bad" /\ env.key \notin {"bad", "placeholder"}
    /\ env.sabcl # "off" => env.sabclKey = "ok"
    /\ production => /\ env.demo # "true" /\ env.bootstrap = "unset" /\ env.sabcl # "compatible"
                     /\ env.token # "placeholder" /\ env.sabclKey # "placeholder"

runCheck ==
    /\ Exists /\ ~checked /\ checkEnvironment
    /\ checked' = TRUE
    /\ UNCHANGED <<env, replaced, volume, attempt, inits, edits, forced, byHand>>

-----------------------------------------------------------------------------
(* What a child sees of a file (.env.example, then .env): a variable the   *)
(* file lacks has the example's value, an empty one stays empty.           *)
Overlaid(e) ==
    LET Filled(name) == IF e[name] = "absent" THEN Example[name] ELSE e[name]
    IN [e EXCEPT !.token = Filled("token"), !.url = Filled("url"), !.key = Filled("key"),
                 !.sabclKey = Filled("sabclKey"), !.demo = Filled("demo"),
                 !.urlPassword = IF e.url = "absent" THEN Example.urlPassword ELSE @]

(* The loaders read the child's environment c. *)
Production(c) == c.node = "production"
Unset(value) == value \in {"empty", "placeholder"}

loadSabclEnvironment(c) ==
    c.sabcl # "off" => /\ ~(Production(c) /\ c.sabcl = "compatible")
                       /\ c.sabclKey = "ok" /\ c.unread = "ok"

(* What every loader asks of the tokens and limits it reads. *)
Settings(c) == /\ c.token # "empty" /\ c.unread = "ok"
               /\ Production(c) => c.token # "placeholder"

(* What each loader asks beyond that; an empty URL falls back on the       *)
(* local placeholder except in Risk.                                       *)
LoadsIdentity(c) ==
    /\ Production(c) => ~(Unset(c.url) \/ Unset(c.key) \/ c.demo = "true")
    /\ loadSabclEnvironment(c)

LoadsLedger(c) == (Production(c) => ~Unset(c.url)) /\ loadSabclEnvironment(c)

LoadsPayments(c) == (Production(c) => ~Unset(c.url)) /\ loadSabclEnvironment(c)

LoadsRisk(c) == c.url # "empty" /\ ~(Production(c) /\ c.bootstrap = "set")

LoadsResilience(c) ==
    /\ c.key \notin {"bad", "placeholder"}
    /\ Production(c) => ~Unset(c.url) /\ c.key # "empty"

LoadsRouter(c) == c.sabcl # "off" /\ loadSabclEnvironment(c)

LoadsGateway(c) == loadSabclEnvironment(c)

Loads(s, c) ==
    /\ Settings(c)
    /\ CASE s = "identity"   -> LoadsIdentity(c)
         [] s = "ledger"     -> LoadsLedger(c)
         [] s = "payments"   -> LoadsPayments(c)
         [] s = "risk"       -> LoadsRisk(c)
         [] s = "resilience" -> LoadsResilience(c)
         [] s = "router"     -> LoadsRouter(c)
         [] s = "gateway"    -> LoadsGateway(c)

HasDatabase(s) == s \notin {"router", "gateway"}

(* The loaders' own default carries the example's password. *)
Connects(s, c) ==
    HasDatabase(s) =>
        /\ c.url # "bad"
        /\ volume = IF c.url = "empty" THEN Example.urlPassword ELSE c.urlPassword

(* Where a started service is probed: the launchers use                    *)
(* IDENTITY_SERVICE_PORT and API_GATEWAY_PORT, Identity listens on         *)
(* IDENTITY_PORT and the Gateway on API_PORT.                              *)
Probed(s, c) == /\ s = "identity" => c.identityPort = "same"
                /\ s = "gateway" => c.apiPort = "same"

Outcome(s, c) ==
    IF ~Loads(s, c) THEN "refused" ELSE IF ~Connects(s, c) THEN "unreachable"
    ELSE IF Probed(s, c) THEN "ready" ELSE "unseen"

(* The router is only started when SABCL is on. *)
Started(s, c, exported) ==
    /\ Exists /\ attempt = NoAttempt
    /\ s = "router" => c.sabcl # "off"
    /\ attempt' = [service |-> s, outcome |-> Outcome(s, c), exported |-> exported]
    /\ UNCHANGED <<env, replaced, volume, checked, inits, edits, forced, byHand>>

(* Started with what the files say, or with one variable of the shell's    *)
(* own in place of the files'.                                             *)
Start(s) == Started(s, Overlaid(env), FALSE)
StartExported(s) ==
    \E name \in Exports : \E value \in Domain[name] \ {"absent"} :
        /\ Exists /\ value # Overlaid(env)[name]
        /\ Started(s, [Overlaid(env) EXCEPT ![name] = value], TRUE)

Stop ==
    /\ attempt # NoAttempt /\ attempt' = NoAttempt
    /\ UNCHANGED <<env, replaced, volume, checked, inits, edits, forced, byHand>>

(* PostgreSQL takes the passwords when its volume is new, and only then. *)
Up ==
    /\ Exists /\ volume = 0
    /\ volume' = env.password
    /\ forced' = 0 /\ attempt' = NoAttempt
    /\ UNCHANGED <<env, replaced, checked, inits, edits, byHand>>

Reset ==
    /\ volume # 0 /\ volume' = 0 /\ forced' = 0 /\ attempt' = NoAttempt
    /\ UNCHANGED <<env, replaced, checked, inits, edits, byHand>>

Next ==
    \/ \E force \in BOOLEAN : runInit(force)
    \/ Copy \/ Edit \/ EditPassword \/ runCheck
    \/ (\E s \in DemoServices : Start(s) \/ StartExported(s))
    \/ Stop \/ Up \/ Reset

Spec == Init /\ [][Next]_vars

-----------------------------------------------------------------------------
(* A service started from the files alone that does not become ready       *)
(* although env:check accepted .env fails for a reason the check does not  *)
(* see.  It is refused for a limit, a key id, a peer or a malformed port;  *)
(* or, in production, for a placeholder inside a URL or because the        *)
(* example's DEMO_AUTH_ENABLED stands in for a missing one.  It is         *)
(* unreachable when the database was initialised with other passwords,     *)
(* and only Identity and the Gateway run unseen, on a port of their own    *)
(* (env.mjs checkEnvironment against demo.mjs and the loaders).            *)
CheckedStarts ==
    (checked /\ ~attempt.exported) =>
        CASE attempt.outcome = "refused" ->
                \/ env.unread = "bad"
                \/ production /\ (env.url = "placeholder" \/ env.demo = "absent")
          [] attempt.outcome = "unreachable" -> volume # env.urlPassword
          [] attempt.outcome = "unseen" ->
                \/ attempt.service = "identity" /\ env.identityPort = "other"
                \/ attempt.service = "gateway" /\ env.apiPort = "other"
          [] OTHER -> TRUE

(* The URLs carry the password beside them unless it was edited by hand:   *)
(* "a regenerated password cannot leave a URL pointing at the old one"     *)
(* (env.mjs initializeEnvironmentText).                                    *)
UrlFollowsPassword == (Exists /\ ~byHand) => env.urlPassword = env.password

(* The passwords of an initialised database can still be found in .env or  *)
(* .env.replaced, unless two forced initialisations or a hand edit came    *)
(* after it (env.mjs runInit).                                             *)
DatabasePasswordFound ==
    (volume # 0 /\ forced < 2 /\ edits = 0) => volume \in {env.password, replaced}

-----------------------------------------------------------------------------
(* The inductive invariant behind the properties *)

Files ==
    [node : Domain.node, sabcl : Domain.sabcl, token : Domain.token, url : Domain.url,
     key : Domain.key, sabclKey : Domain.sabclKey, unread : Domain.unread,
     bootstrap : Domain.bootstrap, demo : Domain.demo, identityPort : Domain.identityPort,
     apiPort : Domain.apiPort, password : Nat, urlPassword : Nat]

(* Without a file there is nothing to start from. *)
Filed ==
    /\ Exists => env \in Files
    /\ ~Exists => volume = 0
    /\ volume \in Nat /\ forced \in Nat /\ inits \in Nat /\ edits \in Nat

(* Whatever changes the file or the volume forgets the check or the start. *)
Kept ==
    /\ checked => Exists /\ checkEnvironment
    /\ attempt # NoAttempt =>
          \/ attempt.exported
          \/ \E s \in DemoServices :
                /\ Exists /\ (s = "router" => env.sabcl # "off")
                /\ attempt = [service |-> s, outcome |-> Outcome(s, Overlaid(env)),
                              exported |-> FALSE]

Found ==
    volume # 0 /\ edits = 0 => /\ forced = 0 => volume = env.password
                               /\ forced = 1 => volume = replaced

IInv == Filed /\ Kept /\ UrlFollowsPassword /\ Found
=============================================================================
