-------------------------- MODULE CredentialLogin ---------------------------
(***************************************************************************)
(* The sign-in service of the Conjur platform (credential_login.go) behind *)
(* its three HTTP handlers: describing, configuring and signing in to the  *)
(* vendor connection, and the activation of a freshly installed tool.      *)
(*                                                                         *)
(* The service holds no configuration of its own.  Every request loads the *)
(* file the vendor CLI owns, which other programs may rewrite at any       *)
(* moment; requests hold the read half of s.mu and, except Capability, the *)
(* one place of the gate.  A waiting activateTool keeps new readers out.   *)
(***************************************************************************)
EXTENDS Naturals, FiniteSets

CONSTANTS
    Clients,        \* browser requests in flight
    Tenants,        \* host names of SaaS tenants
    Requests,       \* the bodies a browser may post to auth/configure
    Edits,          \* what other programs may leave in the vendor's file
    Binaries,       \* contents of the executable file
    EnvOverride,    \* conjurConfigEnvOverride: fixed when the program starts
    Interactive,    \* terminal.Supported: fixed by the platform
    Unreadable,     \* a vendor file that LoadConfig refuses
    MaxEdits        \* bound on the changes made from outside

ASSUME LoginAssumption ==
    /\ EnvOverride \in BOOLEAN /\ Interactive \in BOOLEAN
    /\ MaxEdits \in Nat

VARIABLES
    config,     \* the vendor's configuration file
    session,    \* the connection the stored vendor session belongs to
    disk,       \* the executable at the selected path
    tool,       \* enabled, toolIdentity
    writer,     \* activateTool waits for s.mu
    gate,       \* who occupies authGate
    call,       \* each client's request
    edits       \* changes made from outside so far

vars == <<config, session, disk, tool, writer, gate, call, edits>>

-----------------------------------------------------------------------------
(* Connections.  A URL is its host and its path; "" is absent and "bad" is *)
(* present and malformed.                                                  *)

NoURL == <<"", "">>

Blank == [url |-> NoURL, account |-> "", authn |-> "", service |-> "",
          env |-> "", writable |-> TRUE, jwt |-> FALSE]

ASSUME FileAssumption == Unreadable # Blank

IsSaaS(c) == c.env = "saas"

validConjurHTTPSURL(u) == u[1] \notin {"", "bad"}

validConjurConfigScalar(v) == v \notin {"", "bad"}

writableConjurCredentials(c) == c.writable

conjurBlankConfig(c) ==
    <<c.url, c.account, c.authn, c.service, c.env>> = <<NoURL, "", "", "", "">>

(* The tenant's API address whichever accepted form of it was typed. *)
canonicalConjurSaaSURL(u) ==
    IF u[1] \in Tenants /\ u[2] \in {"", "/api"} THEN <<u[1], "/api">> ELSE NoURL

conjurSaaSMatches(c, u) ==
    /\ IsSaaS(c)
    /\ <<c.authn, c.account, c.service>> = <<"cloud", "conjur", "cyberark">>
    /\ c.url = u
    /\ writableConjurCredentials(c)

supportsConjurPasswordLogin(c) ==
    /\ ~IsSaaS(c) /\ c.writable
    /\ validConjurHTTPSURL(c.url) /\ validConjurConfigScalar(c.account)
    /\ \/ c.authn \in {"", "authn"}
       \/ c.authn = "ldap" /\ validConjurConfigScalar(c.service)

conjurConnectionSetupRequired(c) ==
    /\ ~IsSaaS(c) /\ c.writable
    /\ c.url # NoURL => validConjurHTTPSURL(c.url)
    /\ c.account # "" => validConjurConfigScalar(c.account)
    /\ c.authn \in {"", "authn", "ldap"}
    /\ c.authn = "ldap" => c.service # "bad"
    /\ \/ c.authn = "ldap" /\ c.service = ""
       \/ c.url = NoURL \/ c.account = ""

supportsConjurVendorLogin(c) ==
    /\ c.writable
    /\ validConjurHTTPSURL(c.url) /\ validConjurConfigScalar(c.account)
    /\ \/ c.authn = "cloud" /\ IsSaaS(c)
       \/ c.authn = "oidc" /\ validConjurConfigScalar(c.service)
       \/ c.authn = "jwt" /\ validConjurConfigScalar(c.service) /\ c.jwt

conjurConfigMatchesConnectionRequest(c, r) ==
    /\ supportsConjurPasswordLogin(c)
    /\ <<c.url, c.account>> = <<r.url, r.account>>
    /\ \/ r.authn = "authn" /\ c.authn \in {"", "authn"} /\ c.service = ""
       \/ r.authn = "ldap" /\ c.authn = "ldap" /\ c.service = r.service

(* Mutant: only the address is compared. *)
sameConjurPasswordAuthContext_URL(b, a) == b.url = a.url

(* Everything the password was exchanged for; the JWT source plays no part. *)
sameConjurPasswordAuthContext(b, a) ==
    [b EXCEPT !.jwt = FALSE] = [a EXCEPT !.jwt = FALSE]

(* decodeCredentialConfigurationRequest, after the syntax of the body. *)
Decodable(r) ==
    /\ validConjurHTTPSURL(r.url)
    /\ r.expected # NoURL => validConjurHTTPSURL(r.expected)
    /\ \/ /\ r.env = "saas"
          /\ <<r.account, r.authn, r.service>> = <<"conjur", "cloud", "">>
       \/ /\ r.env = "" /\ r.expected = NoURL /\ r.account # ""
          /\ \/ r.authn = "authn" /\ r.service = ""
             \/ r.authn = "ldap" /\ r.service # ""

validConjurConnectionRequest(r) ==
    \/ /\ r.env = "saas"
       /\ canonicalConjurSaaSURL(r.url) # NoURL
       /\ <<r.account, r.authn, r.service>> = <<"conjur", "cloud", "">>
    \/ /\ r.env = "" /\ r.expected = NoURL
       /\ validConjurHTTPSURL(r.url) /\ validConjurConfigScalar(r.account)
       /\ \/ r.authn = "authn" /\ r.service = ""
          \/ r.authn = "ldap" /\ validConjurConfigScalar(r.service)

(* configureSaaS up to the vendor's init: an existing tenant is replaced   *)
(* only when the request names it.                                         *)
SaaSVerdict(c, r) ==
    LET want == canonicalConjurSaaSURL(r.url)
        old  == canonicalConjurSaaSURL(r.expected)
        mayReplace == /\ old # NoURL /\ r.expected = c.url
                      /\ conjurSaaSMatches(c, old) /\ want # old
        mayCreate == conjurBlankConfig(c) /\ r.expected = NoURL
    IN  CASE EnvOverride \/ ~writableConjurCredentials(c) -> "unsupported"
          [] ~EnvOverride /\ conjurSaaSMatches(c, want) -> "ok"
          [] OTHER -> IF (IF IsSaaS(c) THEN mayReplace ELSE mayCreate)
                      THEN "init" ELSE "unsupported"

(* What Configure does with the configuration it loaded. *)
ConfigureVerdict(c, r) ==
    CASE r.env = "saas" -> SaaSVerdict(c, r)
      [] r.env = "" /\ conjurConfigMatchesConnectionRequest(c, r) -> "ok"
      [] OTHER -> IF conjurConnectionSetupRequired(c) THEN "init" ELSE "unsupported"

Configured(c, r) ==
    IF r.env = "saas" THEN conjurSaaSMatches(c, canonicalConjurSaaSURL(r.url))
    ELSE conjurConfigMatchesConnectionRequest(c, r)

(* Connection: whether the browser may offer to change the connection. *)
Configurable(c) ==
    /\ ~EnvOverride
    /\ IF IsSaaS(c) THEN conjurSaaSMatches(c, c.url)
       ELSE conjurBlankConfig(c) /\ writableConjurCredentials(c)

Reportable(c) == /\ c.url # NoURL => validConjurHTTPSURL(c.url)
                 /\ c.account # "" => validConjurConfigScalar(c.account)

-----------------------------------------------------------------------------
(* Requests.  "held": inside the gate; "init", "half", "written": the       *)
(* vendor's init runs; "exited": it is gone; "exchange": the password is on *)
(* its way; "stored": the vendor library stored a session.                  *)

NoRequest == [url |-> NoURL, expected |-> NoURL, env |-> "", account |-> "",
              authn |-> "", service |-> ""]

Idle == [op |-> "none", pc |-> "idle", req |-> NoRequest, seen |-> Blank,
         edited |-> FALSE, gone |-> FALSE, answer |-> "none"]

Ops == {"capability", "connection", "configure", "login", "interactive"}

Inside == {"held", "init", "half", "written", "exited", "exchange", "stored"}

Running(c) == call[c].pc \in Inside

executableReady == tool.enabled /\ tool.id = disk

(* writeCredentialLoginError and the deferred releases of the handler. *)
Answer(c, a) ==
    /\ call' = [call EXCEPT ![c] = [Idle EXCEPT !.answer = a]]
    /\ gate' = gate \ {c}

Goto(c, pc) == call' = [call EXCEPT ![c].pc = pc] /\ UNCHANGED gate

(* Capability loads the file outside the gate. *)
Capability ==
    IF ~executableReady \/ config = Unreadable THEN "unsupported"
    ELSE IF supportsConjurPasswordLogin(config) THEN "password"
    ELSE IF conjurConnectionSetupRequired(config) THEN "setup"
    ELSE IF Interactive /\ supportsConjurVendorLogin(config) THEN "vendor"
    ELSE "unsupported"

(* The checks made before the gate. *)
Admitted(op, r) ==
    CASE op = "configure"   -> tool.enabled /\ validConjurConnectionRequest(r)
      [] op = "login"       -> tool.enabled
      [] op = "interactive" -> tool.enabled /\ Interactive
      [] OTHER              -> executableReady

(* Mutants: a request that does not find the gate free waits inside with    *)
(* the other one, and a reader that overtakes a waiting writer.             *)
acquireAuthGate_Always == TRUE
MayRead_Overtakes == TRUE

acquireAuthGate == gate = {}

(* sync.RWMutex admits no reader while a writer waits. *)
MayRead == ~writer

(* The handler decodes, takes s.mu, checks and tries the gate. *)
Begin(c, op, r) ==
    /\ call[c].pc = "idle"
    /\ MayRead
    /\ op # "configure" => r = NoRequest
    /\ LET refused == CASE op = "capability" -> Capability
                        [] op = "configure" /\ ~Decodable(r) -> "invalid"
                        [] OTHER -> IF ~Admitted(op, r) THEN "unsupported"
                                    ELSE IF ~acquireAuthGate THEN "busy" ELSE "none"
       IN  IF refused # "none"
           THEN /\ call' = [call EXCEPT ![c] = [Idle EXCEPT !.answer = refused]]
                /\ UNCHANGED gate
           ELSE /\ call' = [call EXCEPT ![c] = [Idle EXCEPT !.op = op, !.pc = "held", !.req = r]]
                /\ gate' = gate \cup {c}
    /\ UNCHANGED <<config, session, disk, tool, writer, edits>>

(* The executable, the client and the file are looked at again inside the   *)
(* gate; Connection looked at the executable before it.                     *)
Refuse(c) ==
    /\ call[c].pc = "held"
    /\ \/ /\ call[c].op # "connection"
          /\ ~executableReady \/ call[c].gone
          /\ Answer(c, "unavailable")
       \/ /\ call[c].op = "connection" \/ (executableReady /\ ~call[c].gone)
          /\ config = Unreadable
          /\ Answer(c, IF call[c].op = "interactive" THEN "unsupported" ELSE "unavailable")
    /\ UNCHANGED <<config, session, disk, tool, writer, edits>>

Loaded(c, op) ==
    /\ call[c].pc = "held" /\ call[c].op = op
    /\ config # Unreadable
    /\ op # "connection" => executableReady /\ ~call[c].gone
    /\ UNCHANGED <<config, session, disk, tool, writer, edits>>

ReadConnection(c) ==
    /\ Loaded(c, "connection")
    /\ Answer(c, IF ~Reportable(config) THEN "unavailable"
                 ELSE IF Configurable(config) THEN "configurable" ELSE "fixed")

Configure(c) ==
    /\ Loaded(c, "configure")
    /\ LET v == ConfigureVerdict(config, call[c].req)
       IN  IF v = "init"
           THEN /\ call' = [call EXCEPT ![c].pc = "init", ![c].seen = config]
                /\ UNCHANGED gate
           ELSE Answer(c, v)

Login(c) ==
    /\ Loaded(c, "login")
    /\ IF supportsConjurPasswordLogin(config)
       THEN \/ /\ call' = [call EXCEPT ![c].pc = "exchange", ![c].seen = config]
               /\ UNCHANGED gate
            \/ Answer(c, "unavailable")                 \* newClient failed
       ELSE Answer(c, "unsupported")

(* The vendor's own login is started and left alone, in a console or hidden. *)
LaunchInteractive(c) ==
    /\ Loaded(c, "interactive")
    /\ IF supportsConjurVendorLogin(config)
       THEN \E a \in {"ok", "unavailable"} : Answer(c, a)
       ELSE Answer(c, "unsupported")

(* External: conjur init rewrites its file in two steps. *)
InitWrites(c) ==
    /\ LET r == call[c].req
           whole == IF r.env = "saas"
                    THEN [url |-> canonicalConjurSaaSURL(r.url), account |-> "conjur",
                          authn |-> "cloud", service |-> "cyberark", env |-> "saas",
                          writable |-> TRUE, jwt |-> FALSE]
                    ELSE [url |-> r.url, account |-> r.account, authn |-> r.authn,
                          service |-> r.service, env |-> "self-hosted",
                          writable |-> TRUE, jwt |-> FALSE]
       IN  \/ /\ call[c].pc = "init"
              /\ config' = [Blank EXCEPT !.url = whole.url, !.env = whole.env]
              /\ Goto(c, "half")
           \/ /\ call[c].pc = "half"
              /\ config' = whole
              /\ Goto(c, "written")
    /\ UNCHANGED <<session, disk, tool, writer, edits>>

(* runConjurConnectionInit returns: the process ended or was killed by the  *)
(* deadline or by the client's departure, wherever it was.                  *)
InitEnds(c) ==
    /\ call[c].pc \in {"init", "half", "written"}
    /\ Goto(c, "exited")
    /\ UNCHANGED <<config, session, disk, tool, writer, edits>>

(* The file decides, however init ended. *)
Reconcile(c) ==
    /\ call[c].pc = "exited"
    /\ Answer(c, IF config # Unreadable /\ Configured(config, call[c].req)
                 THEN "ok" ELSE "unavailable")
    /\ UNCHANGED <<config, session, disk, tool, writer, edits>>

(* External: the vendor library exchanges the password and stores a session *)
(* for the connection it was given; classifyConjurCredentialLoginError.     *)
Exchange(c) ==
    /\ call[c].pc = "exchange"
    /\ \/ session' = call[c].seen /\ Goto(c, "stored")
       \/ /\ UNCHANGED session
          /\ \E a \in {"rejected", "unavailable"} : Answer(c, a)
    /\ UNCHANGED <<config, disk, tool, writer, edits>>

(* Login's last look at the file. *)
VerifyLogin(c) ==
    /\ call[c].pc = "stored"
    /\ Answer(c, IF config # Unreadable /\ sameConjurPasswordAuthContext(call[c].seen, config)
                 THEN "ok" ELSE "unavailable")
    /\ UNCHANGED <<config, session, disk, tool, writer, edits>>

(* The browser leaves: r.Context() is done. *)
Disconnect(c) ==
    /\ Running(c) /\ ~call[c].gone
    /\ call' = [call EXCEPT ![c].gone = TRUE]
    /\ UNCHANGED <<config, session, disk, tool, writer, gate, edits>>

(* activateTool asks for the write half of s.mu, and gets it. *)
ActivateBegin ==
    /\ ~writer
    /\ tool.id # disk
    /\ writer' = TRUE
    /\ UNCHANGED <<config, session, disk, tool, gate, call, edits>>

activateTool ==
    /\ writer
    /\ \A c \in Clients : ~Running(c)
    /\ tool' = [enabled |-> TRUE, id |-> disk]
    /\ writer' = FALSE
    /\ UNCHANGED <<config, session, disk, gate, call, edits>>

(* External: another program edits the vendor file or replaces the tool. *)
Outside ==
    /\ edits < MaxEdits
    /\ edits' = edits + 1
    /\ \/ /\ config' \in Edits \ {config}
          /\ call' = [c \in Clients |-> [call[c] EXCEPT !.edited = Running(c)]]
          /\ UNCHANGED disk
       \/ disk' \in Binaries \ {disk} /\ UNCHANGED <<config, call>>
    /\ UNCHANGED <<session, tool, writer, gate>>

-----------------------------------------------------------------------------
Init ==
    /\ config \in Edits
    /\ session = Blank
    /\ disk \in Binaries
    /\ tool = [enabled |-> TRUE, id |-> disk]
    /\ writer = FALSE
    /\ gate = {}
    /\ call = [c \in Clients |-> Idle]
    /\ edits = 0

Step(c) ==
    \/ Refuse(c) \/ ReadConnection(c) \/ Configure(c) \/ Login(c)
    \/ LaunchInteractive(c) \/ InitEnds(c) \/ Reconcile(c)
    \/ Exchange(c) \/ VerifyLogin(c)

Next ==
    \/ \E c \in Clients :
          \/ \E op \in Ops, r \in Requests \cup {NoRequest} : Begin(c, op, r)
          \/ Step(c) \/ InitWrites(c) \/ Disconnect(c)
    \/ ActivateBegin \/ activateTool \/ Outside

Spec == Init /\ [][Next]_vars

(* Every wait of a request has a deadline (45 s for init, 20 s for the      *)
(* exchange), so each request keeps moving; the lock goes to who waits.     *)
FairSpec == Spec /\ \A c \in Clients : WF_vars(Step(c)) /\ WF_vars(activateTool)

-----------------------------------------------------------------------------
(* Properties *)

(* Every variable keeps its type; a request that goes on has judged a file   *)
(* that could be read.                                                      *)
TypeOK ==
    /\ disk \in Binaries
    /\ tool \in [enabled : BOOLEAN, id : Binaries]
    /\ writer \in BOOLEAN
    /\ gate \subseteq Clients
    /\ edits \in 0..MaxEdits
    /\ \A c \in Clients :
          /\ call[c].op \in Ops \cup {"none"} /\ call[c].pc \in Inside \cup {"idle"}
          /\ call[c].req \in Requests \cup {NoRequest}
          /\ call[c].seen # Unreadable
          /\ {call[c].edited, call[c].gone} \subseteq BOOLEAN

(* The gate is held by exactly the request that is inside, and only one is: *)
(* no path of a handler leaks it, and nobody reads or writes the vendor's   *)
(* file while an init of ours has written half of it (acquireAuthGate,      *)
(* releaseAuthGate).                                                        *)
GateExclusive ==
    /\ TypeOK
    /\ gate = {c \in Clients : Running(c)}
    /\ Cardinality(gate) <= 1

(* The first write of an init replaces the very file its request judged,    *)
(* unless somebody outside rewrote it meanwhile, and a working connection   *)
(* is replaced only by a request that named it (configureSaaS: "never       *)
(* implicit force").                                                        *)
NoBlindOverwrite ==
    [][\A c \in Clients :
          (/\ call[c].pc = "init" /\ call'[c].pc = "half" /\ ~call[c].edited) =>
          /\ config = call[c].seen
          /\ (supportsConjurPasswordLogin(config) \/ conjurSaaSMatches(config, config.url))
                => call[c].req.expected = config.url]_vars

(* "ok" is true when it is said: a configuration answered with success is   *)
(* the one in the file, and a sign-in answered with success stored a        *)
(* session for the connection in the file, whatever init, the deadline and  *)
(* other programs did in between (Configure, Login).                        *)
SuccessIsTrue ==
    [][\A c \in Clients :
          (Running(c) /\ call'[c].pc = "idle" /\ call'[c].answer = "ok") =>
          /\ call[c].op = "configure" => Configured(config, call[c].req)
          /\ call[c].op = "login" =>
                [session EXCEPT !.jwt = FALSE] = [config EXCEPT !.jwt = FALSE]]_vars

(* Every request ends, and a tool waiting to be activated is activated: a   *)
(* stream of requests cannot keep activateTool from the lock.               *)
EveryoneServed ==
    /\ \A c \in Clients : Running(c) ~> ~Running(c)
    /\ writer ~> ~writer
=============================================================================
