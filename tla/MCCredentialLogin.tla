------------------------- MODULE MCCredentialLogin --------------------------
(* Instances of CredentialLogin for TLC.                                     *)
EXTENDS CredentialLogin, TLC

Self == [Blank EXCEPT !.url = <<"h1", "">>, !.account = "acct", !.env = "self-hosted"]

SaaS(t) == [Blank EXCEPT !.url = <<t, "/api">>, !.account = "conjur", !.authn = "cloud",
                         !.service = "cyberark", !.env = "saas"]

(* Blank, half filled, self-hosted, LDAP of the same appliance, OIDC, a      *)
(* tenant, and a file nobody can read.                                       *)
MCEdits == {Blank, Self, [Self EXCEPT !.authn = "ldap", !.service = "svc"],
            [Self EXCEPT !.authn = "oidc", !.service = "svc"],
            [Self EXCEPT !.account = "bad"], SaaS("t1"), Unreadable}

MCRequests ==
    {[NoRequest EXCEPT !.url = <<"t1", "">>, !.env = "saas", !.account = "conjur", !.authn = "cloud"],
     [NoRequest EXCEPT !.url = <<"t2", "/api">>, !.expected = <<"t1", "/api">>, !.env = "saas",
                       !.account = "conjur", !.authn = "cloud"],
     [NoRequest EXCEPT !.url = <<"h1", "">>, !.account = "acct", !.authn = "authn"],
     [NoRequest EXCEPT !.url = <<"h1", "">>, !.account = "acct", !.authn = "radius"]}

=============================================================================
