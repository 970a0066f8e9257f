--------------------------- MODULE MCRustBackend ----------------------------
(***************************************************************************)
(* The three parts of the Rust backend that share nothing but the table    *)
(* they are registered in: a behaviour follows one of them.  The TLS       *)
(* scenarios vary the trust, the policy, the algorithms or the client's    *)
(* key around one profile and one server.                                  *)
(***************************************************************************)
EXTENDS TlsConfig, CryptoContext, Resolver

VARIABLE part
vars == <<part, tlsConfigVars, cryptoVars, resolverVars>>

Profile ==
    [ca |-> Text({"ca1"}), crl |-> NoLists, pins |-> NoText, noVerify |-> FALSE,
     nsCertType |-> "none", keyUsages |-> {}, extendedKeyUsage |-> "",
     tlsRemote |-> << >>, nameMode |-> "none", name |-> << >>, min |-> UNDEF,
     max |-> UNDEF, ciphers |-> {}, ciphersuites |-> {}, groups |-> {},
     localCert |-> FALSE, cert |-> NoText, extraCerts |-> NoText, key |-> NoText,
     externalPki |-> FALSE, keyType |-> "RSA"]

Server ==
    [id |-> "s1", issuer |-> "ca1", current |-> TRUE, eku |-> Text({ServerAuth}),
     keyUsage |-> [given |-> TRUE, octet |-> 160], nsCertTypes |-> {},
     cn |-> <<"v", "*">>, versions |-> {TLS_VERSION_1_3},
     suites |-> {"TLS13_AES128_GCM"}, groups |-> {"X25519"},
     schemes |-> {"RSA_PKCS1_SHA256", "ECDSA_NISTP256_SHA256"}]

Pairs(profiles, servers) == [options : profiles, server : servers]

Revokes(issuer, ids) == [issuer |-> issuer, revoked |-> ids]

Trust == Pairs(
    {[Profile EXCEPT !.ca = ca, !.crl = crl, !.pins = pins, !.noVerify = waived] :
        ca \in {NoText, Text({"ca1"}), Text({"malformed"}), Garbage},
        crl \in {NoLists, Lists(<< >>), Lists(<<Revokes("ca1", {"s2"})>>),
                 Lists(<<Revokes("ca1", {}), Revokes("ca1", {"s2"})>>),
                 Lists(<<Revokes("ca2", {"s2"}), Revokes("ca1", {"s1"}), Revokes("ca1", {})>>),
                 Lists(<<Revokes("malformed", {})>>)},
        pins \in {NoText, Text({}), Text({"s1"}), Garbage}, waived \in BOOLEAN},
    {[Server EXCEPT !.id = id, !.issuer = issuer, !.current = current] :
        id \in {"s1", "s2"}, issuer \in {"ca1", "ca2"}, current \in BOOLEAN})

Purpose == Pairs(
    {[Profile EXCEPT !.pins = Text({"s1"}), !.nsCertType = type, !.keyUsages = usages,
                     !.extendedKeyUsage = usage] :
        type \in {"none", "server", "client"}, usages \in {{}, {160, 136}},
        usage \in {"", "TLS Web Server Authentication", ClientAuth, "Code Signing"}},
    {[Server EXCEPT !.eku = eku, !.keyUsage = usage, !.nsCertTypes = types] :
        eku \in {NoText, Text({ServerAuth}), Text({ClientAuth}), Text({AnyUsage})},
        usage \in {[given |-> FALSE, octet |-> 0], [given |-> TRUE, octet |-> 160],
                   [given |-> TRUE, octet |-> 17]},
        types \in {{}, {"server"}, {"client"}}})

Naming == Pairs(
    {[Profile EXCEPT !.nameMode = mode, !.name = name, !.tlsRemote = remote] :
        mode \in {"none", "subject", "name", "name-prefix"},
        name \in {<< >>, <<"v">>, <<"v", "*">>, <<"CN", "v", "*">>},
        remote \in {<< >>, <<"v">>, <<"v", "_">>, <<"v", "*">>, <<"/", "CN", "v", "_">>,
                    <<"/", "CN", "v", ":">>}},
    {[Server EXCEPT !.cn = cn] : cn \in {<< >>, <<"v">>, <<"v", "*">>, <<"v", ":">>, <<"x">>}})

Algorithm == Pairs(
    {[Profile EXCEPT !.min = min, !.max = max, !.ciphers = ciphers, !.ciphersuites = suites,
                     !.groups = groups] :
        min \in {UNDEF, 1, TLS_VERSION_1_3}, max \in {UNDEF, 1, TLS_VERSION_1_2},
        ciphers \in {{}, {"ECDHE_RSA_CHACHA20_POLY1305"}, {"LEGACY"}, {"LEGACY", "DEFAULT"}},
        suites \in {{}, {"TLS13_AES_128_GCM_SHA256"}, {"LEGACY"}},
        groups \in {{}, {"P_256"}, {"LEGACY"}}},
    {[Server EXCEPT !.versions = versions, !.suites = Suites12 \cup Suites13, !.groups = Groups] :
        versions \in {{TLS_VERSION_1_2}, {TLS_VERSION_1_2, TLS_VERSION_1_3}}})

ClientKey == Pairs(
    {[Profile EXCEPT !.localCert = TRUE, !.cert = cert, !.extraCerts = extra, !.key = key,
                     !.externalPki = external, !.keyType = type] :
        cert \in {NoText, Text({}), Text({"kc"}), Text({"kc", "kd"})},
        extra \in {NoText, Text({"kd"}), Text({})},
        key \in {NoText, Text({[id |-> "kc", password |-> ""]}),
                 Text({[id |-> "kc", password |-> "secret"]}),
                 Text({[id |-> "kd", password |-> ""]})},
        external \in BOOLEAN, type \in {"RSA", "ECDSA", "DSA"}},
    {[Server EXCEPT !.schemes = schemes] :
        schemes \in {{"RSA_PKCS1_SHA256"}, {"RSA_PSS_SHA256", "RSA_PKCS1_SHA256",
                                            "ECDSA_NISTP256_SHA256"}}})

MCScenarios == Trust \cup Purpose \cup Naming \cup Algorithm \cup ClientKey

(* Contexts are alike, and so are Core's resolver threads.                 *)
MCSymmetry == Permutations(Contexts) \cup Permutations(Threads)

MCKeys == {[name |-> "k1", length |-> 16], [name |-> "k2", length |-> 32]}

-----------------------------------------------------------------------------
BackendInit ==
    /\ part \in {"tls", "crypto", "dns"}
    /\ TlsConfigInit /\ CryptoInit /\ ResolverInit
    /\ part # "tls" => options = Profile /\ server = Server
    /\ part # "crypto" => kind = "cipher"

BackendNext ==
    /\ UNCHANGED part
    /\ \/ part = "tls" /\ TlsConfigNext /\ UNCHANGED <<cryptoVars, resolverVars>>
       \/ part = "crypto" /\ CryptoNext /\ UNCHANGED <<tlsConfigVars, resolverVars>>
       \/ part = "dns" /\ ResolverNext /\ UNCHANGED <<tlsConfigVars, cryptoVars>>

BackendSpec == BackendInit /\ [][BackendNext]_vars

(* The types of the three parts; a handshake uses what was built from the  *)
(* options that were loaded; no handle of a crypto context is freed twice, *)
(* shared or lost; and the DNS runtime is built once and every call        *)
(* answered with its own host's addresses, or not at all.                  *)
BackendInv ==
    /\ TlsConfigTypeOK /\ TrustInv
    /\ CryptoTypeOK /\ HandlesOwned
    /\ ResolverInv
=============================================================================
