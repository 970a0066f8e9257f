----------------------------- MODULE TlsConfig ------------------------------
(***************************************************************************)
(* What a session trusts: RustTLSContext::Config and RustTLSContext of     *)
(* openvpn-connect-sys/src/rust_tls.hpp, which collect the TLS options,    *)
(* config_new, OpenVpnServerVerifier, CertificatePolicy and                *)
(* ExternalSigningKey of openvpn-connect-sys/src/rust_backend/tls.rs,      *)
(* which turn them into a rustls configuration and answer its questions.   *)
(*                                                                         *)
(* A text option is a record: whether it is given at all, whether it       *)
(* parses, and the items found.  A text of comments is given, parses, and  *)
(* has no items.  The revocation lists are a sequence, for webpki sees     *)
(* their order.  A certificate is a record of what the checks look at; a   *)
(* name is a sequence of characters; the legacy names replace "*" always   *)
(* and ":" in a common name only.  rustls, webpki, x509-parser, Core's     *)
(* option list and the peer are the environment.                           *)
(***************************************************************************)
EXTENDS Integers, Sequences, FiniteSets, SequencesExt, FiniteSetsExt

CONSTANTS
    Scenarios,  \* the options of an application and the server it reaches
    Passwords,  \* private key passwords
    MaxBuilds   \* bound on the factories built from one configuration

(* A profile and a server.  A text that is not given has no items; the     *)
(* enumerations and sizes are those of the parsers in front of Config.     *)
ScenarioValid(o, s) ==
    /\ o.pins.given \in BOOLEAN
    /\ o.crl.items \in Seq([issuer : STRING, revoked : SUBSET STRING])
    /\ ~o.crl.given => o.crl.items = << >>
    /\ o.min \in Nat /\ o.max \in Nat
    /\ o.nsCertType \in {"none", "server", "client"}
    /\ o.nameMode \in {"none", "subject", "name", "name-prefix"}
    /\ o.name \in Seq(STRING) /\ o.tlsRemote \in Seq(STRING) /\ s.cn \in Seq(STRING)
    /\ o.keyType \in {"RSA", "ECDSA", "ED25519", "DSA"}
    /\ s.keyUsage.octet \in 0..255

ASSUME TlsConfigAssumption ==
    /\ MaxBuilds \in Nat /\ "" \in Passwords
    /\ \A s \in Scenarios : ScenarioValid(s.options, s.server)

VARIABLES
    server,    \* the peer
    options,   \* the fields Config takes from the options
    config,    \* RustTLSContext::Config: whether it is loaded and what is set apart
    factory,   \* RustTLSContext: the verifier and the suites built from it
    builds,    \* factories built so far
    conn       \* one TLS connection of the factory
tlsConfigVars == <<server, options, config, factory, builds, conn>>

NoText == [given |-> FALSE, ok |-> TRUE, items |-> {}]
Text(S) == [given |-> TRUE, ok |-> TRUE, items |-> S]
Garbage == [given |-> TRUE, ok |-> FALSE, items |-> {}]
NoLists == [given |-> FALSE, ok |-> TRUE, items |-> << >>]
Lists(q) == [given |-> TRUE, ok |-> TRUE, items |-> q]

UNDEF == 0
TLS_VERSION_1_2 == 3
TLS_VERSION_1_3 == 4

-----------------------------------------------------------------------------
(* Parsing.                                                                *)

(* A private key is in the clear or needs its password.                    *)
KeysOpened(text, password) == {k \in text.items : k.password \in {"", password}}
ParseKey(text, password) == text.given /\ text.ok /\ KeysOpened(text, password) # {}

Validate(kind, text, password) ==
    CASE kind = "cert"     -> text.ok /\ Cardinality(text.items) = 1
      [] kind = "cert_list" -> text.ok /\ text.items # {}
      [] kind = "crl"      -> text.ok /\ text.items # << >>
      [] kind = "key"      -> ParseKey(text, password)

ProtocolVersions(min, max) ==
    LET low  == IF min = UNDEF THEN TLS_VERSION_1_2 ELSE Max({min, TLS_VERSION_1_2})
        high == IF max = UNDEF THEN TLS_VERSION_1_3 ELSE max
    IN  {v \in {TLS_VERSION_1_2, TLS_VERSION_1_3} : low <= v /\ v <= high}

(* The suites and groups of rustls' ring provider that the instance tells  *)
(* apart, by the names a selector may use for them.                        *)
Suites12 == {"ECDHE_RSA_AES128_GCM", "ECDHE_RSA_CHACHA20"}
Suites13 == {"TLS13_AES128_GCM", "TLS13_CHACHA20"}
SuiteVersion(s) == IF s \in Suites13 THEN TLS_VERSION_1_3 ELSE TLS_VERSION_1_2
Groups == {"X25519", "SECP256R1"}
GroupNames == [X25519 |-> {"X25519"}, SECP256R1 |-> {"SECP256R1", "PRIME256V1", "P_256"}]
SuiteNames(s) ==
    CASE s = "ECDHE_RSA_AES128_GCM" ->
             {"TLS_ECDHE_RSA_WITH_AES_128_GCM_SHA256", "ECDHE_RSA_AES128_GCM_SHA256"}
      [] s = "ECDHE_RSA_CHACHA20" ->
             {"TLS_ECDHE_RSA_WITH_CHACHA20_POLY1305_SHA256", "ECDHE_RSA_CHACHA20_POLY1305"}
      [] s = "TLS13_AES128_GCM" -> {"TLS13_AES_128_GCM_SHA256"}
      [] s = "TLS13_CHACHA20" -> {"TLS13_CHACHA20_POLY1305_SHA256"}

(* A selector without DEFAULT restricts its own protocol version only.     *)
Restricts(names) == names # {} /\ "DEFAULT" \notin names

ConfiguredSuites(o) ==
    {s \in Suites12 : Restricts(o.ciphers) => SuiteNames(s) \cap o.ciphers # {}}
      \cup
    {s \in Suites13 : Restricts(o.ciphersuites) => SuiteNames(s) \cap o.ciphersuites # {}}

ConfiguredGroups(o) ==
    {g \in Groups : Restricts(o.groups) => GroupNames[g] \cap o.groups # {}}

-----------------------------------------------------------------------------
(* CertificatePolicy.                                                      *)

ServerAuth == "1.3.6.1.5.5.7.3.1"
ClientAuth == "1.3.6.1.5.5.7.3.2"
AnyUsage == "2.5.29.37.0"

PolicyValid(o) == o.nameMode = "none" \/ o.name # << >>

NsCertTypeVerified(o, s) ==
    \/ o.nsCertType = "none"
    \/ o.nsCertType \in s.nsCertTypes
    \/ s.eku.given /\ ({AnyUsage, IF o.nsCertType = "server" THEN ServerAuth
                                                            ELSE ClientAuth}
                         \cap s.eku.items # {})

(* x509-parser numbers the bits of a key usage from the first of its BIT   *)
(* STRING, the high bit of its octet; remote-cert-ku gives the octet.  The *)
(* ninth bit is in no octet and is not looked at.                          *)
BitValues == <<128, 64, 32, 16, 8, 4, 2, 1>>
UsageFlags(octet) == {b \in 0..7 : (octet \div BitValues[b + 1]) % 2 = 1}
EncodedUsage(flags) ==
    LET encoded(b) == IF b \in flags THEN BitValues[b + 1] ELSE 0
    IN  encoded(0) + encoded(1) + encoded(2) + encoded(3)
          + encoded(4) + encoded(5) + encoded(6) + encoded(7)

KeyUsageVerified(o, s) ==
    o.keyUsages # {}
        => s.keyUsage.given /\ EncodedUsage(UsageFlags(s.keyUsage.octet)) \in o.keyUsages

ServerNames == {ServerAuth, "TLS Web Server Authentication"}
ClientNames == {ClientAuth, "TLS Web Client Authentication"}
UsageNamed(expected) ==
    CASE expected \in ServerNames           -> ServerAuth
      [] expected \in ClientNames           -> ClientAuth
      [] expected = "Code Signing"          -> "1.3.6.1.5.5.7.3.3"
      [] expected = "E-mail Protection"     -> "1.3.6.1.5.5.7.3.4"
      [] expected = "Time Stamping"         -> "1.3.6.1.5.5.7.3.8"
      [] expected = "OCSP Signing"          -> "1.3.6.1.5.5.7.3.9"
      [] OTHER                              -> expected
ExtendedKeyUsageMatches(usages, expected) ==
    AnyUsage \in usages \/ UsageNamed(expected) \in usages

ExtendedKeyUsageVerified(o, s) ==
    o.extendedKeyUsage # ""
        => s.eku.given /\ ExtendedKeyUsageMatches(s.eku.items, o.extendedKeyUsage)

Subject(s) == <<"CN">> \o s.cn
Sanitize(name, unsafe) == [i \in DOMAIN name |-> IF name[i] \in unsafe THEN "_" ELSE name[i]]

NameVerified(o, s) ==
    CASE o.nameMode = "none"        -> TRUE
      [] o.nameMode = "subject"     -> o.name = Subject(s)
      [] o.nameMode = "name"        -> o.name = s.cn
      [] o.nameMode = "name-prefix" -> IsPrefix(o.name, s.cn)

TlsRemoteVerified(o, s) ==
    \/ o.tlsRemote = << >>
    \/ o.tlsRemote = <<"/">> \o Sanitize(Subject(s), {"*"})
    \/ IsPrefix(o.tlsRemote, Sanitize(s.cn, {"*", ":"}))

PolicyVerified(o, s) ==
    /\ NsCertTypeVerified(o, s)
    /\ KeyUsageVerified(o, s)
    /\ ExtendedKeyUsageVerified(o, s)
    /\ NameVerified(o, s)
    /\ TlsRemoteVerified(o, s)

-----------------------------------------------------------------------------
(* OpenVpnServerVerifier.  webpki wants a path to a root within its dates, *)
(* an extended key usage of server_auth itself when there is one, and when *)
(* lists are given, one of the issuer; the first of these is consulted.    *)
VerifyForUsage(roots, crls, s) ==
    /\ s.issuer \in roots /\ s.current
    /\ s.eku.given => ServerAuth \in s.eku.items
    /\ crls # << >> => \E i \in DOMAIN crls :
                           /\ crls[i].issuer = s.issuer /\ s.id \notin crls[i].revoked
                           /\ \A j \in 1..(i - 1) : crls[j].issuer # s.issuer

VerifyServerCert(f, s) ==
    /\ f.verifyChain => IF f.pins # {} THEN s.id \in f.pins
                                       ELSE VerifyForUsage(f.roots, f.crls, s)
    /\ PolicyVerified(f.policy, s)

-----------------------------------------------------------------------------
(* ExternalSigningKey: the schemes of a key, in the order of preference.   *)
PreferredSchemes ==
    [RSA     |-> <<"RSA_PSS_SHA256", "RSA_PKCS1_SHA256">>,
     ECDSA   |-> <<"ECDSA_NISTP256_SHA256">>,
     ED25519 |-> <<"ED25519">>,
     DSA     |-> << >>]

ChooseScheme(algorithm, offered) ==
    LET preferred == PreferredSchemes[algorithm]
        usable    == {i \in 1..Len(preferred) : preferred[i] \in offered}
    IN  IF usable = {} THEN "none"
        ELSE preferred[CHOOSE i \in usable : \A j \in usable : i <= j]

(* external_sign asks the application; a signature that is refused, empty  *)
(* or longer than the buffer is an error of the handshake.                 *)
SignOutcomes == {"signed", "refused", "empty", "too long"}
SignAccepted(outcome) == outcome = "signed"

-----------------------------------------------------------------------------
(* Config::load: a text that does not validate throws and Core gives the   *)
(* configuration up.                                                       *)
TextsValid(o, password) ==
    /\ o.ca.given => Validate("cert_list", o.ca, "")
    /\ o.crl.given => Validate("crl", o.crl, "")
    /\ o.localCert => /\ Validate("cert", o.cert, "")
                      /\ o.extraCerts.given => Validate("cert_list", o.extraCerts, "")
                      /\ ~o.externalPki => Validate("key", o.key, password)

Load ==
    /\ config.state = "new"
    /\ config' = IF TextsValid(options, config.password)
                   THEN [config EXCEPT !.state = "loaded", !.min = options.min,
                                       !.verifyPins = options.pins.given]
                   ELSE [config EXCEPT !.state = "failed"]
    /\ UNCHANGED <<server, options, factory, builds, conn>>

(* Core has a password to set only for a profile with a key of its own.    *)
SetPrivateKeyPassword(p) ==
    /\ config.state # "failed" /\ options.key.given
    /\ config' = [config EXCEPT !.password = p]
    /\ UNCHANGED <<server, options, factory, builds, conn>>

(* TLSVersion::apply_override after load().                                *)
SetTlsVersionMin(v) ==
    /\ config.state = "loaded"
    /\ config' = [config EXCEPT !.min = v]
    /\ UNCHANGED <<server, options, factory, builds, conn>>

-----------------------------------------------------------------------------
(* config_new.                                                             *)

(* The chain is checked for whoever does not waive it, or pins a server.   *)
(* A reading that forgets the pins comes first.                            *)
ChainUnlessWaived(o, c) == ~o.noVerify
ChainVerified(o, c) == ~o.noVerify \/ c.verifyPins

ConfigAccepted(o, c) ==
    /\ ConfiguredSuites(o) # {} /\ ConfiguredGroups(o) # {}
    /\ ProtocolVersions(c.min, o.max) # {}
    /\ o.pins.ok
    /\ PolicyValid(o)
    /\ "malformed" \notin o.ca.items
    /\ ~o.noVerify /\ o.pins.items = {} => o.ca.items # {}
    /\ \A i \in DOMAIN o.crl.items : o.crl.items[i].issuer # "malformed"
    /\ \E s \in ConfiguredSuites(o) : SuiteVersion(s) \in ProtocolVersions(c.min, o.max)
    /\ o.localCert => o.cert.items \cup o.extraCerts.items # {}
    /\ o.localCert => PreferredSchemes[o.keyType] # << >>
    /\ o.localCert /\ ~o.externalPki => /\ ParseKey(o.key, c.password)
                                        /\ \A k \in o.key.items : k.id \in o.cert.items

Built(o, c) ==
    [state |-> "ready", roots |-> o.ca.items, crls |-> o.crl.items,
     pins |-> o.pins.items, verifyChain |-> ChainVerified(o, c), policy |-> o,
     versions |-> ProtocolVersions(c.min, o.max), suites |-> ConfiguredSuites(o),
     groups |-> ConfiguredGroups(o), localCert |-> o.localCert, asked |-> o,
     signer |-> {k.id : k \in KeysOpened(o.key, c.password)}, min |-> c.min]

NoFactory == [state |-> "none"]
NoConn == [state |-> "none"]

NewFactory ==
    /\ config.state = "loaded" /\ factory.state = "none" /\ builds < MaxBuilds
    /\ builds' = builds + 1
    /\ factory' = IF ConfigAccepted(options, config) THEN Built(options, config)
                                                     ELSE [state |-> "failed"]
    /\ UNCHANGED <<server, options, config, conn>>

(* Core keeps the factory while a connection may still ask for a signature.*)
FreeFactory ==
    /\ factory.state # "none" /\ conn.state \notin {"connecting", "verified"}
    /\ factory' = NoFactory
    /\ UNCHANGED <<server, options, config, builds, conn>>

-----------------------------------------------------------------------------
(* A connection keeps the configuration it was created with.               *)

ConnectionNew ==
    /\ factory.state = "ready" /\ conn.state = "none"
    /\ conn' = [state |-> "connecting", tls |-> factory]
    /\ UNCHANGED <<server, options, config, factory, builds>>

Negotiable(f, s) ==
    {n \in [suite : f.suites \cap s.suites, group : f.groups \cap s.groups] :
        SuiteVersion(n.suite) \in f.versions \cap s.versions}

MeetServer ==
    /\ conn.state = "connecting"
    /\ IF Negotiable(conn.tls, server) = {}
         THEN conn' = [state |-> "no agreement", tls |-> conn.tls]
         ELSE IF ~VerifyServerCert(conn.tls, server)
         THEN conn' = [state |-> "rejected", tls |-> conn.tls]
         ELSE \E n \in Negotiable(conn.tls, server) :
                 conn' = [state |-> "verified", tls |-> conn.tls, agreed |-> n]
    /\ UNCHANGED <<server, options, config, factory, builds>>

(* The server may ask for the client's certificate.                        *)
AuthenticateClient(outcome) ==
    LET scheme == ChooseScheme(conn.tls.asked.keyType, server.schemes)
        signs  == conn.tls.localCert /\ scheme # "none"
    IN  /\ conn.state = "verified"
        /\ ~conn.tls.asked.externalPki => outcome = "signed"
        /\ conn' = IF signs /\ ~SignAccepted(outcome)
                     THEN [state |-> "sign failed", tls |-> conn.tls]
                     ELSE [state |-> "up", tls |-> conn.tls, agreed |-> conn.agreed,
                           outcome |-> outcome,
                           scheme |-> IF signs THEN scheme ELSE "none"]
        /\ UNCHANGED <<server, options, config, factory, builds>>

ConnectionFree ==
    /\ conn.state # "none"
    /\ conn' = NoConn
    /\ UNCHANGED <<server, options, config, factory, builds>>

TlsConfigInit ==
    /\ \E s \in Scenarios : options = s.options /\ server = s.server
    /\ config = [state |-> "new", password |-> "", verifyPins |-> FALSE, min |-> UNDEF]
    /\ factory = NoFactory
    /\ builds = 0
    /\ conn = NoConn

TlsConfigNext ==
    \/ Load \/ NewFactory \/ FreeFactory
    \/ ConnectionNew \/ MeetServer \/ ConnectionFree
    \/ \E p \in Passwords : SetPrivateKeyPassword(p)
    \/ SetTlsVersionMin(TLS_VERSION_1_3)
    \/ \E outcome \in SignOutcomes : AuthenticateClient(outcome)

-----------------------------------------------------------------------------
(* What the options ask of a server, from the option's side: the waiver,   *)
(* the pins or the chain; the purposes; the name.                          *)

(* A list that names the server counts unless another list of the same     *)
(* issuer comes before it; without a list of the issuer nothing is known.  *)
NotRevoked(lists, s) ==
    LET own(i) == lists[i].issuer = s.issuer
    IN  /\ \E i \in DOMAIN lists : own(i)
        /\ \A i \in DOMAIN lists : own(i) /\ s.id \in lists[i].revoked
                                      => \E j \in 1..(i - 1) : own(j)

Trusted(o, s) ==
    \/ o.noVerify /\ ~o.pins.given
    \/ s.id \in o.pins.items
    \/ /\ o.pins.items = {} /\ s.issuer \in o.ca.items /\ s.current
       /\ s.eku.given => ServerAuth \in s.eku.items
       /\ o.crl.given => NotRevoked(o.crl.items, s)

HasPurpose(s, oid) == s.eku.given /\ {AnyUsage, oid} \cap s.eku.items # {}

Purposed(o, s) ==
    /\ o.nsCertType = "server" => "server" \in s.nsCertTypes \/ HasPurpose(s, ServerAuth)
    /\ o.nsCertType = "client" => "client" \in s.nsCertTypes \/ HasPurpose(s, ClientAuth)
    /\ o.keyUsages # {} => s.keyUsage.given /\ s.keyUsage.octet \in o.keyUsages
    /\ o.extendedKeyUsage \in ServerNames => HasPurpose(s, ServerAuth)
    /\ o.extendedKeyUsage \in ClientNames => HasPurpose(s, ClientAuth)
    /\ o.extendedKeyUsage \notin {""} \cup ServerNames \cup ClientNames
          => HasPurpose(s, UsageNamed(o.extendedKeyUsage))

(* The beginning of a name, with "_" for every unsafe character in it and  *)
(* every other character as it is.                                         *)
Spells(given, name, unsafe) ==
    /\ Len(given) <= Len(name)
    /\ \A i \in 1..Len(given) : IF name[i] \in unsafe THEN given[i] = "_"
                                                     ELSE given[i] = name[i]

Named(o, s) ==
    /\ o.nameMode = "subject" => o.name = Subject(s)
    /\ o.nameMode = "name" => o.name = s.cn
    /\ o.nameMode = "name-prefix" => \E n \in 1..Len(s.cn) : o.name = SubSeq(s.cn, 1, n)
    /\ \/ Spells(o.tlsRemote, s.cn, {"*", ":"})
       \/ /\ Len(o.tlsRemote) = Len(Subject(s)) + 1
          /\ Spells(o.tlsRemote, <<"/">> \o Subject(s), {"*"})

(* What a finished handshake owes its options: config_new and the verifier *)
(* of tls.rs, through every flag and default between them.  The server is  *)
(* one the options trust, for the purposes and under the name they give,   *)
(* and a rejected one is not; the suite, its version and the group are in  *)
(* the ranges asked, however the lists combine; the client's signature, if *)
(* there is one, is of a scheme the server offered, was really made and,   *)
(* without external PKI, by a key the password opened, the certificate's.  *)
HandshakeTrusted ==
    /\ conn.state = "rejected"
          => LET o == conn.tls.asked IN
             ~(Trusted(o, server) /\ Purposed(o, server) /\ Named(o, server))
    /\ conn.state \in {"verified", "up"} =>
          LET o == conn.tls.asked
              v == SuiteVersion(conn.agreed.suite)
          IN  /\ Trusted(o, server)
              /\ Purposed(o, server)
              /\ Named(o, server)
              /\ v >= conn.tls.min /\ (o.max # UNDEF => v <= o.max)
              /\ LET asked == IF v = TLS_VERSION_1_2 THEN o.ciphers ELSE o.ciphersuites
                 IN  asked = {} \/ ({"DEFAULT"} \cup SuiteNames(conn.agreed.suite)) \cap asked # {}
              /\ o.groups = {} \/ ({"DEFAULT"} \cup GroupNames[conn.agreed.group]) \cap o.groups # {}
    /\ conn.state = "up" /\ conn.scheme # "none"
          => /\ conn.scheme \in server.schemes /\ conn.outcome = "signed"
             /\ ~conn.tls.asked.externalPki =>
                   conn.tls.signer # {} /\ conn.tls.signer \subseteq conn.tls.asked.cert.items

TlsConfigTypeOK ==
    /\ config \in [state : {"new", "loaded", "failed"}, password : Passwords,
                   verifyPins : BOOLEAN, min : Nat]
    /\ factory.state \in {"none", "ready", "failed"}
    /\ builds \in 0..MaxBuilds
    /\ conn.state \in {"none", "connecting", "no agreement", "rejected", "verified",
                        "sign failed", "up"}

(* A configuration that holds what the options say, flag by flag.          *)
Faithful(f) ==
    /\ f.asked = options /\ f.policy = options
    /\ f.roots = options.ca.items /\ f.crls = options.crl.items /\ f.pins = options.pins.items
    /\ f.verifyChain <=> ~options.noVerify \/ options.pins.given
    /\ f.min \in Nat /\ f.versions = ProtocolVersions(f.min, options.max)
    /\ f.suites = ConfiguredSuites(options) /\ f.groups = ConfiguredGroups(options)
    /\ PolicyValid(options)
    /\ options.crl.given => options.crl.items # << >>
    /\ f.localCert = options.localCert
    /\ options.localCert /\ ~options.externalPki =>
          f.signer # {} /\ f.signer \subseteq options.cert.items

(* Whatever a handshake uses was built from options that were loaded; a    *)
(* password or a version set in between changes nothing else.              *)
TrustInv ==
    /\ ScenarioValid(options, server)
    /\ config.state = "loaded" =>
          /\ config.verifyPins = options.pins.given
          /\ options.crl.given => options.crl.items # << >>
    /\ factory.state = "ready" => Faithful(factory)
    /\ conn.state # "none" => Faithful(conn.tls)

(* The invariant of the configuration, its factory and its connection.     *)
TlsConfigInv == TlsConfigTypeOK /\ TrustInv /\ HandshakeTrusted
=============================================================================
