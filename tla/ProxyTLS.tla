------------------------------ MODULE ProxyTLS ------------------------------
(***************************************************************************)
(* net/proxy/certificate.go, cipher.go and the TLS part of                 *)
(* http_transport.go: how a transport configuration becomes a TLS          *)
(* configuration, and how a peer's certificates are judged by it.          *)
(*                                                                         *)
(* Names, certificates and file contents are opaque.  Failed stands for a  *)
(* non-nil error, Nil for a nil pointer.  X509KeyPair, certificate parsing *)
(* and chain building are crypto/tls and crypto/x509.                      *)
(***************************************************************************)
EXTENDS Outcomes, Naturals, Sequences, FiniteSets, SequencesExt

CONSTANTS
    FileSystem,     \* the files: a path is mapped to its content or to Failed
    PemCerts,       \* contents that parse as certificates
    KeyPairs,       \* pairs of contents that X509KeyPair accepts
    BadIDs,         \* SPIFFE ids and trust domains that do not parse
    SpiffeSource,   \* whether the manager was given a spiffeX509Source
    SystemRoots     \* the issuers the system trusts

ASSUME ProxyTLSAssumption == SpiffeSource \in BOOLEAN

-----------------------------------------------------------------------------
(* Versions, cipher suites, curves.  Several names share an identifier.    *)

MinVersion == [VersionTLS10 |-> 769, VersionTLS11 |-> 770,
               VersionTLS12 |-> 771, VersionTLS13 |-> 772]

MaxVersion == [VersionTLS10 |-> 769, VersionTLS11 |-> 770,
               VersionTLS12 |-> 771, VersionTLS13 |-> 772]

\* One name of each kind in the table: a suite with one name, and a suite that also
\* has its legacy name without the hash.
CipherSuites == [TLS_AES_128_GCM_SHA256 |-> 4865,
                 TLS_ECDHE_RSA_WITH_CHACHA20_POLY1305 |-> 52392,
                 TLS_ECDHE_RSA_WITH_CHACHA20_POLY1305_SHA256 |-> 52392]

\* The table back: of two names, the one with the hash.
CipherSuitesReversed ==
    [id \in {CipherSuites[n] : n \in DOMAIN CipherSuites} |->
        IF id = 52392 THEN "TLS_ECDHE_RSA_WITH_CHACHA20_POLY1305_SHA256"
        ELSE "TLS_AES_128_GCM_SHA256"]

GetCipherName(id) ==
    IF id \in DOMAIN CipherSuitesReversed THEN CipherSuitesReversed[id] ELSE "unknown"

-----------------------------------------------------------------------------
(* Files and certificates.                                                 *)

IsPath(f) == f \in DOMAIN FileSystem

Read(f) == IF IsPath(f) THEN FileSystem[f] ELSE f

\* A pair whose files cannot be read or do not match is an error.
GetCertificate(c) ==
    IF <<Read(c.certFile), Read(c.keyFile)>> \in KeyPairs
    THEN <<Read(c.certFile), Read(c.keyFile)>> ELSE Failed

\* Certificates that fail are left out.
GetCertificates(cs) == SelectSeq([i \in DOMAIN cs |-> GetCertificate(cs[i])],
                                 LAMBDA c : c # Failed)

\* createHTTPRootCACertPool: nil stands for the system's roots; a configured list gives
\* a pool of its own, empty when nothing in it can be read and parsed.
CreateRootCACertPool(rootCAs) ==
    IF rootCAs = <<>> THEN Nil ELSE {Read(f) : f \in ToSet(rootCAs)} \cap PemCerts

\* buildHTTPSpiffeAuthorizer: ids take precedence over the trust domain.
BuildSpiffeAuthorizer(sp) ==
    IF sp.ids # <<>> THEN
        IF ToSet(sp.ids) \cap BadIDs # {} THEN Failed ELSE <<"oneOf", ToSet(sp.ids)>>
    ELSE IF sp.trustDomain # "" THEN
        IF sp.trustDomain \in BadIDs THEN Failed ELSE <<"memberOf", {sp.trustDomain}>>
    ELSE <<"any", {}>>

-----------------------------------------------------------------------------
(* createTLSConfig.  The fields of a configuration are those of            *)
(* ServersTransport; "" and <<>> are their zero values.                    *)

ServersTransport == [spiffe |-> Nil, serverName |-> "", insecureSkipVerify |-> FALSE,
    rootCAs |-> <<>>, certificates |-> <<>>, cipherSuites |-> <<>>, minVersion |-> "",
    maxVersion |-> "", peerCertURI |-> "", peerCertSANs |-> <<>>,
    forwardingTimeouts |-> Nil, disableHTTP2 |-> FALSE]

\* The condition on the fields under which a TLS configuration is made.
WantsTLS(cfg) ==
    \/ cfg.insecureSkipVerify
    \/ cfg.serverName # "" \/ cfg.peerCertURI # ""
    \/ cfg.minVersion # "" \/ cfg.maxVersion # ""
    \/ cfg.rootCAs # <<>> \/ cfg.certificates # <<>>
    \/ cfg.peerCertSANs # <<>> \/ cfg.cipherSuites # <<>>

Version(table, name) == IF name = "" THEN 0 ELSE table[name]

\* The combinations that are refused: an unset maximum counts as 0, so a minimum alone
\* is above it.
TLSInvalid(cfg) ==
    \/ \E c \in ToSet(cfg.cipherSuites) : c \notin DOMAIN CipherSuites
    \/ cfg.minVersion \notin DOMAIN MinVersion \cup {""}
    \/ cfg.maxVersion \notin DOMAIN MaxVersion \cup {""}
    \/ Version(MinVersion, cfg.minVersion) > Version(MaxVersion, cfg.maxVersion)

SANs(cfg) == cfg.peerCertSANs \o
    (IF cfg.peerCertURI = "" THEN <<>> ELSE <<[type |-> "URI", value |-> cfg.peerCertURI]>>)

SpiffePart(cfg) ==
    IF cfg.spiffe = Nil THEN Nil
    ELSE IF ~SpiffeSource THEN Failed ELSE BuildSpiffeAuthorizer(cfg.spiffe)

CreateTLSConfig(cfg) ==
    LET authorizer == SpiffePart(cfg) IN
    IF authorizer = Failed THEN Failed
    ELSE IF ~WantsTLS(cfg) THEN
        IF authorizer = Nil THEN Nil ELSE [authorizer |-> authorizer]
    ELSE IF authorizer # Nil \/ TLSInvalid(cfg) THEN Failed
    ELSE [serverName |-> cfg.serverName, insecureSkipVerify |-> cfg.insecureSkipVerify,
          rootCAs |-> CreateRootCACertPool(cfg.rootCAs),
          certificates |-> GetCertificates(cfg.certificates),
          cipherSuites |-> [i \in DOMAIN cfg.cipherSuites |-> CipherSuites[cfg.cipherSuites[i]]],
          minVersion |-> Version(MinVersion, cfg.minVersion),
          maxVersion |-> Version(MaxVersion, cfg.maxVersion),
          verifySANs |-> SANs(cfg)]

-----------------------------------------------------------------------------
(* The verification of a peer.  A certificate is a record: whether it      *)
(* parses, its name, its issuer, its URIs and host names.                  *)

\* x509.Certificate.Verify: from the leaf upwards through the other certificates, to a
\* root.  Nil roots are the system's.
ChainsTo(roots, certs) ==
    \E n \in DOMAIN certs :
        /\ certs[n].issuer \in IF roots = Nil THEN SystemRoots ELSE roots
        /\ \A i \in 1..(n - 1) : certs[i].issuer = certs[i + 1].name

VerifyChain(roots, certs) ==
    IF certs = <<>> \/ (\E i \in DOMAIN certs : ~certs[i].parses) \/ ~ChainsTo(roots, certs)
    THEN Failed ELSE certs[1]

MatchesSAN(san, cert) ==
    \/ san.type = "URI" /\ san.value \in cert.uris
    \/ san.type = "DNSName" /\ san.value \in cert.hosts

VerifyPeerCertificate(sans, roots, certs) ==
    LET leaf == VerifyChain(roots, certs) IN
    /\ leaf # Failed
    /\ \E i \in DOMAIN sans : MatchesSAN(sans[i], leaf)

\* crypto/tls and go-spiffe: what the client's side of a handshake with host accepts
\* under a TLS configuration, Nil being the default one.
HandshakeAccepts(tls, host, certs) ==
    IF tls = Nil THEN
        /\ VerifyChain(Nil, certs) # Failed /\ host \in certs[1].hosts
    ELSE IF "authorizer" \in DOMAIN tls THEN
        /\ certs # <<>>
        /\ tls.authorizer[1] # "any" => certs[1].uris \cap tls.authorizer[2] # {}
    ELSE
        /\ tls.insecureSkipVerify \/
             /\ VerifyChain(tls.rootCAs, certs) # Failed
             /\ (IF tls.serverName = "" THEN host ELSE tls.serverName) \in certs[1].hosts
        /\ tls.verifySANs # <<>> => VerifyPeerCertificate(tls.verifySANs, tls.rootCAs, certs)
=============================================================================
