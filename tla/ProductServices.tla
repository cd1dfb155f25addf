--------------------------- MODULE ProductServices ---------------------------
(***************************************************************************)
(* gRPC: the product servers and clients of the examples basicauth, token, *)
(* mutualls and sendmessage.  The first two check credentials in an        *)
(* interceptor, the third a certificate in the handshake; each of the      *)
(* three makes its map when the first AddProduct comes and gives a product *)
(* a new UUID.  The last stores a product under the id its client chose.   *)
(* None has a lock.                                                        *)
(*                                                                         *)
(* A product is the call that sent it, and so is its UUID.  Credentials    *)
(* are a scheme and a secret, base64 included.                             *)
(***************************************************************************)
EXTENDS Outcomes, Naturals, FiniteSets

CONSTANTS
    PSCalls,        \* calls
    PSNumbers       \* ids that clients of sendmessage choose; its example sends 1

VARIABLES
    psServer,       \* which server runs
    psMade,         \* productMap is not nil
    psMap,          \* psMap[i]: the product with id i, Nil if there is none
    psCrashed,      \* the process has died of concurrent map accesses
    psPc,           \* psPc[c]: where call c is
    psRequest,      \* what it asks for
    psFrom,         \* the client it comes from
    psReply,        \* the answer: the id of an AddProduct, the product of a GetProduct
    psFoundNil      \* history: the calls of AddProduct that found the map nil

psVars == <<psServer, psMade, psMap, psCrashed, psPc, psRequest, psFrom, psReply, psFoundNil>>

Ids == PSCalls \cup PSNumbers

\* An AddProduct may come without an id.
Request == [method : {"add", "get"}, id : Ids \cup {Nil}]

-----------------------------------------------------------------------------
(* Clients and servers.                                                    *)

\* basicauth/client.go: basicAuth's metadata, over TLS.
BasicAuthClient == [transport |-> "tls", auth |-> [scheme |-> "Basic", secret |-> "admin:admin"]]

\* token/client.go: the access token of fetchToken, over TLS.
TokenClient == [transport |-> "tls", auth |-> [scheme |-> "Bearer", secret |-> "some-secret-token"]]

\* mutualls/client.go: a certificate of the CA, and no metadata.
MutualClient == [transport |-> "mtls", auth |-> Nil]

\* sendmessage/client.go.
PlainClient == [transport |-> "insecure", auth |-> Nil]

\* A client with TLS and none of the credentials, and one with a bare token.
OtherClients == {[transport |-> "tls", auth |-> Nil],
                 [transport |-> "tls", auth |-> [scheme |-> "", secret |-> "some-secret-token"]]}

Clients == {BasicAuthClient, TokenClient, MutualClient, PlainClient} \cup OtherClients

\* basicauth/server.go: main, valid and ensureValidToken.  TrimPrefix takes the scheme
\* off if it is there.
BasicAuthServer == [transport |-> {"tls", "mtls"}, uuid |-> TRUE,
    valid |-> {[scheme |-> s, secret |-> "some-secret-token"] : s \in {"Bearer", ""}}]

\* token/server.go: main, valid and ensureValidBasicCredentials.
TokenServer == [transport |-> {"tls", "mtls"}, uuid |-> TRUE,
    valid |-> {[scheme |-> s, secret |-> "admin:admin"] : s \in {"Basic", ""}}]

\* mutualls/server.go: RequireAndVerifyClientCert.
MutualServer == [transport |-> {"mtls"}, uuid |-> TRUE, valid |-> Nil]

\* sendmessage/server.go: main makes the map.
SendMessageServer == [transport |-> {"insecure"}, uuid |-> FALSE, valid |-> Nil]

ProductServers == {BasicAuthServer, TokenServer, MutualServer, SendMessageServer}

\* An error is neither an id nor a product, a chosen id is no UUID, and none of these and
\* no set of credentials is nil.
ASSUME PSAssumption ==
    /\ PSCalls \cap PSNumbers = {}
    /\ (Ids \cup {Nil}) \cap {"NotFound", "Unavailable", "Unauthenticated"} = {}
    /\ Nil \notin Ids
    /\ Nil \notin Request
    /\ Nil \notin {BasicAuthServer.valid, TokenServer.valid}

PSInit ==
    /\ psServer \in ProductServers
    /\ psMade = ~psServer.uuid
    /\ psMap = [i \in Ids |-> Nil]
    /\ psCrashed = FALSE
    /\ psPc = [c \in PSCalls |-> "idle"]
    /\ psRequest = [c \in PSCalls |-> Nil]
    /\ psFrom = [c \in PSCalls |-> Nil]
    /\ psReply = [c \in PSCalls |-> Nil]
    /\ psFoundNil = {}

\* What clients send: AddProduct with the id that the client chose, or without one where
\* the server makes it, and GetProduct with an id of the server's kind.
Requests ==
    IF psServer.uuid
    THEN {[method |-> "add", id |-> Nil]} \cup [method : {"get"}, id : PSCalls]
    ELSE [method : {"add", "get"}, id : PSNumbers]

\* The id that AddProduct gives the product of call c.
IdOf(c) == IF psServer.uuid THEN c ELSE psRequest[c].id

-----------------------------------------------------------------------------

\* The handshake and the interceptor: Nil lets the call through to its handler.
Intercept(from) ==
    IF from.transport \notin psServer.transport THEN "Unavailable"
    ELSE IF psServer.valid = Nil \/ (from.auth # Nil /\ from.auth \in psServer.valid) THEN Nil
    ELSE "Unauthenticated"

Arrive(c, from, request) ==
    /\ psPc[c] = "idle" /\ ~psCrashed
    /\ psFrom' = [psFrom EXCEPT ![c] = from]
    /\ psRequest' = [psRequest EXCEPT ![c] = request]
    /\ IF Intercept(from) = Nil
       THEN /\ psPc' = [psPc EXCEPT ![c] = IF request.method = "get" THEN "get"
                                         ELSE IF psServer.uuid THEN "check" ELSE "store"]
            /\ UNCHANGED psReply
       ELSE /\ psPc' = [psPc EXCEPT ![c] = "done"]
            /\ psReply' = [psReply EXCEPT ![c] = Intercept(from)]
    /\ UNCHANGED <<psServer, psMade, psMap, psCrashed, psFoundNil>>

\* Mutant: every call makes the map, not only one that found it nil.
AddProductChecks_Always(c) ==
    /\ psPc[c] = "check" /\ ~psCrashed
    /\ psPc' = [psPc EXCEPT ![c] = "make"]
    /\ psFoundNil' = IF psMade THEN psFoundNil ELSE psFoundNil \cup {c}
    /\ UNCHANGED <<psServer, psMade, psMap, psCrashed, psRequest, psFrom, psReply>>

\* AddProduct: where the ids are UUIDs the map is looked at and made if it was nil, and
\* then it is written, with nothing to keep two calls apart.
AddProductChecks(c) ==
    /\ psPc[c] = "check" /\ ~psCrashed
    /\ psPc' = [psPc EXCEPT ![c] = IF psMade THEN "store" ELSE "make"]
    /\ psFoundNil' = IF psMade THEN psFoundNil ELSE psFoundNil \cup {c}
    /\ UNCHANGED <<psServer, psMade, psMap, psCrashed, psRequest, psFrom, psReply>>

AddProductMakes(c) ==
    /\ psPc[c] = "make" /\ ~psCrashed
    /\ psMade' = TRUE
    /\ psMap' = [i \in Ids |-> Nil]
    /\ psPc' = [psPc EXCEPT ![c] = "store"]
    /\ UNCHANGED <<psServer, psCrashed, psRequest, psFrom, psReply, psFoundNil>>

\* A product that has the id already is overwritten.
AddProductStores(c) ==
    /\ psPc[c] = "store" /\ ~psCrashed
    /\ psMap' = [psMap EXCEPT ![IdOf(c)] = c]
    /\ psReply' = [psReply EXCEPT ![c] = IdOf(c)]
    /\ psPc' = [psPc EXCEPT ![c] = "done"]
    /\ UNCHANGED <<psServer, psMade, psCrashed, psRequest, psFrom, psFoundNil>>

\* GetProduct; a nil map has no entries.
GetProduct(c) ==
    /\ psPc[c] = "get" /\ ~psCrashed
    /\ LET product == psMap[psRequest[c].id]
       IN  psReply' = [psReply EXCEPT ![c] = IF product = Nil THEN "NotFound" ELSE product]
    /\ psPc' = [psPc EXCEPT ![c] = "done"]
    /\ UNCHANGED <<psServer, psMade, psMap, psCrashed, psRequest, psFrom, psFoundNil>>

\* Two accesses of the map at once, one of them a write.
ProductMapRace(c, d) ==
    /\ psPc[c] = "store" /\ psPc[d] \in {"store", "get"} /\ c # d /\ ~psCrashed
    /\ psCrashed' = TRUE
    /\ UNCHANGED <<psServer, psMade, psMap, psPc, psRequest, psFrom, psReply, psFoundNil>>

PSNext ==
    \/ \E c \in PSCalls :
        \/ \E from \in Clients, request \in Requests : Arrive(c, from, request)
        \/ AddProductChecks(c) \/ AddProductMakes(c) \/ AddProductStores(c) \/ GetProduct(c)
    \/ \E c, d \in PSCalls : ProductMapRace(c, d)

PSSpec == PSInit /\ [][PSNext]_psVars

-----------------------------------------------------------------------------

Adds(c) == psRequest[c] # Nil /\ psRequest[c].method = "add"
Gets(c) == psRequest[c] # Nil /\ psRequest[c].method = "get"

\* A call of AddProduct that was answered with the id of its product, and one of GetProduct
\* that was answered with a product.
Acknowledged(c) == Adds(c) /\ psReply[c] \in Ids
GotProduct(c)   == Gets(c) /\ psReply[c] \in PSCalls

\* The calls that store a product under the id of call c: where ids are UUIDs, c alone.
SameId(c) == {d \in PSCalls : Adds(d) /\ IdOf(d) = IdOf(c)}

\* What was acknowledged stays: the id that AddProduct gave back has that product until
\* another AddProduct for the same id puts another there, and is never without one, if the
\* map was found nil once at most, that is unless two calls came before the first of them
\* had made it.
AddedProductKept ==
    (\A d, e \in psFoundNil : d = e) =>
        \A c \in PSCalls : Acknowledged(c) => psMap[IdOf(c)] \in SameId(c)

\* GetProduct answers with a product that was added under the id asked for.
GotWhatWasAsked ==
    \A c \in PSCalls : GotProduct(c) =>
        Adds(psReply[c]) /\ IdOf(psReply[c]) = psRequest[c].id

\* Whoever has added or got a product had what the server asks for: the secret of its
\* interceptor over TLS, a certificate, or nothing.
OnlyAuthorised ==
    \A c \in PSCalls : (\E i \in Ids : psMap[i] = c) \/ GotProduct(c) =>
        /\ psServer \in {BasicAuthServer, TokenServer} =>
             /\ psFrom[c].auth # Nil
             /\ psFrom[c].auth.secret =
                  IF psServer = TokenServer THEN "admin:admin" ELSE "some-secret-token"
        /\ psServer = MutualServer => psFrom[c].transport = "mtls"

\* The product map holds what its clients were told it holds, and nothing of others.
ProductsSafe == AddedProductKept /\ GotWhatWasAsked /\ OnlyAuthorised
=============================================================================
