------------------------------- MODULE MCGrpc -------------------------------
(***************************************************************************)
(* Model-checking instance of the gRPC services: the tunnel of net/grpc,   *)
(* the order services and the product services.  A behaviour is one of one *)
(* of them.                                                                *)
(***************************************************************************)
EXTENDS Tunnel, OrderServices, ProductServices

VARIABLE part

\* Two agents for one prefix; an absolute URL below the prefix, and one in its origin
\* form that is not.
MCPrefixes == {<<>>, <<"/", "a">>}
MCPrefixOf == [s1 |-> <<"/", "a">>, s2 |-> <<"/", "a">>]
MCUrls == {[path |-> <<"/", "a", "b">>, absolute |-> TRUE],
           [path |-> <<"/", "b">>, absolute |-> FALSE]}

\* Two known orders, one of which a search finds, and an unknown one, whose id is also the
\* one validation refuses.  With a batch size of one the first script makes a batch, a
\* longer one and no rest, the second a batch and a rest.
MCZero == [dest |-> "", match |-> FALSE]
MCSample == [i \in {"102", "103", "-1"} |->
               IF i = "-1" THEN MCZero ELSE [dest |-> "A", match |-> i = "102"]]
MCOrders == {[dest |-> "B", match |-> FALSE]}
MCUpdates == {[i \in 1..3 |-> [id |-> <<"103", "102", "-1">>[i], order |-> [dest |-> "B", match |-> FALSE]]]}
MCScripts == {<<"-1", "103", "102">>, <<"103", "102">>}

\* Bound: the clients that cancel call the servers that look at the context, as in their
\* examples, and the longer script goes to the first server.
ExamplesBound ==
    /\ osClient.cancels = osServer.checksCtx
    /\ (Len(osClient.script) = 3) = (osServer = StreamServer)

grVars == <<tnVars, osVars, psVars, part>>

GRInit ==
    /\ part \in {"tunnel", "orders", "products"}
    /\ TNInit /\ OSInit /\ PSInit
    /\ ExamplesBound
    /\ part # "orders" => osServer = StreamServer
    /\ part # "products" => psServer = MutualServer

GRNext ==
    /\ UNCHANGED part
    /\ \/ part = "tunnel" /\ TNNext /\ UNCHANGED <<osVars, psVars>>
       \/ part = "orders" /\ OSNext /\ UNCHANGED <<tnVars, psVars>>
       \/ part = "products" /\ PSNext /\ UNCHANGED <<tnVars, osVars>>

\* No fair action is enabled in the initial state of a part.
GRSpec == GRInit /\ [][GRNext]_grVars /\ TNFairness /\ OSFairness
=============================================================================
