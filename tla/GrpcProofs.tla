----------------------------- MODULE GrpcProofs -----------------------------
(***************************************************************************)
(* Proofs about the gRPC services: the product servers, for any calls; the *)
(* tunnel, for any streams, requests, prefixes and URLs; the order         *)
(* servers, for any orders, scripts and size of a batch.                   *)
(***************************************************************************)
EXTENDS Tunnel, ProductServices, OrderServices, FiniteSetTheorems, SequenceTheorems,
        WellFoundedInduction, TLAPS

-----------------------------------------------------------------------------
(* The product servers.                                                    *)

PSErrors == {"NotFound", "Unavailable", "Unauthenticated"}

PSTypeOK ==
    /\ psServer \in ProductServers
    /\ psServer.uuid \in BOOLEAN /\ psMade \in BOOLEAN
    /\ psMap \in [Ids -> PSCalls \cup {Nil}]
    /\ psPc \in [PSCalls -> {"idle", "check", "make", "store", "get", "done"}]
    /\ psRequest \in [PSCalls -> Request \cup {Nil}]
    /\ psFrom \in [PSCalls -> Clients \cup {Nil}]
    /\ psReply \in [PSCalls -> Ids \cup PSErrors \cup {Nil}]
    /\ psFoundNil \subseteq PSCalls

\* A handler has been called with what it is for, and has not answered.
HandlerCalled ==
    \A c \in PSCalls :
        /\ psPc[c] = "idle" => psRequest[c] = Nil
        /\ psPc[c] \in {"check", "make", "store"} => Adds(c) /\ IdOf(c) \in Ids
        /\ psPc[c] \in {"check", "make"} => psServer.uuid
        /\ psPc[c] = "get" => Gets(c) /\ psRequest[c].id \in Ids
        /\ psPc[c] # "done" => psReply[c] = Nil

\* ensureValidToken, ensureValidBasicCredentials and the handshake come first.
LetThrough ==
    \A c \in PSCalls :
        psPc[c] \in {"check", "make", "store", "get"} \/ psReply[c] \in Ids =>
            psPc[c] # "idle" /\ Intercept(psFrom[c]) = Nil

\* AddProduct has a map when it comes to write it, and some call has made the map.
MapMade ==
    /\ \A c \in PSCalls : psPc[c] = "store" \/ Acknowledged(c) => psMade
    /\ ~psServer.uuid => psMade
    /\ \A c \in PSCalls : psPc[c] = "make" => c \in psFoundNil
    /\ \A c \in psFoundNil : psPc[c] \notin {"idle", "check"}
    /\ psMade /\ psServer.uuid => \E c \in psFoundNil : psPc[c] # "make"

\* The map has a product under the id that its AddProduct gave back.
StoredUnderItsId ==
    \A i \in Ids : psMap[i] # Nil =>
        Adds(psMap[i]) /\ IdOf(psMap[i]) = i /\ psReply[psMap[i]] = i

\* An id that was given back has a product, and is the id of the call.
IdHasProduct ==
    \A c \in PSCalls : Acknowledged(c) =>
        /\ psReply[c] = IdOf(c)
        /\ (\A d, e \in psFoundNil : d = e) => psMap[IdOf(c)] # Nil

PSInv ==
    /\ PSTypeOK /\ HandlerCalled /\ LetThrough /\ MapMade
    /\ StoredUnderItsId /\ IdHasProduct /\ GotWhatWasAsked

\* The invariant of the product services holds when they start.
LEMMA PSInitInv == PSInit => PSInv
<1> SUFFICES ASSUME PSInit PROVE PSInv OBVIOUS
<1>1. PSTypeOK
  <2>1. psServer.uuid \in BOOLEAN
    <3>1. BasicAuthServer.uuid = TRUE BY DEF BasicAuthServer
    <3>2. TokenServer.uuid = TRUE BY DEF TokenServer
    <3>3. MutualServer.uuid = TRUE /\ SendMessageServer.uuid = FALSE BY DEF MutualServer, SendMessageServer
    <3> QED BY <3>1, <3>2, <3>3 DEF PSInit, ProductServers
  <2> QED BY <2>1 DEF PSInit, PSTypeOK
<1>2. \A c \in PSCalls : ~Adds(c) /\ ~Gets(c) /\ psReply[c] = Nil /\ psPc[c] = "idle"
  BY DEF PSInit, Adds, Gets
<1>3. HandlerCalled BY <1>2 DEF PSInit, HandlerCalled
<1>4. LetThrough BY <1>2, PSAssumption DEF LetThrough
<1>5. MapMade BY <1>2 DEF PSInit, MapMade, Acknowledged
<1>6. StoredUnderItsId BY DEF PSInit, StoredUnderItsId
<1>7. IdHasProduct /\ GotWhatWasAsked
  BY <1>2 DEF IdHasProduct, Acknowledged, GotWhatWasAsked, GotProduct
<1> QED BY <1>1, <1>3, <1>4, <1>5, <1>6, <1>7 DEF PSInv

\* Arrive: the call is answered at once, or its handler is called.
LEMMA ArriveStep ==
    ASSUME PSInv, NEW c \in PSCalls, NEW from \in Clients, NEW request \in Requests,
           Arrive(c, from, request)
    PROVE  PSInv'
<1>1. /\ UNCHANGED <<psServer, psMade, psMap, psCrashed, psFoundNil>> /\ psPc[c] = "idle"
      /\ psFrom' = [psFrom EXCEPT ![c] = from]
      /\ psRequest' = [psRequest EXCEPT ![c] = request]
  BY DEF Arrive
<1>2. \/ /\ Intercept(from) = Nil
         /\ psPc' = [psPc EXCEPT ![c] = IF request.method = "get" THEN "get"
                                        ELSE IF psServer.uuid THEN "check" ELSE "store"]
         /\ psReply' = psReply
      \/ /\ Intercept(from) \in {"Unavailable", "Unauthenticated"}
         /\ psPc' = [psPc EXCEPT ![c] = "done"]
         /\ psReply' = [psReply EXCEPT ![c] = Intercept(from)]
  <2>1. Intercept(from) \in {"Unavailable", "Unauthenticated", Nil} BY DEF Intercept
  <2> QED BY <2>1 DEF Arrive
<1>3. psReply[c] = Nil /\ psRequest[c] = Nil /\ ~Adds(c) /\ ~Gets(c)
  BY <1>1 DEF PSInv, HandlerCalled, Adds, Gets
<1>4. /\ request \in Request /\ request # Nil
      /\ request.method = "get" => request.id \in Ids
      /\ request.method # "get" => request.method = "add" /\ (~psServer.uuid => request.id \in Ids)
  BY PSAssumption DEF Requests, Request, Ids
<1>5. \A d \in PSCalls : Intercept(psFrom[d])' = Intercept(psFrom'[d])
  BY <1>1 DEF Intercept
<1>6. \A d \in PSCalls \ {c} : /\ psPc'[d] = psPc[d] /\ psFrom'[d] = psFrom[d]
                               /\ psRequest'[d] = psRequest[d] /\ psReply'[d] = psReply[d]
  BY <1>1, <1>2 DEF PSInv, PSTypeOK
<1>7. psFrom'[c] = from /\ psRequest'[c] = request BY <1>1 DEF PSInv, PSTypeOK
<1>8. \/ /\ Intercept(from) = Nil /\ psReply'[c] = Nil
         /\ psPc'[c] = IF request.method = "get" THEN "get"
                       ELSE IF psServer.uuid THEN "check" ELSE "store"
      \/ psPc'[c] = "done" /\ psReply'[c] \in {"Unavailable", "Unauthenticated"}
  BY <1>2, <1>3 DEF PSInv, PSTypeOK
<1>9. PSTypeOK'
  <2>1. psPc' \in [PSCalls -> {"idle", "check", "make", "store", "get", "done"}]
    BY <1>2 DEF PSInv, PSTypeOK
  <2>2. psReply' \in [PSCalls -> Ids \cup PSErrors \cup {Nil}]
    BY <1>2 DEF PSInv, PSTypeOK, PSErrors
  <2> QED BY <1>1, <1>4, <2>1, <2>2 DEF PSInv, PSTypeOK
<1>10. /\ Adds(c)' <=> request.method = "add"
       /\ Gets(c)' <=> request.method = "get"
       /\ \A d \in PSCalls \ {c} : /\ Adds(d)' <=> Adds(d)
                                   /\ Gets(d)' <=> Gets(d)
                                   /\ IdOf(d)' = IdOf(d)
       /\ IdOf(c)' = IF psServer.uuid THEN c ELSE request.id
  BY <1>1, <1>4, <1>6, <1>7 DEF Adds, Gets, IdOf
<1>11. psReply'[c] \notin Ids /\ ~Acknowledged(c)' /\ ~GotProduct(c)'
  BY <1>8, PSAssumption DEF Acknowledged, GotProduct, Ids
<1>12. HandlerCalled'
  <2>1. IdOf(c)' \in Ids \/ request.method = "get" BY <1>4, <1>10 DEF Ids
  <2> QED BY <1>1, <1>4, <1>6, <1>7, <1>8, <1>10, <2>1 DEF PSInv, HandlerCalled
<1>13. LetThrough'
  BY <1>1, <1>5, <1>6, <1>7, <1>8, <1>11 DEF PSInv, LetThrough
<1>14. \A d \in PSCalls \ {c} : Acknowledged(d)' <=> Acknowledged(d)
  BY <1>6, <1>10 DEF Acknowledged
<1>15. MapMade'
  <2>1. psPc'[c] \notin {"make", "idle"} /\ (psPc'[c] = "store" => ~psServer.uuid) BY <1>8
  <2>2. c \notin psFoundNil BY <1>1 DEF PSInv, MapMade
  <2>3. \A d \in psFoundNil : d \in PSCalls \ {c} BY <2>2 DEF PSInv, PSTypeOK
  <2> QED BY <1>1, <1>6, <1>11, <1>14, <2>1, <2>3 DEF PSInv, MapMade
<1>16. StoredUnderItsId'
  BY <1>1, <1>3, <1>6, <1>10 DEF PSInv, PSTypeOK, StoredUnderItsId
<1>17. IdHasProduct'
  BY <1>1, <1>6, <1>10, <1>11, <1>14 DEF PSInv, IdHasProduct
<1>18. GotWhatWasAsked'
  <2>1. \A d \in PSCalls \ {c} : GotProduct(d)' => GotProduct(d) /\ psReply[d] # c
    BY <1>3, <1>6, <1>10 DEF PSInv, GotWhatWasAsked, GotProduct
  <2>2. \A d \in PSCalls \ {c} : GotProduct(d) => psReply[d] \in PSCalls BY DEF GotProduct
  <2> QED BY <1>6, <1>10, <1>11, <2>1, <2>2 DEF PSInv, GotWhatWasAsked
<1> QED BY <1>9, <1>12, <1>13, <1>15, <1>16, <1>17, <1>18 DEF PSInv

\* The steps of a handler: only its own place and answer change.
LEMMA HandlerStepEffect ==
    ASSUME PSInv, NEW c \in PSCalls,
           AddProductChecks(c) \/ AddProductMakes(c) \/ AddProductStores(c) \/ GetProduct(c)
    PROVE  /\ UNCHANGED <<psServer, psRequest, psFrom>>
           /\ \A d \in PSCalls : /\ Intercept(psFrom[d])' = Intercept(psFrom[d])
                                 /\ Adds(d)' <=> Adds(d)
                                 /\ Gets(d)' <=> Gets(d)
                                 /\ IdOf(d)' = IdOf(d)
           /\ \A d \in PSCalls \ {c} : /\ psPc'[d] = psPc[d] /\ psReply'[d] = psReply[d]
                                       /\ Acknowledged(d)' <=> Acknowledged(d)
                                       /\ GotProduct(d)' <=> GotProduct(d)
           /\ psPc[c] \in {"check", "make", "store", "get"} /\ psPc'[c] # "idle"
           /\ psReply[c] = Nil /\ Intercept(psFrom[c]) = Nil
<1>1. UNCHANGED <<psServer, psRequest, psFrom>>
  BY DEF AddProductChecks, AddProductMakes, AddProductStores, GetProduct
<1>2. /\ \A d \in PSCalls \ {c} : psPc'[d] = psPc[d] /\ psReply'[d] = psReply[d]
      /\ psPc[c] \in {"check", "make", "store", "get"} /\ psPc'[c] # "idle"
  BY DEF AddProductChecks, AddProductMakes, AddProductStores, GetProduct, PSInv, PSTypeOK
<1>3. psReply[c] = Nil /\ Intercept(psFrom[c]) = Nil
  BY <1>2 DEF PSInv, LetThrough, HandlerCalled
<1>4. \A d \in PSCalls : /\ Intercept(psFrom[d])' = Intercept(psFrom[d])
                         /\ Adds(d)' <=> Adds(d)
                         /\ Gets(d)' <=> Gets(d)
                         /\ IdOf(d)' = IdOf(d)
  BY <1>1 DEF Intercept, Adds, Gets, IdOf
<1>5. \A d \in PSCalls \ {c} : /\ Acknowledged(d)' <=> Acknowledged(d)
                               /\ GotProduct(d)' <=> GotProduct(d)
  BY <1>2, <1>4 DEF Acknowledged, GotProduct
<1> QED BY <1>1, <1>2, <1>3, <1>4, <1>5

\* AddProduct looks at the map.
LEMMA ChecksStep ==
    ASSUME PSInv, NEW c \in PSCalls, AddProductChecks(c)
    PROVE  PSInv'
<1>1. /\ UNCHANGED <<psServer, psMade, psMap, psRequest, psFrom, psReply>>
      /\ psFoundNil' = IF psMade THEN psFoundNil ELSE psFoundNil \cup {c}
      /\ psPc[c] = "check"
  BY DEF AddProductChecks
<1>2. /\ psPc'[c] = IF psMade THEN "store" ELSE "make"
      /\ \A d \in PSCalls \ {c} : psPc'[d] = psPc[d]
      /\ psPc' \in [PSCalls -> {"idle", "check", "make", "store", "get", "done"}]
  BY DEF AddProductChecks, PSInv, PSTypeOK
<1>3. ~Acknowledged(c)' /\ ~GotProduct(c)'
  BY <1>1, HandlerStepEffect, PSAssumption DEF Acknowledged, GotProduct, Ids
<1>4. PSTypeOK' BY <1>1, <1>2 DEF PSInv, PSTypeOK
<1>5. HandlerCalled' BY <1>1, <1>2, HandlerStepEffect DEF PSInv, HandlerCalled
<1>6. LetThrough' BY <1>1, <1>2, HandlerStepEffect DEF PSInv, LetThrough
<1>7. MapMade'
  <2>1. psFoundNil \subseteq PSCalls BY DEF PSInv, PSTypeOK
  <2>2. c \notin psFoundNil BY <1>1 DEF PSInv, MapMade
  <2> QED BY <1>1, <1>2, <1>3, <2>1, <2>2, HandlerStepEffect DEF PSInv, MapMade
<1>8. StoredUnderItsId' BY <1>1, HandlerStepEffect DEF PSInv, PSTypeOK, StoredUnderItsId
<1>9. IdHasProduct' BY <1>1, <1>3, HandlerStepEffect DEF PSInv, IdHasProduct
<1>10. GotWhatWasAsked'
  BY <1>1, <1>3, HandlerStepEffect DEF PSInv, GotWhatWasAsked, GotProduct
<1> QED BY <1>4, <1>5, <1>6, <1>7, <1>8, <1>9, <1>10 DEF PSInv

\* AddProduct makes the map.  If it has been made before, two calls have found it nil.
LEMMA MakesStep ==
    ASSUME PSInv, NEW c \in PSCalls, AddProductMakes(c)
    PROVE  PSInv'
<1>1. /\ UNCHANGED <<psServer, psRequest, psFrom, psReply, psFoundNil>>
      /\ psMade' = TRUE /\ psMap' = [i \in Ids |-> Nil] /\ psPc[c] = "make"
  BY DEF AddProductMakes
<1>2. /\ psPc'[c] = "store" /\ \A d \in PSCalls \ {c} : psPc'[d] = psPc[d]
      /\ psPc' \in [PSCalls -> {"idle", "check", "make", "store", "get", "done"}]
  BY DEF AddProductMakes, PSInv, PSTypeOK
<1>3. ~Acknowledged(c)' /\ ~GotProduct(c)'
  BY <1>1, HandlerStepEffect, PSAssumption DEF Acknowledged, GotProduct, Ids
<1>4. psServer.uuid /\ c \in psFoundNil BY <1>1 DEF PSInv, HandlerCalled, MapMade
<1>5. PSTypeOK' BY <1>1, <1>2 DEF PSInv, PSTypeOK
<1>6. HandlerCalled' BY <1>1, <1>2, HandlerStepEffect DEF PSInv, HandlerCalled
<1>7. LetThrough' BY <1>1, <1>2, HandlerStepEffect DEF PSInv, LetThrough
<1>8. MapMade'
  <2>1. psFoundNil \subseteq PSCalls BY DEF PSInv, PSTypeOK
  <2> QED BY <1>1, <1>2, <1>3, <1>4, <2>1, HandlerStepEffect DEF PSInv, MapMade
<1>9. StoredUnderItsId' BY <1>1 DEF StoredUnderItsId
<1>10. IdHasProduct'
  <2>1. ASSUME NEW d \in PSCalls, Acknowledged(d) PROVE ~(\A e, f \in psFoundNil : e = f)
    <3>1. psMade BY <2>1 DEF PSInv, MapMade
    <3>2. PICK e \in psFoundNil : psPc[e] # "make" BY <1>4, <3>1 DEF PSInv, MapMade
    <3> QED BY <1>1, <1>4, <3>2
  <2> QED BY <1>1, <1>3, <2>1, HandlerStepEffect DEF PSInv, IdHasProduct
<1>11. GotWhatWasAsked'
  BY <1>1, <1>3, HandlerStepEffect DEF PSInv, GotWhatWasAsked, GotProduct
<1> QED BY <1>5, <1>6, <1>7, <1>8, <1>9, <1>10, <1>11 DEF PSInv

\* AddProduct writes the map.
LEMMA StoresStep ==
    ASSUME PSInv, NEW c \in PSCalls, AddProductStores(c)
    PROVE  PSInv'
<1>1. /\ UNCHANGED <<psServer, psMade, psRequest, psFrom, psFoundNil>> /\ psPc[c] = "store"
      /\ psMap' = [psMap EXCEPT ![IdOf(c)] = c]
  BY DEF AddProductStores
<1>2. Adds(c) /\ IdOf(c) \in Ids /\ psMade BY <1>1 DEF PSInv, HandlerCalled, MapMade
<1>3. /\ psPc'[c] = "done" /\ psReply'[c] = IdOf(c)
      /\ psPc' \in [PSCalls -> {"idle", "check", "make", "store", "get", "done"}]
      /\ psReply' \in [PSCalls -> Ids \cup PSErrors \cup {Nil}]
  BY <1>2 DEF AddProductStores, PSInv, PSTypeOK
<1>4. /\ psMap' \in [Ids -> PSCalls \cup {Nil}] /\ psMap'[IdOf(c)] = c
      /\ \A i \in Ids \ {IdOf(c)} : psMap'[i] = psMap[i]
  BY <1>1, <1>2 DEF PSInv, PSTypeOK
<1>5. c # Nil /\ ~Gets(c) BY <1>2, PSAssumption DEF Adds, Gets, Ids
<1>6. PSTypeOK' BY <1>1, <1>3, <1>4 DEF PSInv, PSTypeOK
<1>7. HandlerCalled' BY <1>1, <1>3, HandlerStepEffect DEF PSInv, HandlerCalled
<1>8. LetThrough' BY <1>1, <1>3, HandlerStepEffect DEF PSInv, LetThrough
<1>9. MapMade'
  <2>1. psFoundNil \subseteq PSCalls BY DEF PSInv, PSTypeOK
  <2> QED BY <1>1, <1>2, <1>3, <2>1, HandlerStepEffect DEF PSInv, MapMade
<1>10. StoredUnderItsId'
  <2>1. \A i \in Ids : psMap[i] # Nil => psMap[i] \in PSCalls \ {c}
    BY HandlerStepEffect, PSAssumption DEF PSInv, PSTypeOK, StoredUnderItsId
  <2> QED BY <1>2, <1>3, <1>4, <2>1, HandlerStepEffect DEF PSInv, StoredUnderItsId
<1>11. IdHasProduct'
  BY <1>1, <1>2, <1>3, <1>4, <1>5, HandlerStepEffect DEF PSInv, IdHasProduct, HandlerCalled
<1>12. GotWhatWasAsked'
  BY <1>1, <1>5, HandlerStepEffect DEF PSInv, GotWhatWasAsked, GotProduct
<1> QED BY <1>6, <1>7, <1>8, <1>9, <1>10, <1>11, <1>12 DEF PSInv

\* GetProduct answers with what the map has under the id, or an error.
LEMMA GetStep ==
    ASSUME PSInv, NEW c \in PSCalls, GetProduct(c)
    PROVE  PSInv'
<1>1. /\ UNCHANGED <<psServer, psMade, psMap, psRequest, psFrom, psFoundNil>> /\ psPc[c] = "get"
  BY DEF GetProduct
<1>2. Gets(c) /\ ~Adds(c) /\ psRequest[c].id \in Ids
  BY <1>1 DEF PSInv, HandlerCalled, Gets, Adds
<1>3. LET product == psMap[psRequest[c].id]
      IN  psReply' = [psReply EXCEPT ![c] = IF product = Nil THEN "NotFound" ELSE product]
  BY DEF GetProduct
<1>4. /\ psPc'[c] = "done"
      /\ psReply'[c] = "NotFound" \/ (psReply'[c] = psMap[psRequest[c].id] /\ psReply'[c] # Nil)
      /\ psPc' \in [PSCalls -> {"idle", "check", "make", "store", "get", "done"}]
      /\ psReply' \in [PSCalls -> Ids \cup PSErrors \cup {Nil}]
  BY <1>2, <1>3 DEF GetProduct, PSInv, PSTypeOK, PSErrors, Ids
<1>5. PSTypeOK' BY <1>1, <1>4 DEF PSInv, PSTypeOK
<1>6. HandlerCalled' BY <1>1, <1>4, HandlerStepEffect DEF PSInv, HandlerCalled
<1>7. LetThrough' BY <1>1, <1>4, HandlerStepEffect DEF PSInv, LetThrough
<1>8. ~Acknowledged(c)' BY <1>2, HandlerStepEffect DEF Acknowledged
<1>9. MapMade'
  <2>1. psFoundNil \subseteq PSCalls BY DEF PSInv, PSTypeOK
  <2> QED BY <1>1, <1>4, <1>8, <2>1, HandlerStepEffect DEF PSInv, MapMade
<1>10. StoredUnderItsId'
  <2>1. \A i \in Ids : psMap[i] # Nil => psMap[i] \in PSCalls \ {c}
    BY <1>2 DEF PSInv, PSTypeOK, StoredUnderItsId
  <2> QED BY <1>1, <2>1, HandlerStepEffect DEF PSInv, StoredUnderItsId
<1>11. IdHasProduct' BY <1>1, <1>8, HandlerStepEffect DEF PSInv, IdHasProduct
<1>12. GotWhatWasAsked'
  <2>1. ASSUME NEW d \in PSCalls, GotProduct(d)'
        PROVE  Adds(psReply'[d]) /\ IdOf(psReply'[d]) = psRequest[d].id /\ psReply'[d] \in PSCalls
    <3>1. CASE d = c
      <4>1. psReply'[c] \in PSCalls BY <2>1, <3>1 DEF GotProduct
      <4>2. psReply'[c] = psMap[psRequest[c].id] /\ psReply'[c] # Nil
        BY <1>4, <4>1, PSAssumption DEF Ids
      <4> QED BY <1>2, <3>1, <4>1, <4>2 DEF PSInv, StoredUnderItsId
    <3>2. CASE d # c
      BY <2>1, <3>2, HandlerStepEffect DEF PSInv, GotWhatWasAsked, GotProduct
    <3> QED BY <3>1, <3>2
  <2> QED BY <1>1, <2>1, HandlerStepEffect DEF GotWhatWasAsked
<1> QED BY <1>5, <1>6, <1>7, <1>9, <1>10, <1>11, <1>12 DEF PSInv

\* Every step of a product server, its clients and its interceptors keeps the invariant.
LEMMA PSStep == PSInv /\ [PSNext]_psVars => PSInv'
<1> SUFFICES ASSUME PSInv, [PSNext]_psVars PROVE PSInv' OBVIOUS
<1>1. ASSUME NEW c \in PSCalls, NEW from \in Clients, NEW request \in Requests,
             Arrive(c, from, request)
      PROVE  PSInv'
  BY <1>1, ArriveStep
<1>2. ASSUME NEW c \in PSCalls,
             AddProductChecks(c) \/ AddProductMakes(c) \/ AddProductStores(c) \/ GetProduct(c)
      PROVE  PSInv'
  BY <1>2, ChecksStep, MakesStep, StoresStep, GetStep
<1>3. ASSUME UNCHANGED <<psServer, psMade, psMap, psPc, psRequest, psFrom, psReply, psFoundNil>>
      PROVE  PSInv'
  BY <1>3 DEF PSInv, PSTypeOK, HandlerCalled, LetThrough, Intercept, MapMade, StoredUnderItsId,
              IdHasProduct, GotWhatWasAsked, Acknowledged, GotProduct, Adds, Gets, IdOf
<1>4. ASSUME NEW c \in PSCalls, NEW d \in PSCalls, ProductMapRace(c, d) PROVE PSInv'
  BY <1>3, <1>4 DEF ProductMapRace
<1> QED BY <1>1, <1>2, <1>3, <1>4 DEF PSNext, psVars

\* What the interceptors let through has what they ask for.
LEMMA InterceptAsks ==
    ASSUME psServer \in ProductServers, NEW from, Intercept(from) = Nil
    PROVE  /\ psServer \in {BasicAuthServer, TokenServer} =>
                /\ from.auth # Nil
                /\ from.auth.secret =
                     IF psServer = TokenServer THEN "admin:admin" ELSE "some-secret-token"
           /\ psServer = MutualServer => from.transport = "mtls"
<1>1. from.transport \in psServer.transport BY PSAssumption DEF Intercept
<1>2. psServer.valid = Nil \/ (from.auth # Nil /\ from.auth \in psServer.valid)
  BY PSAssumption DEF Intercept
<1>3. ASSUME psServer = TokenServer
      PROVE  from.auth # Nil /\ from.auth.secret = "admin:admin"
  <2>1. from.auth # Nil /\ from.auth \in TokenServer.valid BY <1>2, <1>3, PSAssumption
  <2>2. TokenServer.valid = {[scheme |-> s, secret |-> "admin:admin"] : s \in {"Basic", ""}}
    BY DEF TokenServer
  <2>3. PICK s \in {"Basic", ""} : from.auth = [scheme |-> s, secret |-> "admin:admin"]
    BY <2>1, <2>2
  <2>4. from.auth.secret = [scheme |-> s, secret |-> "admin:admin"].secret BY <2>3, Zenon
  <2> QED BY <2>1, <2>4
<1>4. ASSUME psServer = BasicAuthServer
      PROVE  from.auth # Nil /\ from.auth.secret = "some-secret-token"
  <2>1. from.auth # Nil /\ from.auth \in BasicAuthServer.valid BY <1>2, <1>4, PSAssumption
  <2>2. BasicAuthServer.valid = {[scheme |-> s, secret |-> "some-secret-token"] : s \in {"Bearer", ""}}
    BY DEF BasicAuthServer
  <2>3. PICK s \in {"Bearer", ""} : from.auth = [scheme |-> s, secret |-> "some-secret-token"]
    BY <2>1, <2>2
  <2>4. from.auth.secret = [scheme |-> s, secret |-> "some-secret-token"].secret BY <2>3, Zenon
  <2> QED BY <2>1, <2>4
<1>5. ASSUME psServer = MutualServer PROVE from.transport = "mtls"
  BY <1>1, <1>5 DEF MutualServer
<1> QED BY <1>3, <1>4, <1>5

\* The interceptors, AddProduct and GetProduct: for any number of calls in any order, only
\* clients with the server's credentials ever add or get a product, GetProduct answers with
\* what was added under the id asked for, and an id that was given back keeps a product that
\* was added under it unless two calls of AddProduct have found the map nil.
THEOREM ProductsAreSafe == PSSpec => []ProductsSafe
<1>1. ASSUME PSInv PROVE ProductsSafe
  <2>1. AddedProductKept
    <3>1. ASSUME NEW c \in PSCalls, Acknowledged(c), \A d, e \in psFoundNil : d = e
          PROVE  psMap[IdOf(c)] \in SameId(c)
      <4>1. IdOf(c) \in Ids /\ psMap[IdOf(c)] # Nil
        BY <1>1, <3>1 DEF PSInv, IdHasProduct, Acknowledged
      <4> QED BY <1>1, <4>1 DEF PSInv, PSTypeOK, StoredUnderItsId, SameId
    <3> QED BY <3>1 DEF AddedProductKept
  <2>2. OnlyAuthorised
    <3>1. ASSUME NEW c \in PSCalls, (\E i \in Ids : psMap[i] = c) \/ GotProduct(c)
          PROVE  Intercept(psFrom[c]) = Nil
      <4>1. psReply[c] \in Ids
        BY <1>1, <3>1, PSAssumption DEF PSInv, StoredUnderItsId, GotProduct, Ids
      <4> QED BY <1>1, <4>1 DEF PSInv, LetThrough
    <3>2. psServer \in ProductServers BY <1>1 DEF PSInv, PSTypeOK
    <3> QED BY <3>1, <3>2, InterceptAsks DEF OnlyAuthorised
  <2> QED BY <1>1, <2>1, <2>2 DEF PSInv, ProductsSafe
<1>2. PSInv => ProductsSafe BY <1>1
<1> QED BY PSInitInv, PSStep, <1>2, PTL DEF PSSpec

-----------------------------------------------------------------------------
(* The tunnel.                                                             *)

Responses == [id : TNReqs, status : {200, 502}, from : TNStreams]

TNTypeOK ==
    /\ tnRoutes \in [TNPrefixes -> TNStreams \cup {Nil}]
    /\ tnSrv \in [TNStreams -> {"idle", "opened", "recv", "deliver", "unbind", "returned"}]
    /\ tnGot \in [TNStreams -> Responses \cup {Nil}]
    /\ tnDown \in [TNStreams -> SUBSET TNReqs] /\ tnWork \in [TNStreams -> SUBSET TNReqs]
    /\ tnBack \in [TNStreams -> SUBSET Responses]
    /\ tnPc \in [TNReqs -> {"idle", "body", "register", "send", "wait", "write", "unregister", "done"}]
    /\ tnUrl \in [TNReqs -> TNUrls \cup {Nil}]
    /\ tnVia \in [TNReqs -> TNStreams \cup {Nil}]
    /\ tnPool \subseteq TNReqs
    /\ tnCh \in [TNReqs -> Responses \cup {Nil}]
    /\ DOMAIN tnResult = TNReqs /\ tnResult = [h \in TNReqs |-> tnResult[h]]

\* OpenTunnel serves no stream without a prefix.
Bound == \A s \in TNStreams : tnSrv[s] \in {"recv", "deliver", "unbind"} => TNPrefixOf[s] # Nil

\* A response r of stream s answers a request that was routed there.
Own(r, s) ==
    /\ r.from = s /\ tnVia[r.id] = s
    /\ r.status = 200 => tnUrl[r.id].absolute

\* What is on its way on a stream belongs to it.
OnItsStream ==
    \A s \in TNStreams :
        /\ \A h \in tnDown[s] \cup tnWork[s] : tnVia[h] = s
        /\ \A r \in tnBack[s] : Own(r, s)
        /\ tnSrv[s] = "deliver" => tnGot[s] \in Responses /\ Own(tnGot[s], s)

\* What is in a request's channel was made for it.
InItsChannel ==
    \A h \in TNReqs : tnCh[h] # Nil => tnCh[h].id = h /\ Own(tnCh[h], tnVia[h])

\* ServeHTTP chooses a stream once, by its prefix.
Routed ==
    \A h \in TNReqs :
        /\ tnPc[h] = "idle" => tnVia[h] = Nil /\ tnResult[h] = Nil
        /\ tnPc[h] \notin {"idle", "done"} => tnVia[h] \in TNStreams
        /\ tnVia[h] # Nil => IsPrefix(TNPrefixOf[tnVia[h]], tnUrl[h].path)

TNInv ==
    /\ TNTypeOK /\ Bound /\ OnItsStream /\ InItsChannel /\ Routed
    /\ RoutesOwned /\ PoolIsWaiting /\ AnswerIsOwn

\* The invariant of the tunnel holds before any agent has connected.
LEMMA TNInitInv == TNInit => TNInv
<1> SUFFICES ASSUME TNInit PROVE TNInv OBVIOUS
<1>1. TNTypeOK
  <2>1. /\ tnRoutes \in [TNPrefixes -> TNStreams \cup {Nil}]
        /\ tnSrv \in [TNStreams -> {"idle", "opened", "recv", "deliver", "unbind", "returned"}]
        /\ tnGot \in [TNStreams -> Responses \cup {Nil}]
    BY DEF TNInit
  <2>2. /\ tnDown \in [TNStreams -> SUBSET TNReqs] /\ tnWork \in [TNStreams -> SUBSET TNReqs]
        /\ tnBack \in [TNStreams -> SUBSET Responses]
    BY DEF TNInit
  <2>3. /\ tnPc \in [TNReqs -> {"idle", "body", "register", "send", "wait", "write", "unregister", "done"}]
        /\ tnUrl \in [TNReqs -> TNUrls \cup {Nil}]
        /\ tnVia \in [TNReqs -> TNStreams \cup {Nil}]
        /\ tnPool \subseteq TNReqs
        /\ tnCh \in [TNReqs -> Responses \cup {Nil}]
        /\ DOMAIN tnResult = TNReqs /\ tnResult = [h \in TNReqs |-> tnResult[h]]
    BY DEF TNInit
  <2> QED BY <2>1, <2>2, <2>3 DEF TNTypeOK
<1>2. Bound /\ OnItsStream BY DEF TNInit, Bound, OnItsStream
<1>3. InItsChannel /\ Routed BY DEF TNInit, InItsChannel, Routed
<1>4. RoutesOwned BY TNAssumption DEF TNInit, RoutesOwned
<1>5. PoolIsWaiting BY DEF TNInit, PoolIsWaiting
<1>6. AnswerIsOwn BY DEF TNInit, AnswerIsOwn
<1> QED BY <1>1, <1>2, <1>3, <1>4, <1>5, <1>6 DEF TNInv

\* What was routed stays routed as it was.
LEMMA OwnKept ==
    ASSUME UNCHANGED <<tnUrl, tnVia>>, NEW r, NEW s
    PROVE  Own(r, s)' <=> Own(r, s)
BY DEF Own

\* The handlers' side of the invariant rests on the handlers' variables alone.
LEMMA HandlersKept ==
    ASSUME TNInv, UNCHANGED <<tnPc, tnUrl, tnVia, tnPool, tnResult>>
    PROVE  Routed' /\ PoolIsWaiting' /\ AnswerIsOwn'
BY DEF TNInv, Routed, PoolIsWaiting, AnswerIsOwn

\* And the streams' side on the streams' variables and the routing.
LEMMA StreamsKept ==
    ASSUME TNInv,
           UNCHANGED <<tnRoutes, tnSrv, tnGot, tnDown, tnBack, tnWork, tnUrl, tnVia>>
    PROVE  Bound' /\ OnItsStream' /\ RoutesOwned'
BY OwnKept DEF TNInv, Bound, OnItsStream, RoutesOwned

\* What is known of the response channels depends on these variables only.
LEMMA ChannelsKept ==
    ASSUME TNInv, UNCHANGED <<tnCh, tnUrl, tnVia>>
    PROVE  InItsChannel'
BY OwnKept DEF TNInv, InItsChannel

-----------------------------------------------------------------------------

\* StartAgent and RecvEnds: the handler of a stream goes on, with its entry or without.
LEMMA StartAgentStep ==
    ASSUME TNInv, NEW s \in TNStreams, StartAgent(s)
    PROVE  TNInv'
<1>1. /\ UNCHANGED <<tnRoutes, tnGot, tnDown, tnBack, tnWork, tnPc, tnUrl, tnVia, tnPool, tnCh, tnResult>>
      /\ tnSrv[s] = "idle" /\ tnSrv' = [tnSrv EXCEPT ![s] = "opened"]
  BY DEF StartAgent, serveVars
<1>2. TNTypeOK' BY <1>1 DEF TNInv, TNTypeOK
<1>3. Bound' /\ OnItsStream' BY <1>1, OwnKept DEF TNInv, TNTypeOK, Bound, OnItsStream
<1>4. RoutesOwned' BY <1>1 DEF TNInv, TNTypeOK, RoutesOwned
<1> QED BY <1>1, <1>2, <1>3, <1>4, HandlersKept, ChannelsKept DEF TNInv

\* Recv fails: OpenTunnel goes on to its deferred delete, with its entry.
LEMMA RecvEndsStep ==
    ASSUME TNInv, NEW s \in TNStreams, RecvEnds(s)
    PROVE  TNInv'
<1>1. /\ UNCHANGED <<tnRoutes, tnGot, tnDown, tnBack, tnWork, tnPc, tnUrl, tnVia, tnPool, tnCh, tnResult>>
      /\ tnSrv[s] = "recv" /\ tnSrv' = [tnSrv EXCEPT ![s] = "unbind"]
  BY DEF RecvEnds, serveVars
<1>2. TNTypeOK' BY <1>1 DEF TNInv, TNTypeOK
<1>3. Bound' /\ OnItsStream' BY <1>1, OwnKept DEF TNInv, TNTypeOK, Bound, OnItsStream
<1>4. RoutesOwned' BY <1>1 DEF TNInv, TNTypeOK, RoutesOwned
<1> QED BY <1>1, <1>2, <1>3, <1>4, HandlersKept, ChannelsKept DEF TNInv

\* OpenTunnel takes a prefix that no stream has, or none.
LEMMA BindStep ==
    ASSUME TNInv, NEW s \in TNStreams, Bind(s)
    PROVE  TNInv'
<1>1. /\ UNCHANGED <<tnGot, tnDown, tnBack, tnWork, tnPc, tnUrl, tnVia, tnPool, tnCh, tnResult>>
      /\ tnSrv[s] = "opened"
      /\ \/ /\ TNPrefixOf[s] # Nil /\ tnRoutes[TNPrefixOf[s]] = Nil
            /\ tnRoutes' = [tnRoutes EXCEPT ![TNPrefixOf[s]] = s]
            /\ tnSrv' = [tnSrv EXCEPT ![s] = "recv"]
         \/ tnSrv' = [tnSrv EXCEPT ![s] = "returned"] /\ tnRoutes' = tnRoutes
  BY DEF Bind, serveVars
<1>2. TNPrefixOf[s] # Nil => TNPrefixOf[s] \in TNPrefixes BY TNAssumption
<1>3. TNTypeOK'
  <2>1. tnRoutes' \in [TNPrefixes -> TNStreams \cup {Nil}] BY <1>1 DEF TNInv, TNTypeOK
  <2>2. tnSrv' \in [TNStreams -> {"idle", "opened", "recv", "deliver", "unbind", "returned"}]
    BY <1>1 DEF TNInv, TNTypeOK
  <2> QED BY <1>1, <2>1, <2>2 DEF TNInv, TNTypeOK
<1>4. Bound' /\ OnItsStream' BY <1>1, OwnKept DEF TNInv, TNTypeOK, Bound, OnItsStream
<1>5. RoutesOwned' BY <1>1, <1>2, TNAssumption DEF TNInv, TNTypeOK, RoutesOwned
<1> QED BY <1>1, <1>3, <1>4, <1>5, HandlersKept, ChannelsKept DEF TNInv

\* The deferred delete takes the stream's own entry.
LEMMA UnbindStep ==
    ASSUME TNInv, NEW s \in TNStreams, Unbind(s)
    PROVE  TNInv'
<1>1. /\ UNCHANGED <<tnGot, tnDown, tnBack, tnWork, tnPc, tnUrl, tnVia, tnPool, tnCh, tnResult>>
      /\ tnSrv[s] = "unbind"
      /\ tnRoutes' = [tnRoutes EXCEPT ![TNPrefixOf[s]] = Nil]
      /\ tnSrv' = [tnSrv EXCEPT ![s] = "returned"]
  BY DEF Unbind, serveVars
<1>2. TNPrefixOf[s] \in TNPrefixes /\ tnRoutes[TNPrefixOf[s]] = s
  <2>1. TNPrefixOf[s] \in TNPrefixes BY <1>1, TNAssumption DEF TNInv, Bound
  <2> QED BY <1>1, <2>1 DEF TNInv, RoutesOwned
<1>3. TNTypeOK' BY <1>1 DEF TNInv, TNTypeOK
<1>4. Bound' /\ OnItsStream' BY <1>1, OwnKept DEF TNInv, TNTypeOK, Bound, OnItsStream
<1>5. RoutesOwned'
  <2> SUFFICES ASSUME NEW t \in TNStreams, NEW p \in TNPrefixes
               PROVE  tnRoutes'[p] = t <=> /\ TNPrefixOf[t] = p
                                           /\ tnSrv'[t] \in {"recv", "deliver", "unbind"}
    BY DEF RoutesOwned
  <2>1. tnRoutes[p] = t <=> TNPrefixOf[t] = p /\ tnSrv[t] \in {"recv", "deliver", "unbind"}
    BY DEF TNInv, RoutesOwned
  <2>2. tnRoutes'[p] = IF p = TNPrefixOf[s] THEN Nil ELSE tnRoutes[p]
    BY <1>1, <1>2 DEF TNInv, TNTypeOK
  <2>3. tnSrv'[t] = IF t = s THEN "returned" ELSE tnSrv[t] BY <1>1 DEF TNInv, TNTypeOK
  <2>4. CASE t = s BY <1>2, <2>1, <2>2, <2>3, <2>4, TNAssumption
  <2>5. CASE t # s BY <1>2, <2>1, <2>2, <2>3, <2>5, TNAssumption
  <2> QED BY <2>4, <2>5
<1> QED BY <1>1, <1>3, <1>4, <1>5, HandlersKept, ChannelsKept DEF TNInv

\* dispatchResponse takes a response from its stream.
LEMMA LookupStep ==
    ASSUME TNInv, NEW s \in TNStreams, NEW r \in tnBack[s], Lookup(s, r)
    PROVE  TNInv'
<1>1. /\ UNCHANGED <<tnRoutes, tnDown, tnWork, tnPc, tnUrl, tnVia, tnPool, tnCh, tnResult>>
      /\ tnSrv[s] = "recv"
      /\ tnBack' = [tnBack EXCEPT ![s] = @ \ {r}]
      /\ \/ tnGot' = [tnGot EXCEPT ![s] = r] /\ tnSrv' = [tnSrv EXCEPT ![s] = "deliver"]
         \/ tnGot' = tnGot /\ tnSrv' = tnSrv
  BY DEF Lookup, serveVars
<1>2. r \in Responses /\ Own(r, s) BY DEF TNInv, TNTypeOK, OnItsStream
<1>3. TNTypeOK'
  <2>1. tnGot' \in [TNStreams -> Responses \cup {Nil}] BY <1>1, <1>2 DEF TNInv, TNTypeOK
  <2>2. tnSrv' \in [TNStreams -> {"idle", "opened", "recv", "deliver", "unbind", "returned"}]
    BY <1>1 DEF TNInv, TNTypeOK
  <2>3. tnBack' \in [TNStreams -> SUBSET Responses] BY <1>1 DEF TNInv, TNTypeOK
  <2> QED BY <1>1, <2>1, <2>2, <2>3 DEF TNInv, TNTypeOK
<1>4. Bound' BY <1>1 DEF TNInv, TNTypeOK, Bound
<1>5. OnItsStream'
  <2>1. \A t \in TNStreams : tnBack'[t] \subseteq tnBack[t] BY <1>1 DEF TNInv, TNTypeOK
  <2>2. \A t \in TNStreams : tnSrv'[t] = "deliver" =>
            \/ tnSrv[t] = "deliver" /\ tnGot'[t] = tnGot[t]
            \/ t = s /\ tnGot'[t] = r
    BY <1>1 DEF TNInv, TNTypeOK
  <2> QED BY <1>1, <1>2, <2>1, <2>2, OwnKept DEF TNInv, OnItsStream
<1>6. RoutesOwned' BY <1>1 DEF TNInv, TNTypeOK, RoutesOwned
<1> QED BY <1>1, <1>3, <1>4, <1>5, <1>6, HandlersKept, ChannelsKept DEF TNInv

\* And gives it to the request it names.
LEMMA DeliverStep ==
    ASSUME TNInv, NEW s \in TNStreams, Deliver(s)
    PROVE  TNInv'
<1> DEFINE r == tnGot[s]
<1>1. /\ UNCHANGED <<tnRoutes, tnDown, tnBack, tnWork, tnPc, tnUrl, tnVia, tnPool, tnResult>>
      /\ tnSrv[s] = "deliver"
      /\ tnGot' = [tnGot EXCEPT ![s] = Nil] /\ tnSrv' = [tnSrv EXCEPT ![s] = "recv"]
      /\ tnCh' = tnCh \/ tnCh' = [tnCh EXCEPT ![r.id] = r]
  <2>1. tnCh' = [tnCh EXCEPT ![r.id] = IF @ = Nil /\ tnPc[r.id] # "done" THEN r ELSE @]
    BY DEF Deliver
  <2>2. [tnCh EXCEPT ![r.id] = @] = tnCh BY DEF TNInv, TNTypeOK
  <2> QED BY <2>1, <2>2 DEF Deliver
<1>2. r \in Responses /\ Own(r, s) /\ r.id \in TNReqs /\ tnVia[r.id] = s
  BY <1>1 DEF TNInv, OnItsStream, Responses, Own
<1> HIDE DEF r
<1>3. TNTypeOK'
  <2>1. tnCh' \in [TNReqs -> Responses \cup {Nil}] BY <1>1, <1>2 DEF TNInv, TNTypeOK
  <2>2. tnGot' \in [TNStreams -> Responses \cup {Nil}] BY <1>1 DEF TNInv, TNTypeOK
  <2>3. tnSrv' \in [TNStreams -> {"idle", "opened", "recv", "deliver", "unbind", "returned"}]
    BY <1>1 DEF TNInv, TNTypeOK
  <2> QED BY <1>1, <2>1, <2>2, <2>3 DEF TNInv, TNTypeOK
<1>4. Bound' BY <1>1 DEF TNInv, TNTypeOK, Bound
<1>5. OnItsStream'
  <2>1. \A t \in TNStreams : tnSrv'[t] = "deliver" => tnSrv[t] = "deliver" /\ tnGot'[t] = tnGot[t]
    BY <1>1 DEF TNInv, TNTypeOK
  <2> QED BY <1>1, <2>1, OwnKept DEF TNInv, OnItsStream
<1>6. InItsChannel'
  <2>1. \A h \in TNReqs : tnCh'[h] = tnCh[h] \/ (h = r.id /\ tnCh'[h] = r)
    BY <1>1, <1>2 DEF TNInv, TNTypeOK
  <2> QED BY <1>1, <1>2, <2>1, OwnKept DEF TNInv, InItsChannel
<1>7. RoutesOwned' BY <1>1 DEF TNInv, TNTypeOK, RoutesOwned
<1> QED BY <1>1, <1>3, <1>4, <1>5, <1>6, <1>7, HandlersKept DEF TNInv

-----------------------------------------------------------------------------

\* What an agent and a lost connection do: requests move on their stream or are lost, and
\* a response is made for the request it names.
LEMMA AgentKeeps ==
    ASSUME TNInv,
           UNCHANGED <<tnRoutes, tnSrv, tnGot, tnPc, tnUrl, tnVia, tnPool, tnCh, tnResult>>,
           tnDown' \in [TNStreams -> SUBSET TNReqs], tnWork' \in [TNStreams -> SUBSET TNReqs],
           tnBack' \in [TNStreams -> SUBSET Responses],
           \A t \in TNStreams :
               /\ tnDown'[t] \cup tnWork'[t] \subseteq tnDown[t] \cup tnWork[t]
               /\ \A r \in tnBack'[t] : r \in tnBack[t] \/ Own(r, t)
    PROVE  TNInv'
<1>1. TNTypeOK' BY DEF TNInv, TNTypeOK
<1>2. Bound' /\ RoutesOwned' BY DEF TNInv, Bound, RoutesOwned
<1>3. OnItsStream' BY OwnKept DEF TNInv, OnItsStream
<1> QED BY <1>1, <1>2, <1>3, HandlersKept, ChannelsKept DEF TNInv

\* A step of the agent's recvLoop keeps the invariant.
LEMMA RecvLoopStep ==
    ASSUME TNInv, NEW s \in TNStreams, RecvLoop(s)
    PROVE  TNInv'
<1>1. UNCHANGED <<tnRoutes, tnSrv, tnGot, tnBack, tnPc, tnUrl, tnVia, tnPool, tnCh, tnResult>>
  BY DEF RecvLoop, serveVars
<1>2. \/ tnDown' = tnDown /\ tnWork' = tnWork
      \/ \E h \in tnDown[s] : /\ tnDown' = [tnDown EXCEPT ![s] = @ \ {h}]
                              /\ tnWork' = [tnWork EXCEPT ![s] = @ \cup {h}]
  BY DEF RecvLoop
<1>3. /\ tnDown' \in [TNStreams -> SUBSET TNReqs] /\ tnWork' \in [TNStreams -> SUBSET TNReqs]
      /\ \A t \in TNStreams : tnDown'[t] \cup tnWork'[t] \subseteq tnDown[t] \cup tnWork[t]
  <2>1. CASE tnDown' = tnDown /\ tnWork' = tnWork BY <2>1 DEF TNInv, TNTypeOK
  <2>2. ASSUME NEW h \in tnDown[s],
               tnDown' = [tnDown EXCEPT ![s] = @ \ {h}],
               tnWork' = [tnWork EXCEPT ![s] = @ \cup {h}]
        PROVE  <1>3
    <3>1. h \in TNReqs BY DEF TNInv, TNTypeOK
    <3> QED BY <2>2, <3>1 DEF TNInv, TNTypeOK
  <2> QED BY <1>2, <2>1, <2>2
<1>4. tnBack' \in [TNStreams -> SUBSET Responses] BY <1>1 DEF TNInv, TNTypeOK
<1> QED BY <1>1, <1>3, <1>4, AgentKeeps

\* A stream that breaks changes no route and no waiting request.
LEMMA BreakStep ==
    ASSUME TNInv, NEW s \in TNStreams, Break(s)
    PROVE  TNInv'
<1>1. /\ UNCHANGED <<tnRoutes, tnSrv, tnGot, tnWork, tnPc, tnUrl, tnVia, tnPool, tnCh, tnResult>>
      /\ tnDown' = [tnDown EXCEPT ![s] = {}] /\ tnBack' = [tnBack EXCEPT ![s] = {}]
  BY DEF Break, serveVars
<1>2. tnDown' \in [TNStreams -> SUBSET TNReqs] /\ tnWork' \in [TNStreams -> SUBSET TNReqs]
  BY <1>1 DEF TNInv, TNTypeOK
<1>3. tnBack' \in [TNStreams -> SUBSET Responses] BY <1>1 DEF TNInv, TNTypeOK
<1>4. \A t \in TNStreams : tnDown'[t] \subseteq tnDown[t] /\ tnBack'[t] \subseteq tnBack[t]
  BY <1>1 DEF TNInv, TNTypeOK
<1> QED BY <1>1, <1>2, <1>3, <1>4, AgentKeeps

\* A step of the agent's handleRequest keeps the invariant.
LEMMA HandleRequestStep ==
    ASSUME TNInv, NEW s \in TNStreams, NEW h \in TNReqs, NEW status \in {200, 502},
           HandleRequest(s, h, status)
    PROVE  TNInv'
<1> DEFINE r == [id |-> h, status |-> status, from |-> s]
<1>1. /\ UNCHANGED <<tnRoutes, tnSrv, tnGot, tnDown, tnPc, tnUrl, tnVia, tnPool, tnCh, tnResult>>
      /\ h \in tnWork[s] /\ status \in Statuses(h)
      /\ tnWork' = [tnWork EXCEPT ![s] = @ \ {h}]
      /\ tnBack' = tnBack \/ tnBack' = [tnBack EXCEPT ![s] = @ \cup {r}]
  BY DEF HandleRequest, serveVars
<1>2. r \in Responses BY DEF Responses
<1>3. Own(r, s)
  <2>1. tnVia[h] = s BY <1>1 DEF TNInv, OnItsStream
  <2>2. status = 200 => tnUrl[h].absolute BY <1>1 DEF Statuses
  <2> QED BY <2>1, <2>2 DEF Own
<1> HIDE DEF r
<1>4. tnDown' \in [TNStreams -> SUBSET TNReqs] /\ tnWork' \in [TNStreams -> SUBSET TNReqs]
  BY <1>1 DEF TNInv, TNTypeOK
<1>5. tnBack' \in [TNStreams -> SUBSET Responses] BY <1>1, <1>2 DEF TNInv, TNTypeOK
<1>6. \A t \in TNStreams : /\ tnWork'[t] \subseteq tnWork[t]
                           /\ \A q \in tnBack'[t] : q \in tnBack[t] \/ (q = r /\ t = s)
  BY <1>1 DEF TNInv, TNTypeOK
<1>7. \A t \in TNStreams : \A q \in tnBack'[t] : q \in tnBack[t] \/ Own(q, t) BY <1>3, <1>6
<1> QED BY <1>1, <1>4, <1>5, <1>6, <1>7, AgentKeeps

-----------------------------------------------------------------------------

\* A set of naturals has a least element.
LEMMA LeastOf ==
    ASSUME NEW T \in SUBSET Nat, T # {}
    PROVE  \E x \in T : \A y \in T : x <= y
<1> DEFINE R == {ss \in Nat \X Nat : ss[1] < ss[2]}
<1>1. IsWellFoundedOn(R, Nat) BY NatLessThanWellFounded DEF OpToRel
<1>2. \A x, y \in Nat : <<y, x>> \in R <=> y < x OBVIOUS
<1> HIDE DEF R
<1>3. PICK x \in T : \A y \in T : ~(<<y, x>> \in R) BY <1>1, WFMin
<1>4. \A y \in T : ~(y < x) BY <1>2, <1>3
<1>5. \A y \in T : x <= y BY <1>4
<1> QED BY <1>5

\* extractPrefix finds a bound prefix of the path, the longest, if there is one.
LEMMA ExtractedPrefix ==
    ASSUME NEW path \in Seq(STRING)
    PROVE  ExtractPrefix(path) # <<>> => IsPrefix(ExtractPrefix(path), path)
<1> DEFINE matching == {p \in TNPrefixes : tnRoutes[p] # Nil /\ IsPrefix(p, path)}
           T == {n \in Nat : \E p \in matching : n = Len(path) - Len(p)}
<1>1. CASE matching = {} BY <1>1 DEF ExtractPrefix
<1>2. CASE matching # {}
  <2>1. \A p \in matching : Len(p) \in Nat /\ Len(p) <= Len(path)
    BY TNAssumption DEF IsPrefix
  <2>2. Len(path) \in Nat OBVIOUS
  <2>3. T # {}
    <3>1. PICK p \in matching : TRUE BY <1>2
    <3>2. Len(path) - Len(p) \in T BY <2>1, <2>2
    <3> QED BY <3>2
  <2>4. PICK n \in T : \A m \in T : n <= m BY <2>3, LeastOf
  <2>5. PICK p \in matching : n = Len(path) - Len(p) BY <2>4
  <2>6. \A q \in matching : Len(q) <= Len(p)
    <3> SUFFICES ASSUME NEW q \in matching PROVE Len(q) <= Len(p) OBVIOUS
    <3>1. Len(path) - Len(q) \in T BY <2>1, <2>2
    <3>2. n <= Len(path) - Len(q) BY <2>4, <3>1
    <3> QED BY <2>1, <2>2, <2>5, <3>2
  <2>7. ExtractPrefix(path) = CHOOSE x \in matching : \A q \in matching : Len(q) <= Len(x)
    BY <1>2 DEF ExtractPrefix
  <2> HIDE DEF matching
  <2>8. ExtractPrefix(path) \in matching BY <2>6, <2>7
  <2> QED BY <2>8 DEF matching
<1> QED BY <1>1, <1>2

\* The empty prefix is one of every path.
LEMMA EmptyIsPrefix == ASSUME NEW path \in Seq(STRING) PROVE IsPrefix(<<>>, path)
BY DEF IsPrefix

\* ServeHTTP: the request goes to the stream whose prefix its path has, or is refused.
LEMMA ServeHTTPStep ==
    ASSUME TNInv, NEW h \in TNReqs, NEW url \in TNUrls, ServeHTTP(h, url)
    PROVE  TNInv'
<1> DEFINE p == ExtractPrefix(url.path)
<1>1. h \notin tnPool /\ tnPc[h] = "idle" /\ tnVia[h] = Nil /\ tnResult[h] = Nil
  BY DEF ServeHTTP, TNInv, PoolIsWaiting, Routed
<1>2. /\ UNCHANGED <<tnRoutes, tnSrv, tnGot, tnDown, tnBack, tnWork, tnPool, tnCh>>
      /\ tnUrl' = [tnUrl EXCEPT ![h] = url]
      /\ \/ /\ p \in TNPrefixes /\ tnRoutes[p] # Nil
            /\ tnVia' = [tnVia EXCEPT ![h] = tnRoutes[p]]
            /\ tnPc' = [tnPc EXCEPT ![h] = "body"] /\ tnResult' = tnResult
         \/ /\ tnVia' = tnVia /\ tnPc' = [tnPc EXCEPT ![h] = "done"]
            /\ tnResult' = [tnResult EXCEPT ![h] = [status |-> 502, by |-> Nil]]
  BY <1>1 DEF ServeHTTP, Finish, tunnelVars
<1>3. IsPrefix(p, url.path)
  <2>1. url.path \in Seq(STRING) BY TNAssumption
  <2> QED BY <2>1, ExtractedPrefix, EmptyIsPrefix
<1> HIDE DEF p
<1>4. p \in TNPrefixes /\ tnRoutes[p] # Nil => tnRoutes[p] \in TNStreams /\ TNPrefixOf[tnRoutes[p]] = p
  BY DEF TNInv, TNTypeOK, RoutesOwned
<1>5. \A g \in TNReqs \ {h} : /\ tnUrl'[g] = tnUrl[g] /\ tnVia'[g] = tnVia[g]
                              /\ tnPc'[g] = tnPc[g] /\ tnResult'[g] = tnResult[g]
  BY <1>2 DEF TNInv, TNTypeOK
<1>6. /\ tnUrl'[h] = url
      /\ \/ /\ tnVia'[h] \in TNStreams /\ TNPrefixOf[tnVia'[h]] = p
            /\ tnPc'[h] = "body" /\ tnResult'[h] = Nil
         \/ tnVia'[h] = Nil /\ tnPc'[h] = "done" /\ tnResult'[h].by = Nil
  <2>1. tnUrl'[h] = url BY <1>2 DEF TNInv, TNTypeOK
  <2>2. CASE p \in TNPrefixes /\ tnRoutes[p] # Nil /\ tnVia' = [tnVia EXCEPT ![h] = tnRoutes[p]]
             /\ tnPc' = [tnPc EXCEPT ![h] = "body"] /\ tnResult' = tnResult
    BY <1>1, <1>4, <2>1, <2>2 DEF TNInv, TNTypeOK
  <2>3. CASE tnVia' = tnVia /\ tnPc' = [tnPc EXCEPT ![h] = "done"]
             /\ tnResult' = [tnResult EXCEPT ![h] = [status |-> 502, by |-> Nil]]
    BY <1>1, <2>1, <2>3 DEF TNInv, TNTypeOK
  <2> QED BY <1>2, <2>2, <2>3
<1>7. TNTypeOK'
  <2>1. tnUrl' \in [TNReqs -> TNUrls \cup {Nil}] BY <1>2 DEF TNInv, TNTypeOK
  <2>2. tnVia' \in [TNReqs -> TNStreams \cup {Nil}] BY <1>2, <1>4 DEF TNInv, TNTypeOK
  <2>3. tnPc' \in [TNReqs -> {"idle", "body", "register", "send", "wait", "write", "unregister", "done"}]
    BY <1>2 DEF TNInv, TNTypeOK
  <2>4. DOMAIN tnResult' = TNReqs /\ tnResult' = [g \in TNReqs |-> tnResult'[g]]
    BY <1>2 DEF TNInv, TNTypeOK
  <2> QED BY <1>2, <2>1, <2>2, <2>3, <2>4 DEF TNInv, TNTypeOK
<1>8. Bound' /\ RoutesOwned' BY <1>2 DEF TNInv, Bound, RoutesOwned
<1>9. \A r \in Responses, s \in TNStreams : Own(r, s) => Own(r, s)'
  <2> SUFFICES ASSUME NEW r \in Responses, NEW s \in TNStreams, Own(r, s) PROVE Own(r, s)'
    OBVIOUS
  <2>1. r.id \in TNReqs /\ r.id # h BY <1>1, TNAssumption DEF Own, Responses
  <2> QED BY <1>5, <2>1 DEF Own
<1>10. OnItsStream'
  <2> SUFFICES ASSUME NEW s \in TNStreams
               PROVE  /\ \A g \in tnDown[s] \cup tnWork[s] : tnVia'[g] = s
                      /\ \A r \in tnBack[s] : Own(r, s)'
                      /\ tnSrv[s] = "deliver" => tnGot[s] \in Responses /\ Own(tnGot[s], s)'
    BY <1>2 DEF OnItsStream
  <2>1. \A g \in tnDown[s] \cup tnWork[s] : g \in TNReqs /\ tnVia[g] = s /\ g # h
    BY <1>1, TNAssumption DEF TNInv, TNTypeOK, OnItsStream
  <2>2. \A r \in tnBack[s] : r \in Responses /\ Own(r, s) BY DEF TNInv, TNTypeOK, OnItsStream
  <2>3. tnSrv[s] = "deliver" => tnGot[s] \in Responses /\ Own(tnGot[s], s)
    BY DEF TNInv, OnItsStream
  <2>4. tnSrv[s] = "deliver" => tnGot[s] \in Responses /\ Own(tnGot[s], s)' BY <1>2, <1>9, <2>3
  <2> QED BY <1>5, <1>9, <2>1, <2>2, <2>4
<1>11. InItsChannel'
  <2> SUFFICES ASSUME NEW g \in TNReqs, tnCh[g] # Nil
               PROVE  tnCh[g].id = g /\ Own(tnCh[g], tnVia[g])'
    BY <1>2 DEF InItsChannel
  <2>1. tnCh[g].id = g /\ tnCh[g] \in Responses /\ Own(tnCh[g], tnVia[g])
    BY DEF TNInv, TNTypeOK, InItsChannel
  <2>2. tnVia[g] \in TNStreams BY <2>1 DEF Own, Responses
  <2>3. g # h BY <1>1, <2>2, TNAssumption
  <2>4. tnVia'[g] = tnVia[g] /\ tnUrl'[g] = tnUrl[g] /\ tnCh' = tnCh BY <1>2, <1>5, <2>3
  <2> QED BY <2>1, <2>4 DEF Own
<1>12. Routed' BY <1>3, <1>5, <1>6 DEF TNInv, Routed
<1>13. PoolIsWaiting' BY <1>1, <1>2, <1>5, <1>6 DEF TNInv, PoolIsWaiting
<1>14. AnswerIsOwn' BY <1>5, <1>6 DEF TNInv, AnswerIsOwn
<1> QED BY <1>7, <1>8, <1>10, <1>11, <1>12, <1>13, <1>14 DEF TNInv

\* The steps of ServeHTTP that follow leave the routing and the streams' side alone, but
\* for what is sent.
LEMMA HandlerKeeps ==
    ASSUME TNInv, NEW h \in TNReqs, tnVia[h] \in TNStreams,
           UNCHANGED <<tnRoutes, tnSrv, tnGot, tnBack, tnWork, tnUrl, tnVia>>,
           tnDown' = tnDown \/ tnDown' = [tnDown EXCEPT ![tnVia[h]] = @ \cup {h}],
           tnCh' = tnCh \/ tnCh' = [tnCh EXCEPT ![h] = Nil],
           tnPc' \in [TNReqs -> {"idle", "body", "register", "send", "wait", "write", "unregister", "done"}],
           \A g \in TNReqs \ {h} : tnPc'[g] = tnPc[g],
           tnPc'[h] # "idle",
           tnPool' \subseteq TNReqs,
           tnResult' = [g \in TNReqs |-> tnResult'[g]],
           \A g \in TNReqs \ {h} : tnResult'[g] = tnResult[g]
    PROVE  TNTypeOK' /\ Bound' /\ OnItsStream' /\ InItsChannel' /\ Routed' /\ RoutesOwned'
<1>1. /\ tnDown' \in [TNStreams -> SUBSET TNReqs]
      /\ \A t \in TNStreams : \A g \in tnDown'[t] : g \in tnDown[t] \/ (g = h /\ t = tnVia[h])
  BY DEF TNInv, TNTypeOK
<1>2. tnCh' \in [TNReqs -> Responses \cup {Nil}]
  BY DEF TNInv, TNTypeOK
<1>3. \A g \in TNReqs : tnCh'[g] = Nil \/ tnCh'[g] = tnCh[g] BY DEF TNInv, TNTypeOK
<1>4. DOMAIN tnResult' = TNReqs OBVIOUS
<1>5. TNTypeOK' BY <1>1, <1>2, <1>4 DEF TNInv, TNTypeOK
<1>6. Bound' /\ RoutesOwned' BY DEF TNInv, Bound, RoutesOwned
<1>7. OnItsStream' BY <1>1, OwnKept DEF TNInv, OnItsStream
<1>8. InItsChannel' BY <1>3, OwnKept DEF TNInv, InItsChannel
<1>9. Routed'
  <2>1. \A g \in TNReqs : /\ tnPc'[g] = "idle" => tnPc[g] = "idle" /\ tnResult'[g] = tnResult[g]
                          /\ g # h => tnPc'[g] = tnPc[g]
    OBVIOUS
  <2> QED BY <2>1 DEF TNInv, Routed
<1> QED BY <1>5, <1>6, <1>7, <1>8, <1>9

\* responsePool follows the request's place.
LEMMA PoolStep ==
    ASSUME TNInv, NEW h \in TNReqs,
           \A g \in TNReqs \ {h} : tnPc'[g] = tnPc[g],
           tnPool' = IF tnPc'[h] \in {"send", "wait", "write", "unregister"}
                     THEN tnPool \cup {h} ELSE tnPool \ {h}
    PROVE  PoolIsWaiting'
BY DEF TNInv, PoolIsWaiting

\* registerWaiter.
LEMMA RegisterStep ==
    ASSUME TNInv, NEW h \in TNReqs, RegisterWaiter(h)
    PROVE  TNInv'
<1>1. /\ UNCHANGED <<tnRoutes, tnSrv, tnGot, tnDown, tnBack, tnWork, tnUrl, tnVia, tnCh, tnResult>>
      /\ tnPc[h] = "register" /\ tnPc' = [tnPc EXCEPT ![h] = "send"]
      /\ tnPool' = tnPool \cup {h}
  BY DEF RegisterWaiter, tunnelVars
<1>2. tnVia[h] \in TNStreams BY <1>1 DEF TNInv, Routed
<1>3. /\ tnPc' \in [TNReqs -> {"idle", "body", "register", "send", "wait", "write", "unregister", "done"}]
      /\ \A g \in TNReqs \ {h} : tnPc'[g] = tnPc[g]
      /\ tnPc'[h] = "send"
  BY <1>1 DEF TNInv, TNTypeOK
<1>4. tnPool' \subseteq TNReqs BY <1>1 DEF TNInv, TNTypeOK
<1>5. tnResult' = [g \in TNReqs |-> tnResult'[g]] BY <1>1 DEF TNInv, TNTypeOK
<1>6. PoolIsWaiting' BY <1>1, <1>3, PoolStep
<1>7. AnswerIsOwn' BY <1>1 DEF TNInv, AnswerIsOwn
<1> QED BY <1>1, <1>2, <1>3, <1>4, <1>5, <1>6, <1>7, HandlerKeeps DEF TNInv

\* The body is read, and an answer is written.
LEMMA ClientStep ==
    ASSUME TNInv, NEW h \in TNReqs, ReadBody(h) \/ WriteAnswer(h)
    PROVE  TNInv'
<1>1. /\ UNCHANGED <<tnRoutes, tnSrv, tnGot, tnDown, tnBack, tnWork, tnUrl, tnVia, tnPool, tnCh, tnResult>>
      /\ \/ tnPc[h] = "body" /\ tnPc' = [tnPc EXCEPT ![h] = "register"]
         \/ tnPc[h] = "write" /\ tnPc' = [tnPc EXCEPT ![h] = "unregister"]
  BY DEF ReadBody, WriteAnswer, tunnelVars
<1>2. tnVia[h] \in TNStreams BY <1>1 DEF TNInv, Routed
<1>3. /\ tnPc' \in [TNReqs -> {"idle", "body", "register", "send", "wait", "write", "unregister", "done"}]
      /\ \A g \in TNReqs \ {h} : tnPc'[g] = tnPc[g]
      /\ \/ tnPc[h] = "body" /\ tnPc'[h] = "register"
         \/ tnPc[h] = "write" /\ tnPc'[h] = "unregister"
  BY <1>1 DEF TNInv, TNTypeOK
<1>4. tnPool' \subseteq TNReqs BY <1>1 DEF TNInv, TNTypeOK
<1>5. tnResult' = [g \in TNReqs |-> tnResult'[g]] BY <1>1 DEF TNInv, TNTypeOK
<1>6. PoolIsWaiting' BY <1>1, <1>3 DEF TNInv, PoolIsWaiting
<1>7. AnswerIsOwn' BY <1>1 DEF TNInv, AnswerIsOwn
<1> QED BY <1>1, <1>2, <1>3, <1>4, <1>5, <1>6, <1>7, HandlerKeeps DEF TNInv

\* unregisterWaiter, deferred.
LEMMA UnregisterStep ==
    ASSUME TNInv, NEW h \in TNReqs, UnregisterWaiter(h)
    PROVE  TNInv'
<1>1. /\ UNCHANGED <<tnRoutes, tnSrv, tnGot, tnDown, tnBack, tnWork, tnUrl, tnVia, tnResult>>
      /\ tnPc[h] = "unregister" /\ tnPc' = [tnPc EXCEPT ![h] = "done"]
      /\ tnPool' = tnPool \ {h} /\ tnCh' = [tnCh EXCEPT ![h] = Nil]
  BY DEF UnregisterWaiter, tunnelVars
<1>2. tnVia[h] \in TNStreams BY <1>1 DEF TNInv, Routed
<1>3. /\ tnPc' \in [TNReqs -> {"idle", "body", "register", "send", "wait", "write", "unregister", "done"}]
      /\ \A g \in TNReqs \ {h} : tnPc'[g] = tnPc[g]
      /\ tnPc'[h] = "done"
  BY <1>1 DEF TNInv, TNTypeOK
<1>4. tnPool' \subseteq TNReqs BY <1>1 DEF TNInv, TNTypeOK
<1>5. tnResult' = [g \in TNReqs |-> tnResult'[g]] BY <1>1 DEF TNInv, TNTypeOK
<1>6. PoolIsWaiting' BY <1>1, <1>3, PoolStep
<1>7. AnswerIsOwn' BY <1>1 DEF TNInv, AnswerIsOwn
<1> QED BY <1>1, <1>2, <1>3, <1>4, <1>5, <1>6, <1>7, HandlerKeeps DEF TNInv

\* The ends of ServeHTTP: an answer of its own, or an error of the server.
LEMMA FinishStep ==
    ASSUME TNInv, NEW h \in TNReqs, tnPc[h] \in {"send", "wait"},
           NEW status, NEW by, Finish(h, status, by),
           UNCHANGED <<tnRoutes, tnSrv, tnGot, tnDown, tnBack, tnWork, tnUrl, tnVia, tnPool, tnCh>>,
           by # Nil => /\ by.id = h /\ Own(by, tnVia[h]) /\ by.status = status
    PROVE  TNInv'
<1>1. h \in tnPool BY DEF TNInv, PoolIsWaiting
<1>2. /\ tnPc' = [tnPc EXCEPT ![h] = IF by = Nil THEN "unregister" ELSE "write"]
      /\ tnResult' = [tnResult EXCEPT ![h] = [status |-> status, by |-> by]]
  BY <1>1 DEF Finish
<1>3. tnVia[h] \in TNStreams BY DEF TNInv, Routed
<1>4. /\ tnPc' \in [TNReqs -> {"idle", "body", "register", "send", "wait", "write", "unregister", "done"}]
      /\ \A g \in TNReqs \ {h} : tnPc'[g] = tnPc[g]
      /\ tnPc'[h] \in {"unregister", "write"}
  BY <1>2 DEF TNInv, TNTypeOK
<1>5. /\ tnResult' = [g \in TNReqs |-> tnResult'[g]]
      /\ \A g \in TNReqs \ {h} : tnResult'[g] = tnResult[g]
      /\ tnResult'[h] = [status |-> status, by |-> by]
  BY <1>2 DEF TNInv, TNTypeOK
<1>6. tnPool' \subseteq TNReqs BY DEF TNInv, TNTypeOK
<1>7. PoolIsWaiting' BY <1>1, <1>4, PoolStep
<1>8. AnswerIsOwn'
  <2>1. tnResult'[h].by = by /\ tnResult'[h].status = status BY <1>5
  <2>2. IsPrefix(TNPrefixOf[tnVia[h]], tnUrl[h].path)
    BY <1>3, TNAssumption DEF TNInv, Routed
  <2>3. tnVia' = tnVia /\ tnUrl' = tnUrl OBVIOUS
  <2>4. by # Nil => /\ by.id = h /\ by.from = tnVia[h]
                    /\ IsPrefix(TNPrefixOf[by.from], tnUrl[h].path)
                    /\ status = 200 => tnUrl[h].absolute
    BY <2>2 DEF Own
  <2>5. \A g \in TNReqs \ {h} : tnResult'[g] # Nil /\ tnResult'[g].by # Nil =>
            LET r == tnResult'[g].by IN
            /\ r.id = g /\ r.from = tnVia'[g]
            /\ IsPrefix(TNPrefixOf[r.from], tnUrl'[g].path)
            /\ tnResult'[g].status = 200 => tnUrl'[g].absolute
    BY <1>5, <2>3 DEF TNInv, AnswerIsOwn
  <2> QED BY <2>1, <2>3, <2>4, <2>5 DEF AnswerIsOwn
<1> QED BY <1>3, <1>4, <1>5, <1>6, <1>7, <1>8, HandlerKeeps DEF TNInv

\* stream.Send.
LEMMA SendStep ==
    ASSUME TNInv, NEW h \in TNReqs, Send(h)
    PROVE  TNInv'
<1>1. /\ UNCHANGED <<tnRoutes, tnSrv, tnGot, tnBack, tnWork, tnUrl, tnVia, tnPool, tnCh>>
      /\ tnPc[h] = "send"
      /\ \/ Finish(h, 502, Nil) /\ tnDown' = tnDown
         \/ /\ tnPc' = [tnPc EXCEPT ![h] = "wait"] /\ tnResult' = tnResult
            /\ tnDown' = tnDown \/ tnDown' = [tnDown EXCEPT ![tnVia[h]] = @ \cup {h}]
  BY DEF Send
<1>2. CASE Finish(h, 502, Nil) /\ tnDown' = tnDown BY <1>1, <1>2, FinishStep
<1>3. CASE /\ tnPc' = [tnPc EXCEPT ![h] = "wait"] /\ tnResult' = tnResult
           /\ tnDown' = tnDown \/ tnDown' = [tnDown EXCEPT ![tnVia[h]] = @ \cup {h}]
  <2>1. tnVia[h] \in TNStreams BY <1>1 DEF TNInv, Routed
  <2>2. /\ tnPc' \in [TNReqs -> {"idle", "body", "register", "send", "wait", "write", "unregister", "done"}]
        /\ \A g \in TNReqs \ {h} : tnPc'[g] = tnPc[g]
        /\ tnPc'[h] = "wait"
    BY <1>3 DEF TNInv, TNTypeOK
  <2>3. tnPool' = tnPool \cup {h} BY <1>1 DEF TNInv, PoolIsWaiting
  <2>4. tnPool' \subseteq TNReqs BY <1>1 DEF TNInv, TNTypeOK
  <2>5. tnResult' = [g \in TNReqs |-> tnResult'[g]] BY <1>3 DEF TNInv, TNTypeOK
  <2>6. PoolIsWaiting' BY <2>2, <2>3, PoolStep
  <2>7. AnswerIsOwn' BY <1>1, <1>3 DEF TNInv, AnswerIsOwn
  <2> QED BY <1>1, <1>3, <2>1, <2>2, <2>4, <2>5, <2>6, <2>7, HandlerKeeps DEF TNInv
<1> QED BY <1>1, <1>2, <1>3

\* The answer, or thirty-five seconds.
LEMMA AnswerStep ==
    ASSUME TNInv, NEW h \in TNReqs, Answer(h) \/ Timeout(h)
    PROVE  TNInv'
<1>1. CASE Answer(h)
  <2>1. /\ UNCHANGED <<tnRoutes, tnSrv, tnGot, tnDown, tnBack, tnWork, tnUrl, tnVia, tnPool, tnCh>>
        /\ tnPc[h] = "wait" /\ tnCh[h] # Nil /\ Finish(h, tnCh[h].status, tnCh[h])
    BY <1>1 DEF Answer, tunnelVars
  <2>2. tnCh[h].id = h /\ Own(tnCh[h], tnVia[h]) BY <2>1 DEF TNInv, InItsChannel
  <2> QED BY <2>1, <2>2, FinishStep
<1>2. CASE Timeout(h)
  <2>1. /\ UNCHANGED <<tnRoutes, tnSrv, tnGot, tnDown, tnBack, tnWork, tnUrl, tnVia, tnPool, tnCh>>
        /\ tnPc[h] = "wait" /\ Finish(h, 504, Nil)
    BY <1>2 DEF Timeout, tunnelVars
  <2> QED BY <2>1, FinishStep
<1> QED BY <1>1, <1>2

\* Every step of the tunnel server and of its agents keeps the invariant.
LEMMA TNStep == TNInv /\ [TNNext]_tnVars => TNInv'
<1> SUFFICES ASSUME TNInv, [TNNext]_tnVars PROVE TNInv' OBVIOUS
<1>1. ASSUME NEW s \in TNStreams, StartAgent(s) \/ ServerStep(s) PROVE TNInv'
  BY <1>1, StartAgentStep, BindStep, DeliverStep, RecvEndsStep, UnbindStep, LookupStep
  DEF ServerStep
<1>2. ASSUME NEW s \in TNStreams, RecvLoop(s) \/ Break(s) PROVE TNInv'
  BY <1>2, RecvLoopStep, BreakStep
<1>3. ASSUME NEW s \in TNStreams, NEW h \in TNReqs, NEW status \in {200, 502},
             HandleRequest(s, h, status)
      PROVE  TNInv'
  BY <1>3, HandleRequestStep
<1>4. ASSUME NEW h \in TNReqs, HandlerStep(h) \/ ReadBody(h) \/ WriteAnswer(h) PROVE TNInv'
  BY <1>4, RegisterStep, SendStep, AnswerStep, UnregisterStep, ClientStep DEF HandlerStep
<1>5. ASSUME NEW h \in TNReqs, NEW url \in TNUrls, ServeHTTP(h, url) PROVE TNInv'
  BY <1>5, ServeHTTPStep
<1>6. ASSUME UNCHANGED tnVars PROVE TNInv'
  <2>1. TNTypeOK' BY <1>6 DEF TNInv, TNTypeOK, tnVars
  <2> QED BY <1>6, <2>1, HandlersKept, StreamsKept, ChannelsKept DEF TNInv, tnVars
<1> QED BY <1>1, <1>2, <1>3, <1>4, <1>5, <1>6 DEF TNNext

\* The tunnel server and its agents: whatever streams open, break and are refused, and
\* however requests, answers and timeouts cross, a prefix has one owner whose deferred
\* delete takes only its own entry, a request is answered with what was made for it by
\* the agent of its prefix, and responsePool keeps no channel of a request that is over.
THEOREM TunnelIsCorrect == TNSpec => []TunnelCorrect
<1>1. TNInv => TunnelCorrect BY DEF TNInv, TunnelCorrect
<1> QED BY TNInitInv, TNStep, <1>1, PTL DEF TNSpec

-----------------------------------------------------------------------------
(* The order services.                                                     *)

\* Types, and the arguments of an AddOrder that is under way.
OSTypeOK ==
    /\ osServer \in Servers
    /\ osCrashed \in BOOLEAN
    /\ orderMap = [id \in OSIds |-> orderMap[id]]
    /\ osCall \in [kind : {"none", "add", "get", "search", "update"},
                   fails : {"logs", "spins", "fatal", "panics"},
                   pc : {"idle", "run", "slept", "done", "failed", "logs", "spins", "fatal", "panics"},
                   ctx : {"live", "deadline", "canceled"}, args : {osCall.args}]
    /\ osCall.kind = "add" /\ osCall.pc \in {"run", "slept", "done", "failed"} =>
         osCall.args \in [id : OSIds, order : OSOrders]

\* Nothing has been written or answered before a handler does it: the call finds the
\* sample data.
NotYetDone ==
    /\ osCall.pc = "idle" \/ (osCall.kind = "add" /\ osCall.pc = "run") =>
         orderMap = OSSample /\ osSent = <<>>
    /\ osCall.kind = "add" /\ osCall.pc = "slept" =>
         orderMap[osCall.args.id] = osCall.args.order /\ osSent = <<>>

\* A search fails only by its context, an update is a call of a server with streams, and
\* ProcessOrders was started by the client's main.
CallCauses ==
    /\ osCall.pc = "idle" => osCall.kind = "none"
    /\ osCall.fails = "spins" => osCall.kind = "search"
    /\ osCall.kind = "search" /\ osCall.pc = "failed" => osCall.ctx # "live"
    /\ osCall.kind = "update" => osServer.errors # "unimplemented"
    /\ osCall.pc = "slept" => osCall.kind = "add"
    /\ osProc # "idle" => osMain # "idle"

OSInv == OSTypeOK /\ NotYetDone /\ CallCauses /\ CrashIsExplained /\ AddAnswerTruthful

\* No call has been made when a server starts.
LEMMA OSInitInv == OSInit => OSInv
<1> SUFFICES ASSUME OSInit PROVE OSInv OBVIOUS
<1>0. /\ osServer \in Servers
      /\ orderMap = OSSample
      /\ osCrashed \in BOOLEAN
      /\ osCall = [kind |-> "none", fails |-> "logs", pc |-> "idle", ctx |-> "live", args |-> Nil]
  <2>1. osServer \in Servers BY DEF OSInit
  <2>2. orderMap = OSSample BY Zenon DEF OSInit
  <2>3. osCrashed \in BOOLEAN BY Zenon DEF OSInit
  <2>4. osCall = [kind |-> "none", fails |-> "logs", pc |-> "idle", ctx |-> "live", args |-> Nil]
    BY Zenon DEF OSInit
  <2> QED BY <2>1, <2>2, <2>3, <2>4
<1>1. OSTypeOK BY <1>0, OSAssumption DEF OSTypeOK
<1> QED BY <1>1 DEF OSInit, OSInv, NotYetDone, CallCauses, CrashIsExplained, AddAnswerTruthful

\* What the rest of the state is does not matter, as long as ProcessOrders is not started
\* anew: the steps of the stream and of its client leave the call alone.
LEMMA OtherSteps ==
    ASSUME OSInv, UNCHANGED <<osServer, orderMap, osCrashed, osCall, osSent>>,
           osProc' # "idle" => osMain' # "idle",
           osCrashed /\ osProc # "idle" => osProc' = osProc
    PROVE  OSInv'
BY DEF OSInv, OSTypeOK, NotYetDone, CallCauses, CrashIsExplained, AddAnswerTruthful

\* ProcessOrders does not run in a process that has died.
LEMMA ProcKeeps == OSInv /\ ProcStep => OSInv'
<1> SUFFICES ASSUME OSInv, ProcStep PROVE OSInv' OBVIOUS
<1>1. /\ UNCHANGED <<osServer, orderMap, osCrashed, osCall, osSent, osMain>>
      /\ ~osCrashed /\ osProc # "idle"
  BY DEF ProcStep, ProcRecv, ProcRead, ProcFile, ProcSend, callVars, clientVars
<1>2. osProc # "idle" => osMain # "idle" BY DEF OSInv, CallCauses
<1> QED BY <1>1, <1>2, OtherSteps

\* main goes on from a state that is not its first, and starts ProcessOrders only there.
LEMMA ClientKeeps ==
    OSInv /\ (MainStarts \/ MainStep \/ Receives \/ DeadlinePasses) => OSInv'
<1> SUFFICES ASSUME OSInv, MainStarts \/ MainStep \/ Receives \/ DeadlinePasses PROVE OSInv' OBVIOUS
<1>1. osProc # "idle" => osMain # "idle" BY DEF OSInv, CallCauses
<1>2. /\ UNCHANGED <<osServer, orderMap, osCrashed, osCall, osSent>>
      /\ osMain' # "idle" \/ UNCHANGED <<osMain, osProc>>
      /\ osMain = "idle" \/ osProc' = osProc
  <2>1. CASE MainStarts BY <2>1 DEF MainStarts, callVars, wireVars
  <2>2. CASE MainStep
    BY <2>2 DEF MainStep, MainSends, SendId, MainSpawns, MainSendsLast, MainCloses, Meet, callVars,
       procVars
  <2>3. CASE Receives \/ DeadlinePasses
    BY <2>3 DEF Receives, DeadlinePasses, callVars, procVars, clientVars
  <2> QED BY <2>1, <2>2, <2>3
<1> QED BY <1>1, <1>2, OtherSteps

\* A client makes a call: nothing has been written yet.
LEMMA CallKeeps ==
    ASSUME OSInv, NEW kind \in {"add", "get", "search", "update"},
           NEW fails \in {"logs", "spins", "fatal", "panics"}, NEW args, Call(kind, fails, args),
           fails = "spins" => kind = "search",
           kind = "update" => HasStreams,
           kind = "add" => args \in [id : OSIds, order : OSOrders]
    PROVE  OSInv'
<1>1. /\ osCall' = [kind |-> kind, fails |-> fails, pc |-> "run", ctx |-> "live", args |-> args]
      /\ osCall.pc = "idle" /\ ~osCrashed
      /\ UNCHANGED <<osServer, orderMap, osCrashed, osSent, osProc, osMain>>
  BY DEF Call, procVars, clientVars
<1>2. orderMap = OSSample /\ osSent = <<>> BY <1>1 DEF OSInv, NotYetDone
<1>3. OSTypeOK' BY <1>1 DEF OSInv, OSTypeOK
<1>4. NotYetDone' BY <1>1, <1>2 DEF NotYetDone
<1>5. CallCauses' BY <1>1 DEF OSInv, CallCauses, HasStreams
<1>6. CrashIsExplained' /\ AddAnswerTruthful' BY <1>1 DEF CrashIsExplained, AddAnswerTruthful
<1> QED BY <1>3, <1>4, <1>5, <1>6 DEF OSInv

\* The clients make calls of these kinds.
LEMMA CallsKeep == OSInv /\ Calls => OSInv'
<1> SUFFICES ASSUME OSInv, Calls PROVE OSInv' OBVIOUS
<1>1. ASSUME NEW id \in OSIds, NEW o \in OSOrders, NEW fails \in {"logs", "panics"},
             Call("add", fails, [id |-> id, order |-> o])
      PROVE  OSInv'
  BY <1>1, CallKeeps
<1>2. ASSUME NEW id \in OSIds, Call("get", "logs", [id |-> id]) PROVE OSInv' BY <1>2, CallKeeps
<1>3. ASSUME Call("search", "spins", [left |-> {id \in OSIds : orderMap[id] # Zero}]) PROVE OSInv'
  BY <1>3, CallKeeps
<1>4. ASSUME HasStreams, NEW msgs \in OSUpdates, Call("update", "fatal", [msgs |-> msgs])
      PROVE  OSInv'
  BY <1>4, CallKeeps
<1>5. CASE StreamClientCalls BY <1>1, <1>2, <1>3, <1>4, <1>5 DEF StreamClientCalls
<1>6. CASE TimeoutClientCalls BY <1>1, <1>2, <1>6 DEF TimeoutClientCalls
<1>7. CASE ErrorHandlingClientCalls BY <1>1, <1>7, OSAssumption DEF ErrorHandlingClientCalls
<1>8. CASE MultiplexingClientCalls BY <1>1, <1>8 DEF MultiplexingClientCalls
<1>9. CASE CompressionClientCalls BY <1>1, <1>9 DEF CompressionClientCalls
<1> QED BY <1>5, <1>6, <1>7, <1>8, <1>9 DEF Calls

\* AddOrder stores and answers, or refuses and leaves the sample data.
LEMMA AddKeeps == OSInv /\ AddOrder => OSInv'
<1> SUFFICES ASSUME OSInv, AddOrder PROVE OSInv' OBVIOUS
<1>1. /\ osCall.kind = "add" /\ ~osCrashed /\ osCall.pc \in {"run", "slept"}
      /\ UNCHANGED <<osServer, osCrashed, osProc, osMain>>
  BY DEF AddOrder, procVars, clientVars
<1>2. osSent = <<>> /\ osCall.args \in [id : OSIds, order : OSOrders]
  BY <1>1 DEF OSInv, OSTypeOK, NotYetDone
<1>3. \E pc \in {"slept", "done", "failed"} : osCall' = [osCall EXCEPT !.pc = pc]
  BY DEF AddOrder, Reply, Fail
<1>4. PICK pc \in {"slept", "done", "failed"} : osCall' = [osCall EXCEPT !.pc = pc] BY <1>3
<1>5. /\ osCall'.kind = "add" /\ osCall'.pc = pc /\ osCall'.args = osCall.args
      /\ osCall'.fails = osCall.fails /\ osCall'.ctx = osCall.ctx
  BY <1>1, <1>4 DEF OSInv, OSTypeOK
<1>6. orderMap' = [id \in OSIds |-> orderMap'[id]]
  BY DEF AddOrder, OSInv, OSTypeOK
<1>7. OSTypeOK' BY <1>1, <1>2, <1>4, <1>5, <1>6 DEF OSInv, OSTypeOK
<1>8. IF pc = "failed" /\ osSent' = <<"InvalidArgument">>
      THEN orderMap' = OSSample
      ELSE /\ orderMap'[osCall.args.id] = osCall.args.order
           /\ osSent' # <<"InvalidArgument">>
           /\ pc = "slept" => osSent' = <<>>
  <2>1. CASE osCall.pc = "run"
    <3>1. orderMap = OSSample BY <1>1, <2>1 DEF OSInv, NotYetDone
    <3>2. CASE osServer.add = "validate" /\ osCall.args.id = OSBadId
      BY <1>1, <1>2, <1>5, <2>1, <3>1, <3>2 DEF AddOrder, Fail, OSInv, OSTypeOK
    <3>3. CASE ~(osServer.add = "validate" /\ osCall.args.id = OSBadId)
      <4>1. /\ orderMap' = [orderMap EXCEPT ![osCall.args.id] = osCall.args.order]
            /\ osSent' = <<>> \/ osSent' = <<"OK">>
            /\ pc = "slept" => osSent' = <<>>
        BY <1>1, <1>2, <1>5, <2>1, <3>3 DEF AddOrder, Reply, OSInv, OSTypeOK
      <4>2. orderMap'[osCall.args.id] = osCall.args.order BY <1>2, <4>1 DEF OSInv, OSTypeOK
      <4>3. osSent' # <<"InvalidArgument">> BY <4>1
      <4> QED BY <4>1, <4>2, <4>3
    <3> QED BY <3>2, <3>3
  <2>2. CASE osCall.pc = "slept"
    <3>1. orderMap[osCall.args.id] = osCall.args.order BY <1>1, <2>2 DEF OSInv, NotYetDone
    <3>2. /\ UNCHANGED orderMap /\ pc # "slept"
          /\ osSent' = <<"DeadlineExceeded">> \/ osSent' = <<"OK">>
      BY <1>2, <1>5, <2>2 DEF AddOrder, Reply, Fail, OSInv, OSTypeOK
    <3> QED BY <3>1, <3>2
  <2> QED BY <1>1, <2>1, <2>2
<1>9. NotYetDone' /\ AddAnswerTruthful' BY <1>5, <1>8 DEF NotYetDone, AddAnswerTruthful
<1>10. CallCauses' /\ CrashIsExplained' BY <1>1, <1>5 DEF OSInv, CallCauses, CrashIsExplained
<1> QED BY <1>7, <1>9, <1>10 DEF OSInv

\* GetOrder, SearchOrders and UpdateOrders answer no AddOrder.
LEMMA OtherHandlersKeep ==
    ASSUME OSInv, osCall.kind \in {"get", "search", "update"}, osCall.pc = "run", ~osCrashed,
           NEW pc \in {"run", "done", "failed"}, NEW args,
           osCall' = [osCall EXCEPT !.pc = pc, !.args = args],
           orderMap' = [id \in OSIds |-> orderMap'[id]],
           UNCHANGED <<osServer, osCrashed, osProc, osMain>>,
           pc = "failed" /\ osCall.kind = "search" => osCall.ctx # "live"
    PROVE  OSInv'
<1>1. /\ osCall'.kind = osCall.kind /\ osCall'.pc = pc /\ osCall'.args = args
      /\ osCall'.fails = osCall.fails /\ osCall'.ctx = osCall.ctx
  BY DEF OSInv, OSTypeOK
<1>2. OSTypeOK' BY <1>1 DEF OSInv, OSTypeOK
<1>3. NotYetDone' /\ AddAnswerTruthful' BY <1>1 DEF NotYetDone, AddAnswerTruthful
<1>4. CallCauses' /\ CrashIsExplained' BY <1>1 DEF OSInv, CallCauses, CrashIsExplained
<1> QED BY <1>2, <1>3, <1>4 DEF OSInv

\* GetOrder.
LEMMA GetKeeps == OSInv /\ GetOrder => OSInv'
<1> SUFFICES ASSUME OSInv, GetOrder PROVE OSInv' OBVIOUS
<1>1. /\ osCall.kind = "get" /\ osCall.pc = "run" /\ ~osCrashed
      /\ UNCHANGED <<osServer, orderMap, osCrashed, osProc, osMain>>
      /\ \E pc \in {"done", "failed"} : osCall' = [osCall EXCEPT !.pc = pc]
  BY DEF GetOrder, Reply, Fail, procVars, clientVars
<1>2. PICK pc \in {"done", "failed"} : osCall' = [osCall EXCEPT !.pc = pc] BY <1>1
<1>3. osCall' = [osCall EXCEPT !.pc = pc, !.args = osCall.args] BY <1>2 DEF OSInv, OSTypeOK
<1>4. orderMap' = [id \in OSIds |-> orderMap'[id]] BY <1>1 DEF OSInv, OSTypeOK
<1> QED BY <1>1, <1>3, <1>4, OtherHandlersKeep

\* SearchOrders fails when the call is dead.
LEMMA SearchKeeps == ASSUME OSInv, NEW id, SearchOrders(id) PROVE OSInv'
<1>1. /\ osCall.kind = "search" /\ osCall.pc = "run" /\ ~osCrashed
      /\ UNCHANGED <<osServer, orderMap, osCrashed, osProc, osMain>>
  BY DEF SearchOrders, procVars, clientVars
<1>2. \E pc \in {"run", "done", "failed"} : \E args :
        osCall' = [osCall EXCEPT !.pc = pc, !.args = args] /\ (pc = "failed" => osCall.ctx # "live")
  <2>1. \/ osCall' = [osCall EXCEPT !.pc = "failed"] /\ osCall.ctx # "live"
        \/ osCall' = [osCall EXCEPT !.pc = "done"]
        \/ \E left : osCall' = [osCall EXCEPT !.args = left]
    BY DEF SearchOrders, Fail
  <2>2. [osCall EXCEPT !.pc = "failed"] = [osCall EXCEPT !.pc = "failed", !.args = osCall.args]
    BY DEF OSInv, OSTypeOK
  <2>3. [osCall EXCEPT !.pc = "done"] = [osCall EXCEPT !.pc = "done", !.args = osCall.args]
    BY DEF OSInv, OSTypeOK
  <2>4. ASSUME NEW left
        PROVE  [osCall EXCEPT !.args = left] = [osCall EXCEPT !.pc = "run", !.args = left]
    BY <1>1 DEF OSInv, OSTypeOK
  <2> QED BY <2>1, <2>2, <2>3, <2>4
<1>3. PICK pc \in {"run", "done", "failed"} : \E args :
        osCall' = [osCall EXCEPT !.pc = pc, !.args = args] /\ (pc = "failed" => osCall.ctx # "live")
  BY <1>2
<1>5. PICK args :
        osCall' = [osCall EXCEPT !.pc = pc, !.args = args] /\ (pc = "failed" => osCall.ctx # "live")
  BY <1>3
<1>4. orderMap' = [i \in OSIds |-> orderMap'[i]] BY <1>1 DEF OSInv, OSTypeOK
<1> QED BY <1>1, <1>4, <1>5, OtherHandlersKeep

\* UpdateOrders stores, answers, or ends the process where it does not look at an error.
LEMMA UpdateKeeps == OSInv /\ UpdateOrders => OSInv'
<1> SUFFICES ASSUME OSInv, UpdateOrders PROVE OSInv' OBVIOUS
<1>1. /\ osCall.kind = "update" /\ osCall.pc = "run" /\ ~osCrashed
      /\ UNCHANGED <<osServer, osProc, osMain>>
  BY DEF UpdateOrders, procVars, clientVars
<1>2. CASE osCrashed'
  <2>1. /\ osCall.ctx # "live" /\ osServer.errors # "end" /\ UNCHANGED <<orderMap, osCall, osSent>>
        /\ osCrashed' = TRUE
    BY <1>1, <1>2 DEF UpdateOrders, callVars
  <2>2. osServer.errors = "ignored"
    <3>1. osServer.errors \in {"end", "ignored", "unimplemented"}
      BY DEF OSInv, OSTypeOK, Servers, StreamServer, CancellationServer, PrometheusServer,
         CompressionServer, ErrorHandlingServer, MultiplexingServer, TimeoutServer
    <3> QED BY <1>1, <2>1, <3>1 DEF OSInv, CallCauses
  <2>3. CrashIsExplained' BY <1>1, <2>1, <2>2 DEF CrashIsExplained
  <2>4. OSTypeOK' /\ NotYetDone' /\ CallCauses' /\ AddAnswerTruthful'
    BY <1>1, <2>1 DEF OSInv, OSTypeOK, NotYetDone, CallCauses, AddAnswerTruthful
  <2> QED BY <2>3, <2>4 DEF OSInv
<1>3. CASE ~osCrashed'
  <2>1. \E pc \in {"run", "done", "failed"} : \E args :
          osCall' = [osCall EXCEPT !.pc = pc, !.args = args]
    <3>1. \/ \E pc \in {"done", "failed"} : osCall' = [osCall EXCEPT !.pc = pc]
          \/ \E a : osCall' = [osCall EXCEPT !.args = a]
      BY <1>3 DEF UpdateOrders, Reply, Fail
    <3>2. ASSUME NEW pc \in {"done", "failed"}
          PROVE  [osCall EXCEPT !.pc = pc] = [osCall EXCEPT !.pc = pc, !.args = osCall.args]
      BY DEF OSInv, OSTypeOK
    <3>3. ASSUME NEW a
          PROVE  [osCall EXCEPT !.args = a] = [osCall EXCEPT !.pc = "run", !.args = a]
      BY <1>1 DEF OSInv, OSTypeOK
    <3> QED BY <3>1, <3>2, <3>3
  <2>2. PICK pc \in {"run", "done", "failed"} : \E args :
          osCall' = [osCall EXCEPT !.pc = pc, !.args = args]
    BY <2>1
  <2>5. PICK args : osCall' = [osCall EXCEPT !.pc = pc, !.args = args] BY <2>2
  <2>3. osCrashed' = osCrashed BY <1>1, <1>3 DEF UpdateOrders
  <2>4. orderMap' = [i \in OSIds |-> orderMap'[i]]
    BY <1>3 DEF UpdateOrders, OSInv, OSTypeOK
  <2> QED BY <1>1, <2>3, <2>4, <2>5, OtherHandlersKeep
<1> QED BY <1>2, <1>3

\* The context of a call ends: nothing else happens.
LEMMA DiesKeeps == OSInv /\ CallDies => OSInv'
<1> SUFFICES ASSUME OSInv, CallDies PROVE OSInv' OBVIOUS
<1>0. PICK why \in {"deadline", "canceled"} : osCall' = [osCall EXCEPT !.ctx = why]
  BY DEF CallDies
<1>1. /\ osCall.pc \in {"run", "slept"}
      /\ UNCHANGED <<osServer, orderMap, osCrashed, osSent, osProc, osMain>>
  BY DEF CallDies, procVars, clientVars
<1>2. /\ osCall'.kind = osCall.kind /\ osCall'.pc = osCall.pc /\ osCall'.args = osCall.args
      /\ osCall'.fails = osCall.fails /\ osCall'.ctx = why
  BY <1>0 DEF OSInv, OSTypeOK
<1>3. OSTypeOK' BY <1>0, <1>1, <1>2 DEF OSInv, OSTypeOK
<1>4. NotYetDone' /\ AddAnswerTruthful' BY <1>1, <1>2 DEF OSInv, NotYetDone, AddAnswerTruthful
<1>5. CallCauses' /\ CrashIsExplained' BY <1>1, <1>2 DEF OSInv, CallCauses, CrashIsExplained
<1> QED BY <1>3, <1>4, <1>5 DEF OSInv

\* The client has its outcome; only a search leaves it in a loop.
LEMMA ReadsKeeps == OSInv /\ ClientReads => OSInv'
<1> SUFFICES ASSUME OSInv, ClientReads PROVE OSInv' OBVIOUS
<1> DEFINE pc == IF osCall.pc = "done" /\ osCall.ctx = "live" THEN "logs" ELSE osCall.fails
<1>1. /\ osCall' = [osCall EXCEPT !.args = Nil, !.pc = pc]
      /\ osCall.pc \in {"done", "failed"} \/ osCrashed
      /\ UNCHANGED <<osServer, orderMap, osCrashed, osProc, osMain>>
  BY DEF ClientReads, procVars, clientVars
<1>2. pc \in {"logs", "spins", "fatal", "panics"} BY DEF OSInv, OSTypeOK
<1>3. pc = "spins" => osCall.ctx # "live" \/ osCrashed BY <1>1 DEF OSInv, OSTypeOK, CallCauses
<1> HIDE DEF pc
<1>4. /\ osCall'.kind = osCall.kind /\ osCall'.pc = pc /\ osCall'.args = Nil
      /\ osCall'.fails = osCall.fails /\ osCall'.ctx = osCall.ctx
  BY <1>1 DEF OSInv, OSTypeOK
<1>5. OSTypeOK' BY <1>1, <1>2, <1>4 DEF OSInv, OSTypeOK
<1>6. NotYetDone' /\ AddAnswerTruthful' BY <1>2, <1>4 DEF NotYetDone, AddAnswerTruthful
<1>7. CallCauses' /\ CrashIsExplained'
  BY <1>1, <1>2, <1>3, <1>4 DEF OSInv, CallCauses, CrashIsExplained
<1> QED BY <1>5, <1>6, <1>7 DEF OSInv

\* A race on the map.
LEMMA RaceKeeps == OSInv /\ MapRace => OSInv'
BY DEF OSInv, MapRace, OSTypeOK, NotYetDone, CallCauses, CrashIsExplained, AddAnswerTruthful,
   callVars, procVars, clientVars

\* A step that changes nothing of the order services.
LEMMA OSStutter == OSInv /\ UNCHANGED osVars => OSInv'
BY DEF osVars, OSInv, OSTypeOK, NotYetDone, CallCauses, CrashIsExplained, AddAnswerTruthful

\* Every step of the servers and their clients.
LEMMA OSStepInv == OSInv /\ [OSNext]_osVars => OSInv'
<1> SUFFICES ASSUME OSInv, [OSNext]_osVars PROVE OSInv' OBVIOUS
<1>1. CASE Calls \/ CallDies \/ ClientReads \/ MapRace
  BY <1>1, CallsKeep, DiesKeeps, ReadsKeeps, RaceKeeps
<1>2. CASE CallStep BY <1>2, AddKeeps, GetKeeps, UpdateKeeps, SearchKeeps DEF CallStep
<1>3. CASE ProcStep BY <1>3, ProcKeeps
<1>4. CASE MainStarts \/ MainStep \/ Receives \/ DeadlinePasses BY <1>4, ClientKeeps
<1>5. CASE UNCHANGED osVars BY <1>5, OSStutter
<1> QED BY <1>1, <1>2, <1>3, <1>4, <1>5 DEF OSNext

\* The order servers of all the examples: the process dies only of a race on orderMap or,
\* where an error of Recv is not looked at, of a nil order; a search leaves its client in
\* a loop only if its context or the server has ended; and the answer of AddOrder says
\* what it has done.
THEOREM CallsAreExplained == OSSpec => []CallsExplained
<1>1. OSInv => CallsExplained BY DEF OSInv, CallsExplained
<1> QED BY <1>1, OSStepInv, OSInitInv, PTL DEF OSSpec

-----------------------------------------------------------------------------
(* The shipments of ProcessOrders.                                         *)

Elements(orders) == {orders[i] : i \in DOMAIN orders}

\* A destination has one shipment, which holds orders; and nothing has a number that no
\* id was received with.
ShipTypes ==
    /\ osRecvd \in Nat /\ batchMarker \in 0 .. OrderBatchSize
    /\ \A s \in combinedShipmentMap : s.orders \in Seq(Elements(s.orders))
    /\ \A s, t \in combinedShipmentMap : s.dest = t.dest => s = t
    /\ osShipped \cup Filed \cup InHand \subseteq 1 .. osRecvd

\* batchMarker bounds what is filed, although it starts at 1 and later at 0; the
\* destination that was read is still the order's, unless a call may have changed it.
ShipState ==
    /\ Cardinality(Filed) <= IF osProc \in {"idle", "recv", "read", "file"} THEN batchMarker
                             ELSE OrderBatchSize + 1
    /\ osProc = "file" => osDest = orderMap[osCur].dest \/ osCall.kind \in {"add", "update"}
    /\ osStatus = "OK" => osProc = "returned"

ShipInv == ShipTypes /\ ShipState /\ ShippedOnce

\* A number is in some shipments if one of their orders has it.
LEMMA InNumbers ==
    ASSUME NEW M
    PROVE  \A n : n \in Numbers(M) <=> \E s \in M : \E i \in DOMAIN s.orders : n = s.orders[i].no
BY DEF Numbers

\* Sets of numbers that were received are finite.
LEMMA NumbersFinite ==
    ASSUME NEW n \in Nat, NEW S \in SUBSET (1 .. n)
    PROVE  IsFiniteSet(S) /\ Cardinality(S) \in Nat
<1>1. IsFiniteSet(1 .. n) BY FS_Interval
<1>2. IsFiniteSet(S) BY <1>1, FS_Subset
<1> QED BY <1>2, FS_CardinalityType

\* Every order has a number of its own.
OneEach(M) ==
    \A s, t \in M : \A i \in DOMAIN s.orders, j \in DOMAIN t.orders :
        s.orders[i].no = t.orders[j].no => s = t /\ i = j

\* new is the shipment of old with one order more, or a shipment of one order.
OneLonger(new, old, k, n) ==
    /\ DOMAIN new.orders = 1 .. k + 1 /\ new.orders[k + 1].no = n
    /\ \/ old = {} /\ k = 0
       \/ \E s : /\ old = {s} /\ DOMAIN s.orders = 1 .. k
                 /\ \A i \in 1 .. k : new.orders[i] = s.orders[i]

\* A shipment is extended by one order, or begun with it: one number more, and still
\* every order has its own.
LEMMA OneMore ==
    ASSUME NEW M, NEW old \in SUBSET M, NEW new, NEW k \in Nat, NEW n,
           OneLonger(new, old, k, n),
           OneEach(M), n \notin Numbers(M)
    PROVE  /\ Numbers((M \ old) \cup {new}) = Numbers(M) \cup {n}
           /\ OneEach((M \ old) \cup {new})
<1> DEFINE N == (M \ old) \cup {new}
<1>0. /\ DOMAIN new.orders = 1 .. k + 1 /\ new.orders[k + 1].no = n
      /\ \/ old = {} /\ k = 0
         \/ \E s \in M : /\ old = {s} /\ DOMAIN s.orders = 1 .. k
                         /\ \A i \in 1 .. k : new.orders[i] = s.orders[i]
  BY DEF OneLonger
<1>1. \A i \in 1 .. k : \E s \in old : i \in DOMAIN s.orders /\ new.orders[i] = s.orders[i] BY <1>0
<1>2. \A s \in old : \A i \in DOMAIN s.orders : i \in 1 .. k /\ new.orders[i] = s.orders[i] BY <1>0
<1>3. \A i \in DOMAIN new.orders : i \in 1 .. k \/ i = k + 1 BY <1>0
<1>4. k + 1 \in DOMAIN new.orders /\ \A i \in 1 .. k : i \in DOMAIN new.orders BY <1>0
<1>5. ASSUME NEW m PROVE m \in Numbers(N) <=> m \in Numbers(M) \/ m = n
  <2>1. ASSUME m \in Numbers(N) PROVE m \in Numbers(M) \/ m = n
    <3>1. PICK s \in N : \E i \in DOMAIN s.orders : m = s.orders[i].no BY <2>1, InNumbers
    <3>2. CASE s \in M BY <3>1, <3>2, InNumbers
    <3>3. CASE s = new
      <4>1. PICK i \in DOMAIN new.orders : m = new.orders[i].no BY <3>1, <3>3
      <4>2. CASE i \in 1 .. k
        <5>1. PICK t \in old : i \in DOMAIN t.orders /\ new.orders[i] = t.orders[i] BY <1>1, <4>2
        <5> QED BY <4>1, <5>1, InNumbers
      <4> QED BY <1>0, <1>3, <4>1, <4>2
    <3> QED BY <3>2, <3>3
  <2>2. ASSUME m \in Numbers(M) PROVE m \in Numbers(N)
    <3>1. PICK s \in M : \E i \in DOMAIN s.orders : m = s.orders[i].no BY <2>2, InNumbers
    <3>2. PICK i \in DOMAIN s.orders : m = s.orders[i].no BY <3>1
    <3>3. CASE s \in old
      <4>1. i \in DOMAIN new.orders /\ m = new.orders[i].no BY <1>2, <1>4, <3>2, <3>3
      <4> QED BY <4>1, InNumbers
    <3>4. CASE s \notin old
      <4>1. s \in N BY <3>4
      <4> QED BY <3>2, <4>1, InNumbers
    <3> QED BY <3>3, <3>4
  <2>3. n \in Numbers(N) BY <1>0, <1>4, InNumbers
  <2> QED BY <2>1, <2>2, <2>3
<1>6. ASSUME NEW s \in M \ old, NEW i \in DOMAIN s.orders, NEW j \in DOMAIN new.orders
      PROVE  s.orders[i].no # new.orders[j].no
  <2>1. CASE j \in 1 .. k
    <3>1. PICK t \in old : j \in DOMAIN t.orders /\ new.orders[j] = t.orders[j] BY <1>1, <2>1
    <3> QED BY <3>1 DEF OneEach
  <2>2. CASE j = k + 1
    <3>1. s.orders[i].no \in Numbers(M) BY InNumbers
    <3> QED BY <1>0, <2>2, <3>1
  <2> QED BY <1>3, <2>1, <2>2
<1>7. ASSUME NEW i \in DOMAIN new.orders, NEW j \in DOMAIN new.orders,
             new.orders[i].no = new.orders[j].no
      PROVE  i = j
  <2>1. ASSUME NEW a \in 1 .. k PROVE new.orders[a].no # n
    <3>1. PICK t \in old : a \in DOMAIN t.orders /\ new.orders[a] = t.orders[a] BY <1>1
    <3> QED BY <3>1, InNumbers
  <2>2. CASE i \in 1 .. k /\ j \in 1 .. k
    <3>1. PICK s \in M : old = {s} /\ DOMAIN s.orders = 1 .. k
                         /\ \A a \in 1 .. k : new.orders[a] = s.orders[a]
      BY <1>0, <2>2
    <3> QED BY <1>7, <2>2, <3>1 DEF OneEach
  <2> QED BY <1>0, <1>3, <1>7, <2>1, <2>2
<1>8. OneEach(N)
  <2> SUFFICES ASSUME NEW s \in N, NEW t \in N, NEW i \in DOMAIN s.orders, NEW j \in DOMAIN t.orders,
                      s.orders[i].no = t.orders[j].no
               PROVE  s = t /\ i = j
    BY DEF OneEach
  <2>1. CASE s = new /\ t = new BY <1>7, <2>1
  <2>2. CASE s \in M \ old /\ t \in M \ old BY <2>2 DEF OneEach
  <2>3. CASE s = new /\ t \in M \ old BY <1>6, <2>3
  <2>4. CASE s \in M \ old /\ t = new BY <1>6, <2>4
  <2> QED BY <2>1, <2>2, <2>3, <2>4
<1>9. Numbers(N) = Numbers(M) \cup {n} BY <1>5
<1> QED BY <1>8, <1>9

\* Nothing has been received.
LEMMA ShipInitInv == OSInit => ShipInv
<1> SUFFICES ASSUME OSInit PROVE ShipInv OBVIOUS
<1>1. /\ combinedShipmentMap = {} /\ osRecvd = 0 /\ osShipped = {} /\ osProc = "idle"
      /\ batchMarker = 1 /\ osStatus = Nil
  <2>1. combinedShipmentMap = {} BY Zenon DEF OSInit
  <2>2. osRecvd = 0 BY Zenon DEF OSInit
  <2>3. osShipped = {} BY Zenon DEF OSInit
  <2>4. osProc = "idle" BY Zenon DEF OSInit
  <2>5. batchMarker = 1 BY Zenon DEF OSInit
  <2>6. osStatus = Nil BY Zenon DEF OSInit
  <2> QED BY <2>1, <2>2, <2>3, <2>4, <2>5, <2>6
<1>2. Filed = {} BY <1>1 DEF Filed, Numbers
<1>3. InHand = {} BY <1>1 DEF InHand
<1>4. Cardinality(Filed) = 0 BY <1>2, FS_EmptySet
<1>5. ShipTypes BY <1>1, <1>2, <1>3, OSAssumption DEF ShipTypes
<1>6. ShipState BY <1>1, <1>4, OSAssumption DEF ShipState
<1>7. ShippedOnce BY <1>1, <1>2, <1>3, <1>4, OSAssumption DEF ShippedOnce
<1> QED BY <1>5, <1>6, <1>7 DEF ShipInv

\* A step of anybody else: the context does not come back to life, and orders are changed
\* only by the two methods that are named.
LEMMA ShipOther ==
    ASSUME ShipInv,
           UNCHANGED <<combinedShipmentMap, osShipped, osRecvd, batchMarker, osStatus, osCur, osDest>>,
           osProc' = osProc \/ (osProc = "idle" /\ osProc' = "recv"),
           osCtx' = "live" => osCtx = "live",
           osCall.kind \in {"add", "update"} => osCall'.kind \in {"add", "update"},
           orderMap' = orderMap \/ osCall'.kind \in {"add", "update"}
    PROVE  ShipInv'
<1>1. Filed' = Filed BY DEF Filed, Numbers
<1>2. InHand' = InHand BY DEF InHand
<1>3. ShipTypes' BY <1>1, <1>2 DEF ShipInv, ShipTypes
<1>4. ShipState' BY <1>1 DEF ShipInv, ShipState
<1>5. ShippedOnce' BY <1>1, <1>2 DEF ShipInv, ShippedOnce
<1> QED BY <1>3, <1>4, <1>5 DEF ShipInv

\* Calls and clients are such steps.
LEMMA OtherShips ==
    ASSUME OSInv, ShipInv,
           \/ Calls \/ CallStep \/ CallDies \/ ClientReads \/ MapRace
           \/ MainStarts \/ MainStep \/ Receives \/ DeadlinePasses
    PROVE  ShipInv'
<1>1. CASE Calls
  <2>1. PICK kind, fails, args : Call(kind, fails, args)
    BY <1>1 DEF Calls, StreamClientCalls, TimeoutClientCalls, ErrorHandlingClientCalls,
       MultiplexingClientCalls, CompressionClientCalls
  <2>2. /\ osCall.pc = "idle"
        /\ UNCHANGED <<orderMap, combinedShipmentMap, osShipped, osRecvd, batchMarker, osStatus,
                       osCur, osDest, osProc, osCtx>>
    BY <2>1 DEF Call, procVars, wireVars
  <2>3. osCall.kind = "none" BY <2>2 DEF OSInv, CallCauses
  <2> QED BY <2>2, <2>3, ShipOther
<1>2. CASE CallStep \/ CallDies \/ ClientReads \/ MapRace
  <2>1. UNCHANGED <<combinedShipmentMap, osShipped, osRecvd, batchMarker, osStatus, osCur, osDest,
                    osProc, osCtx>>
    BY <1>2 DEF CallStep, AddOrder, GetOrder, UpdateOrders, SearchOrders, CallDies, ClientReads,
       MapRace, procVars, wireVars
  <2>2. osCall'.kind = osCall.kind
    BY <1>2 DEF CallStep, AddOrder, GetOrder, UpdateOrders, SearchOrders, CallDies, ClientReads,
       MapRace, Reply, Fail, callVars, OSInv, OSTypeOK
  <2>3. orderMap' = orderMap \/ osCall.kind \in {"add", "update"}
    BY <1>2 DEF CallStep, AddOrder, GetOrder, UpdateOrders, SearchOrders, CallDies, ClientReads,
       MapRace
  <2> QED BY <2>1, <2>2, <2>3, ShipOther
<1>3. CASE MainStarts
  <2>1. osProc = "idle" BY <1>3 DEF MainStarts, OSInv, CallCauses
  <2>2. /\ osProc' = "recv"
        /\ UNCHANGED <<combinedShipmentMap, osShipped, osRecvd, batchMarker, osStatus, osCur, osDest,
                       osCtx, osCall, orderMap>>
    BY <1>3 DEF MainStarts, callVars, wireVars
  <2> QED BY <2>1, <2>2, ShipOther
<1>4. CASE MainStep \/ Receives \/ DeadlinePasses
  <2>1. UNCHANGED <<combinedShipmentMap, osShipped, osRecvd, batchMarker, osStatus, osCur, osDest,
                    osProc, osCall, orderMap>>
    BY <1>4 DEF MainStep, MainSends, MainSpawns, MainSendsLast, MainCloses, Meet, Receives,
       DeadlinePasses, procVars, callVars
  <2>2. osCtx' = "live" => osCtx = "live"
    BY <1>4 DEF MainStep, MainSends, MainSpawns, MainSendsLast, MainCloses, Meet, Receives,
       DeadlinePasses, wireVars
  <2> QED BY <2>1, <2>2, ShipOther
<1> QED BY <1>1, <1>2, <1>3, <1>4

\* Recv: a new number is in hand, or the call ends, or what is left is to be sent.
LEMMA RecvShips == ShipInv /\ ProcRecv => ShipInv'
<1> SUFFICES ASSUME ShipInv, ProcRecv PROVE ShipInv' OBVIOUS
<1>1. /\ osProc = "recv"
      /\ UNCHANGED <<orderMap, osCall, osCtx, osDest, batchMarker, combinedShipmentMap, osShipped>>
  BY DEF ProcRecv, callVars
<1>2. Filed' = Filed /\ InHand = {} BY <1>1 DEF Filed, Numbers, InHand
<1>3. /\ osRecvd \in Nat /\ batchMarker \in 0 .. OrderBatchSize
      /\ osShipped \cup Filed \subseteq 1 .. osRecvd
      /\ osCtx = "live" => osShipped \cup Filed = 1 .. osRecvd
      /\ osShipped \cap Filed = {} /\ Cardinality(Filed) <= batchMarker /\ osStatus # "OK"
      /\ Cardinality(Filed) \in Nat /\ OrderBatchSize \in Nat
  <2>1. osRecvd \in Nat /\ Filed \in SUBSET (1 .. osRecvd) BY DEF ShipInv, ShipTypes
  <2>2. Cardinality(Filed) \in Nat BY <2>1, NumbersFinite
  <2> QED BY <1>1, <1>2, <2>2, OSAssumption DEF ShipInv, ShipTypes, ShipState, ShippedOnce
<1>4. CASE osProc' = "read"
  <2>1. osRecvd' = osRecvd + 1 /\ UNCHANGED osStatus BY <1>4 DEF ProcRecv, Return
  <2>2. InHand' = {osRecvd + 1} BY <1>4, <2>1 DEF InHand
  <2>3. 1 .. osRecvd' = (1 .. osRecvd) \cup {osRecvd + 1} /\ osRecvd + 1 \notin 1 .. osRecvd
    BY <1>3, <2>1
  <2>4. ShipTypes' BY <1>1, <1>2, <1>3, <2>1, <2>2, <2>3 DEF ShipInv, ShipTypes
  <2>5. ShipState' BY <1>1, <1>2, <1>3, <1>4, <2>1 DEF ShipState
  <2>6. ShippedOnce' BY <1>1, <1>2, <1>3, <2>1, <2>2, <2>3 DEF ShipInv, ShippedOnce
  <2> QED BY <2>4, <2>5, <2>6 DEF ShipInv
<1>5. CASE osProc' # "read"
  <2>1. /\ UNCHANGED osRecvd /\ osProc' \in {"returned", "flush"}
        /\ osStatus' = "OK" => osProc' = "returned" /\ combinedShipmentMap = {}
    BY <1>3, <1>5 DEF ProcRecv, Return
  <2>2. InHand' = {} BY <2>1 DEF InHand
  <2>3. combinedShipmentMap = {} => Filed = {} BY DEF Filed, Numbers
  <2>4. ShipTypes' BY <1>1, <1>2, <1>3, <2>1, <2>2 DEF ShipInv, ShipTypes
  <2>5. ShipState' BY <1>1, <1>2, <1>3, <2>1 DEF ShipState
  <2>6. ShippedOnce' BY <1>1, <1>2, <1>3, <2>1, <2>2, <2>3 DEF ShipInv, ShippedOnce
  <2> QED BY <2>4, <2>5, <2>6 DEF ShipInv
<1> QED BY <1>4, <1>5

\* The first read.
LEMMA ReadShips == ShipInv /\ ProcRead => ShipInv'
<1> SUFFICES ASSUME ShipInv, ProcRead PROVE ShipInv' OBVIOUS
<1>1. /\ osProc = "read" /\ osProc' = "file" /\ osDest' = orderMap[osCur].dest
      /\ UNCHANGED <<orderMap, osCall, osCtx, osCur, batchMarker, combinedShipmentMap, osStatus,
                     osRecvd, osShipped>>
  BY DEF ProcRead, callVars, wireVars
<1>2. Filed' = Filed /\ InHand' = InHand BY <1>1 DEF Filed, Numbers, InHand
<1>3. ShipTypes' BY <1>1, <1>2 DEF ShipInv, ShipTypes
<1>4. ShipState' BY <1>1, <1>2 DEF ShipInv, ShipState
<1>5. ShippedOnce' BY <1>1, <1>2 DEF ShipInv, ShippedOnce
<1> QED BY <1>3, <1>4, <1>5 DEF ShipInv

\* The second: the order is appended to the shipment of its destination, or to a new one.
LEMMA FileShips == ShipInv /\ ProcFile => ShipInv'
<1> SUFFICES ASSUME ShipInv, ProcFile PROVE ShipInv' OBVIOUS
<1> DEFINE M == combinedShipmentMap
           filed == [no |-> osRecvd, id |-> osCur, dest |-> orderMap[osCur].dest]
           old == {s \in M : s.dest = osDest}
           list == IF old = {} THEN <<>> ELSE (CHOOSE s \in old : TRUE).orders
           new == [dest |-> osDest, orders |-> Append(list, filed)]
<1>1. /\ osProc = "file" /\ M' = (M \ old) \cup {new}
      /\ IF batchMarker = OrderBatchSize
         THEN osProc' = "ship" /\ UNCHANGED batchMarker
         ELSE osProc' = "recv" /\ batchMarker' = batchMarker + 1
      /\ UNCHANGED <<orderMap, osCall, osCtx, osStatus, osRecvd, osShipped>>
  BY DEF ProcFile, callVars, wireVars
<1>2. /\ osRecvd \in Nat /\ batchMarker \in 0 .. OrderBatchSize /\ OrderBatchSize \in Nat
      /\ osShipped \cup Filed \subseteq 1 .. osRecvd /\ osRecvd \in 1 .. osRecvd
      /\ osCtx = "live" => osShipped \cup Filed \cup {osRecvd} = 1 .. osRecvd
      /\ osShipped \cap Filed = {} /\ osRecvd \notin osShipped \cup Filed
      /\ Cardinality(Filed) <= batchMarker /\ osStatus # "OK"
      /\ osDest = orderMap[osCur].dest \/ osCall.kind \in {"add", "update"}
  <2>1. InHand = {osRecvd} BY <1>1 DEF InHand
  <2> QED BY <1>1, <2>1, OSAssumption DEF ShipInv, ShipTypes, ShipState, ShippedOnce
<1>3. IsFiniteSet(Filed) /\ Cardinality(Filed) \in Nat
  <2>1. Filed \in SUBSET (1 .. osRecvd) BY <1>2
  <2> QED BY <1>2, <2>1, NumbersFinite
<1>4. \/ old = {} /\ list = <<>>
      \/ \E s \in M : old = {s} /\ list = s.orders /\ s.dest = osDest
  <2>1. CASE old = {} BY <2>1
  <2>2. CASE old # {}
    <3>1. PICK s \in M : s.dest = osDest BY <2>2
    <3>2. \A t \in M : t.dest = osDest => t = s BY <3>1 DEF ShipInv, ShipTypes
    <3>3. old = {s} BY <3>1, <3>2
    <3>4. (CHOOSE t \in old : TRUE) = s BY <3>3
    <3> QED BY <2>2, <3>1, <3>3, <3>4
  <2> QED BY <2>1, <2>2
<1>5. list \in Seq(Elements(list))
  <2> HIDE DEF list
  <2>1. CASE list = <<>> BY <2>1, EmptySeq
  <2>2. CASE \E s \in M : list = s.orders BY <2>2 DEF ShipInv, ShipTypes
  <2> QED BY <1>4, <2>1, <2>2
<1> DEFINE l == Append(list, filed)
           E == Elements(list) \cup {filed}
<1>6. /\ l \in [1 .. Len(list) + 1 -> E] /\ Len(list) \in Nat /\ DOMAIN list = 1 .. Len(list)
      /\ DOMAIN l = 1 .. Len(list) + 1 /\ l[Len(list) + 1] = filed
      /\ \A i \in 1 .. Len(list) : l[i] = list[i]
  <2> HIDE DEF list, filed
  <2>1. list \in Seq(E)
    <3>1. Elements(list) \subseteq E OBVIOUS
    <3> HIDE DEF E
    <3> QED BY <1>5, <3>1, SeqMonotonic
  <2>2. filed \in E OBVIOUS
  <2> HIDE DEF E
  <2>3. /\ l \in Seq(E) /\ Len(l) = Len(list) + 1 /\ l[Len(list) + 1] = filed
        /\ \A i \in 1 .. Len(list) : l[i] = list[i]
    BY <2>1, <2>2, AppendProperties
  <2>4. Len(list) \in Nat /\ DOMAIN list = 1 .. Len(list) BY <2>1, LenProperties
  <2>5. DOMAIN l = 1 .. Len(l) /\ l \in [1 .. Len(l) -> E]
    <3> HIDE DEF l
    <3> QED BY <2>3, LenProperties
  <2> QED BY <2>3, <2>4, <2>5
<1>7. new.dest = osDest /\ new.orders = l /\ filed.no = osRecvd /\ filed.dest = orderMap[osCur].dest
  OBVIOUS
<1>8. \/ old = {} /\ Len(list) = 0
      \/ \E s \in M : /\ old = {s} /\ s.dest = osDest /\ DOMAIN s.orders = 1 .. Len(list)
                      /\ \A i \in 1 .. Len(list) : l[i] = s.orders[i]
  <2> HIDE DEF old, list, l
  <2>1. CASE old = {} /\ list = <<>>
    <3>1. Len(list) = 0 BY <2>1, EmptySeq
    <3> QED BY <2>1, <3>1
  <2>2. CASE \E s \in M : old = {s} /\ list = s.orders /\ s.dest = osDest BY <1>6, <2>2
  <2> QED BY <1>4, <2>1, <2>2
<1>9. old \subseteq M /\ \A s \in M \ old : s.dest # osDest OBVIOUS
<1>10. l \in Seq(Elements(l))
  <2> HIDE DEF list, filed
  <2>1. l \in [1 .. Len(list) + 1 -> Elements(l)]
    <3> HIDE DEF l, E
    <3> QED BY <1>6 DEF Elements
  <2> HIDE DEF l
  <2>2. Len(list) + 1 \in Nat BY <1>6
  <2> QED BY <2>1, <2>2, SeqDef
<1> HIDE DEF filed, list, new, l, E, old
<1>11. Filed' = Filed \cup {osRecvd} /\ OneEach(M')
  <2>1. OneEach(M) BY DEF ShipInv, ShippedOnce, OneEach
  <2>2. osRecvd \notin Numbers(M) BY <1>2 DEF Filed
  <2>3. OneLonger(new, old, Len(list), osRecvd) BY <1>6, <1>7, <1>8 DEF OneLonger
  <2>4. Len(list) \in Nat /\ old \in SUBSET M BY <1>6, <1>9
  <2> HIDE DEF M
  <2>5. Numbers((M \ old) \cup {new}) = Numbers(M) \cup {osRecvd} /\ OneEach((M \ old) \cup {new})
    BY <2>1, <2>2, <2>3, <2>4, OneMore
  <2> QED BY <1>1, <2>5 DEF M, Filed
<1>12. Cardinality(Filed') = Cardinality(Filed) + 1 BY <1>2, <1>3, <1>11, FS_AddElement
<1>13. InHand' = {} BY <1>1 DEF InHand
<1>14. ShipTypes'
  <2>1. osRecvd' \in Nat /\ batchMarker' \in 0 .. OrderBatchSize BY <1>1, <1>2
  <2>2. ASSUME NEW s \in M' PROVE s.orders \in Seq(Elements(s.orders))
    BY <1>1, <1>7, <1>10 DEF ShipInv, ShipTypes
  <2>3. ASSUME NEW s \in M', NEW t \in M', s.dest = t.dest PROVE s = t
    BY <1>1, <1>7, <1>9, <2>3 DEF ShipInv, ShipTypes
  <2>4. (osShipped \cup Filed \cup InHand)' \subseteq 1 .. osRecvd' BY <1>1, <1>2, <1>11, <1>13
  <2> QED BY <2>1, <2>2, <2>3, <2>4 DEF ShipTypes
<1>15. ShipState' BY <1>1, <1>2, <1>3, <1>12 DEF ShipState
<1>16. ASSUME NEW s \in M', NEW i \in DOMAIN s.orders
       PROVE  s.orders[i].dest = s.dest \/ osCall.kind \in {"add", "update"}
  <2>1. ASSUME NEW t \in M, NEW j \in DOMAIN t.orders
        PROVE  t.orders[j].dest = t.dest \/ osCall.kind \in {"add", "update"}
    BY DEF ShipInv, ShippedOnce
  <2>2. CASE s \in M BY <2>1, <2>2
  <2>3. CASE s = new /\ i = Len(list) + 1 BY <1>2, <1>6, <1>7, <2>3
  <2>4. CASE s = new /\ i \in 1 .. Len(list) BY <1>7, <1>8, <2>1, <2>4
  <2>5. s = new => i \in 1 .. Len(list) \/ i = Len(list) + 1 BY <1>6, <1>7
  <2> QED BY <1>1, <2>2, <2>3, <2>4, <2>5
<1>17. ShippedOnce'
  <2>1. Cardinality(Filed') <= OrderBatchSize + 1 BY <1>2, <1>3, <1>12
  <2>2. /\ (osCtx = "live" => osShipped \cup Filed \cup InHand = 1 .. osRecvd)'
        /\ (osShipped \cap Filed = {} /\ InHand \cap (osShipped \cup Filed) = {})'
        /\ osStatus' # "OK"
    BY <1>1, <1>2, <1>11, <1>13
  <2> HIDE DEF M
  <2>3. (\A s, t \in combinedShipmentMap : \A i \in DOMAIN s.orders, j \in DOMAIN t.orders :
           s.orders[i].no = t.orders[j].no => s = t /\ i = j)'
    BY <1>11 DEF M, OneEach
  <2>4. (\A s \in combinedShipmentMap : \A i \in DOMAIN s.orders :
           s.orders[i].dest = s.dest \/ osCall.kind \in {"add", "update"})'
    BY <1>1, <1>16 DEF M
  <2> QED BY <2>1, <2>2, <2>3, <2>4 DEF ShippedOnce
<1> QED BY <1>14, <1>15, <1>17 DEF ShipInv

\* One Send: the shipment is gone, and what it held was shipped if the stream lives.
LEMMA SendShips == ASSUME ShipInv, NEW s \in combinedShipmentMap, ProcSend(s) PROVE ShipInv'
<1> DEFINE M == combinedShipmentMap
<1>1. /\ osProc \in {"ship", "flush"}
      /\ UNCHANGED <<orderMap, osCall, osCtx, osCur, osDest, osRecvd>>
  BY DEF ProcSend, callVars
<1>2. InHand = {} BY <1>1 DEF InHand
<1>3. /\ osRecvd \in Nat /\ batchMarker \in 0 .. OrderBatchSize /\ OrderBatchSize \in Nat
      /\ osShipped \cup Filed \subseteq 1 .. osRecvd
      /\ osCtx = "live" => osShipped \cup Filed = 1 .. osRecvd
      /\ osShipped \cap Filed = {} /\ osStatus # "OK"
      /\ Cardinality(Filed) <= OrderBatchSize + 1
  BY <1>1, <1>2, OSAssumption DEF ShipInv, ShipTypes, ShipState, ShippedOnce
<1>4. IsFiniteSet(Filed) /\ Cardinality(Filed) \in Nat
  <2>1. Filed \in SUBSET (1 .. osRecvd) BY <1>3
  <2> QED BY <1>3, <2>1, NumbersFinite
<1>5. CASE Return("SendError") /\ UNCHANGED <<combinedShipmentMap, batchMarker, osShipped>>
  <2>1. osProc' = "returned" /\ osStatus' # "OK" BY <1>5 DEF Return
  <2>2. Filed' = Filed BY <1>5 DEF Filed, Numbers
  <2>3. InHand' = {} BY <2>1 DEF InHand
  <2>4. ShipTypes' BY <1>1, <1>3, <1>5, <2>2, <2>3 DEF ShipInv, ShipTypes
  <2>5. ShipState' BY <1>3, <2>1, <2>2 DEF ShipState
  <2>6. ShippedOnce' BY <1>1, <1>2, <1>3, <1>5, <2>1, <2>2, <2>3 DEF ShipInv, ShippedOnce
  <2> QED BY <2>4, <2>5, <2>6 DEF ShipInv
<1>6. CASE /\ M' = M \ {s}
           /\ IF osCtx = "live" THEN osShipped' = osShipped \cup Numbers({s}) ELSE UNCHANGED osShipped
           /\ IF M \ {s} # {} THEN UNCHANGED <<osProc, osStatus, batchMarker>>
              ELSE IF osProc = "ship" THEN osProc' = "recv" /\ batchMarker' = 0 /\ UNCHANGED osStatus
              ELSE Return("OK") /\ UNCHANGED batchMarker
  <2>1. Filed = Filed' \cup Numbers({s}) /\ Filed' \cap Numbers({s}) = {}
    <3>1. OneEach(M) BY DEF ShipInv, ShippedOnce, OneEach
    <3>2. Numbers(M) = Numbers(M \ {s}) \cup Numbers({s}) BY DEF Numbers
    <3>3. ASSUME NEW n \in Numbers(M \ {s}) PROVE n \notin Numbers({s})
      <4>1. PICK t \in M \ {s} : \E i \in DOMAIN t.orders : n = t.orders[i].no BY <3>3, InNumbers
      <4>2. ASSUME n \in Numbers({s}) PROVE FALSE
        <5>1. \E j \in DOMAIN s.orders : n = s.orders[j].no BY <4>2, InNumbers
        <5> QED BY <3>1, <4>1, <5>1 DEF OneEach
      <4> QED BY <4>2
    <3>4. Filed' = Numbers(M \ {s}) BY <1>6 DEF Filed
    <3> QED BY <3>2, <3>3, <3>4 DEF Filed
  <2>2. Cardinality(Filed') \in Nat /\ Cardinality(Filed') <= Cardinality(Filed)
    BY <1>4, <2>1, FS_Subset, FS_CardinalityType
  <2>3. M' = {} => Filed' = {} /\ Cardinality(Filed') = 0
    <3>1. M' = {} => Filed' = {} BY DEF Filed, Numbers
    <3> QED BY <3>1, FS_EmptySet
  <2>4. InHand' = {} BY <1>1, <1>6 DEF InHand, Return
  <2>5. M' \subseteq M BY <1>6
  <2>6. /\ batchMarker' \in 0 .. OrderBatchSize
        /\ osProc' \in {"ship", "flush", "returned"} \/ (osProc' = "recv" /\ batchMarker' = 0 /\ M' = {})
        /\ osStatus' = "OK" => osProc' = "returned" /\ M' = {}
    BY <1>1, <1>3, <1>6 DEF Return
  <2> HIDE DEF M
  <2>7. ShipTypes'
    <3>1. \A t \in M' : t \in combinedShipmentMap BY <2>5 DEF M
    <3>2. (osShipped \cup Filed \cup InHand)' \subseteq 1 .. osRecvd' BY <1>1, <1>3, <1>6, <2>1, <2>4
    <3> QED BY <1>1, <1>3, <2>6, <3>1, <3>2 DEF M, ShipInv, ShipTypes
  <2>8. ShipState' BY <1>3, <1>4, <2>2, <2>3, <2>6 DEF ShipState
  <2>9. ShippedOnce'
    <3>1. (osCtx = "live" => osShipped \cup Filed \cup InHand = 1 .. osRecvd)'
      BY <1>1, <1>3, <1>6, <2>1, <2>4
    <3>2. (osShipped \cap Filed = {} /\ InHand \cap (osShipped \cup Filed) = {})'
      BY <1>3, <1>6, <2>1, <2>4
    <3>3. (osStatus = "OK" /\ osCtx = "live" => osShipped = 1 .. osRecvd)'
      BY <2>3, <2>4, <2>6, <3>1
    <3>4. Cardinality(Filed') <= OrderBatchSize + 1 BY <1>3, <1>4, <2>2
    <3>5. \A t \in M' : t \in combinedShipmentMap BY <2>5 DEF M
    <3> QED BY <1>1, <3>1, <3>2, <3>3, <3>4, <3>5 DEF M, ShipInv, ShippedOnce
  <2> QED BY <2>7, <2>8, <2>9 DEF ShipInv
<1> QED BY <1>5, <1>6 DEF ProcSend

\* A step that changes nothing of the order services.
LEMMA ShipStutter == ShipInv /\ UNCHANGED osVars => ShipInv'
<1> SUFFICES ASSUME ShipInv, UNCHANGED osVars PROVE ShipInv' OBVIOUS
<1>1. UNCHANGED <<combinedShipmentMap, osShipped, osRecvd, batchMarker, osStatus, osCur, osDest,
                  osProc, osCtx, osCall, orderMap>>
  BY DEF osVars, callVars, wireVars, procVars
<1> QED BY <1>1, ShipOther

\* ProcessOrders of every server, for every size of a batch and every sequence of ids: as
\* long as the stream lives, each id received is in hand, filed or shipped, exactly once,
\* all of them are shipped when the call ends well, no more than a batch and one are ever
\* filed, and an order goes to another destination only if it was changed meanwhile.
THEOREM OrdersShipOnce == OSSpec => []ShippedOnce
<1>1. OSInv /\ ShipInv /\ [OSNext]_osVars => ShipInv'
  <2> SUFFICES ASSUME OSInv, ShipInv, [OSNext]_osVars PROVE ShipInv' OBVIOUS
  <2>1. CASE \/ Calls \/ CallStep \/ CallDies \/ ClientReads \/ MapRace
             \/ MainStarts \/ MainStep \/ Receives \/ DeadlinePasses
    BY <2>1, OtherShips
  <2>2. CASE ProcStep BY <2>2, RecvShips, ReadShips, FileShips, SendShips DEF ProcStep
  <2>3. CASE UNCHANGED osVars BY <2>3, ShipStutter
  <2> QED BY <2>1, <2>2, <2>3 DEF OSNext
<1>2. ShipInv => ShippedOnce BY DEF ShipInv
<1> QED BY <1>1, <1>2, OSStepInv, OSInitInv, ShipInitInv, PTL DEF OSSpec
=============================================================================
