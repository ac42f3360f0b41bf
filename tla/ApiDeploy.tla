------------------------------ MODULE ApiDeploy ------------------------------
(***************************************************************************)
(* The deployAPI and removeRestAPI actions of the AWS API gateway service, *)
(* for an API of one resource.  Every call of the cloud is a step, and may *)
(* fail, with or without its effect.                                       *)
(*                                                                         *)
(* What a deploy serves is what its stage had when it was last deployed.   *)
(* The permission of a method's function is one step: LambdaDeploy has its *)
(* detail.                                                                 *)
(***************************************************************************)
EXTENDS Integers, Sequences, SequencesExt

CONSTANTS
    HttpMethod,      \* methods of the resource
    Authorizer,      \* names of authorizers
    ApiVersion,      \* versions of what stands behind the methods
    RestAPIInput,    \* requests that may be made
    MaxApiRequests,  \* how many are
    MaxApiFaults     \* calls that fail

NoAuthorizer == "NONE"

\* The methods of a request have the same authorizer, the version is that of their
\* backends, of the authorizers and of the gateway response, if there is one.
SetupRestAPI == [version : ApiVersion, methods : SUBSET HttpMethod,
                 authorizer : Authorizer \cup {NoAuthorizer}, authorizers : Seq(Authorizer),
                 response : BOOLEAN, redeploy : BOOLEAN]

ASSUME ApiAssumption ==
    /\ ApiVersion \subseteq Nat \ {0} /\ HttpMethod # {}
    /\ RestAPIInput \subseteq SetupRestAPI /\ RestAPIInput # {}
    /\ MaxApiRequests \in Nat /\ MaxApiFaults \in Nat

VARIABLES
    apiRequest, \* the request that runs, or ran last
    apiCall,    \* the call that is next
    todo,       \* the authorizers and methods to do, and the method in hand
    known,      \* authorizedByName: the authorizers that a name finds
    gateway,    \* what the cloud has
    apiLeft,    \* requests and faults left
    apiPast     \* history: no call failed; the request is one that failed so, again

apiVars == <<apiRequest, apiCall, todo, known, gateway, apiLeft, apiPast>>

NoHttpMethod == [authorizer |-> NoAuthorizer, backend |-> -1]

\* The backend of a method without integration is 0.
MethodState == [authorizer : Authorizer \cup {NoAuthorizer}, backend : ApiVersion \cup {0}]
                  \cup {NoHttpMethod}

NoApi == [api |-> FALSE, resource |-> FALSE,
          authorizers |-> [a \in Authorizer |-> 0],
          methods |-> [m \in HttpMethod |-> NoHttpMethod],
          response |-> 0, stage |-> <<>>]

ApiTypeOK ==
    /\ apiRequest \in RestAPIInput
    /\ apiCall \in {"idle", "create", "resources", "authorizers", "responses", "dropResponse",
                    "putResponse", "authorizer", "resource", "unlisted", "methods", "method",
                    "drop", "put", "integration", "permission", "stage", "dropStage",
                    "deployment", "stages", "deployed", "failed", "remove", "removed"}
    /\ todo \in [authorizers : Seq(Authorizer), methods : SUBSET HttpMethod, method : HttpMethod]
    /\ known \subseteq Authorizer
    /\ gateway.api \in BOOLEAN /\ gateway.resource \in BOOLEAN
    /\ gateway.authorizers \in [Authorizer -> ApiVersion \cup {0}]
    /\ gateway.methods \in [HttpMethod -> MethodState]
    /\ gateway.response \in ApiVersion \cup {0}
    /\ gateway.stage \in Seq([HttpMethod -> MethodState]) /\ Len(gateway.stage) \in {0, 1}
    /\ apiLeft \in [requests : 0 .. MaxApiRequests, faults : 0 .. MaxApiFaults]
    /\ apiPast \in [clean : BOOLEAN, again : BOOLEAN]

ApiInit ==
    /\ apiRequest = CHOOSE r \in RestAPIInput : TRUE
    /\ apiCall = "idle"
    /\ todo = [authorizers |-> <<>>, methods |-> {}, method |-> CHOOSE m \in HttpMethod : TRUE]
    /\ known = {}
    /\ gateway = NoApi
    /\ apiLeft = [requests |-> MaxApiRequests, faults |-> MaxApiFaults]
    /\ apiPast = [clean |-> TRUE, again |-> FALSE]

-----------------------------------------------------------------------------
(* Calls of the cloud.                                                     *)

ApiRests == apiCall \in {"idle", "deployed", "failed", "removed"}

ApiFault ==
    /\ apiLeft.faults > 0 /\ apiLeft' = [apiLeft EXCEPT !.faults = @ - 1]
    /\ apiPast' = [apiPast EXCEPT !.clean = FALSE]

\* The call that is next is answered, and the step after it is taken.
ApiAnswers(from, to) == apiCall = from /\ apiCall' = to /\ UNCHANGED <<apiLeft, apiPast>>

\* Or it had its effect, and its answer is an error that ends the request.
ApiAnswered(from, to) ==
    ApiAnswers(from, to) \/ (apiCall = from /\ apiCall' = "failed" /\ ApiFault)

\* Or it has no effect.
ApiCallFails ==
    /\ ~ApiRests /\ apiCall' = "failed"
    /\ ApiFault
    /\ UNCHANGED <<apiRequest, todo, known, gateway>>

AskApi ==
    /\ ApiRests /\ apiLeft.requests > 0
    /\ apiLeft' = [apiLeft EXCEPT !.requests = @ - 1]
    /\ apiRequest' \in RestAPIInput
    /\ apiCall' = IF gateway.api THEN "resources" ELSE "create"
    /\ todo' = [todo EXCEPT !.authorizers = apiRequest'.authorizers,
                            !.methods = apiRequest'.methods]
    /\ apiPast' = [clean |-> TRUE,
                   again |-> apiCall = "failed" /\ apiPast.clean /\ apiRequest' = apiRequest]
    /\ known' = {}
    /\ UNCHANGED gateway

AskRemoveApi ==
    /\ ApiRests /\ gateway.api /\ apiLeft.requests > 0
    /\ apiLeft' = [apiLeft EXCEPT !.requests = @ - 1]
    /\ apiCall' = "remove"
    /\ apiPast' = [clean |-> TRUE, again |-> FALSE]
    /\ UNCHANGED <<apiRequest, todo, known, gateway>>

RemoveRestAPI ==
    /\ ApiAnswered("remove", "removed")
    /\ gateway' = NoApi
    /\ UNCHANGED <<apiRequest, todo, known>>

-----------------------------------------------------------------------------
(* The API, its gateway response and its authorizers.                      *)

CreateRestAPI ==
    /\ ApiAnswered("create", "resources")
    /\ gateway' = [gateway EXCEPT !.api = TRUE]
    /\ UNCHANGED <<apiRequest, todo, known>>

GetResources ==
    /\ ApiAnswers("resources", "authorizers")
    /\ UNCHANGED <<apiRequest, todo, known, gateway>>

\* getAuthorizers: authorizers that cannot be listed are none.
GetAuthorizers ==
    /\ LET next == IF apiRequest.response THEN "responses" ELSE "authorizer"
       IN  \/ /\ ApiAnswers("authorizers", next)
              /\ known' = {a \in Authorizer : gateway.authorizers[a] # 0}
           \/ /\ apiCall = "authorizers" /\ apiCall' = next /\ ApiFault
              /\ known' = {}
    /\ UNCHANGED <<apiRequest, todo, gateway>>

GetGatewayResponses ==
    /\ ApiAnswers("responses", IF gateway.response = 0 THEN "putResponse" ELSE "dropResponse")
    /\ UNCHANGED <<apiRequest, todo, known, gateway>>

DeleteGatewayResponse ==
    /\ ApiAnswered("dropResponse", "putResponse")
    /\ gateway' = [gateway EXCEPT !.response = 0]
    /\ UNCHANGED <<apiRequest, todo, known>>

PutGatewayResponse ==
    /\ ApiAnswered("putResponse", "authorizer")
    /\ gateway' = [gateway EXCEPT !.response = apiRequest.version]
    /\ UNCHANGED <<apiRequest, todo, known>>

PutAuthorizer(a) == gateway' = [gateway EXCEPT !.authorizers[a] = apiRequest.version]

AuthorizerNext == todo.authorizers # <<>> /\ apiCall = "authorizer"

\* The first authorizer that is there ends deployAuthorizers: those after it are
\* left as they are.
UpdateAuthorizer ==
    /\ AuthorizerNext /\ Head(todo.authorizers) \in known
    /\ ApiAnswered("authorizer", "resource")
    /\ PutAuthorizer(Head(todo.authorizers))
    /\ UNCHANGED <<apiRequest, todo, known>>

\* An authorizer that is new is stored by its id: its name does not find it.
CreateAuthorizer ==
    /\ AuthorizerNext /\ Head(todo.authorizers) \notin known
    /\ IF gateway.authorizers[Head(todo.authorizers)] # 0
       THEN /\ ApiAnswers("authorizer", "failed") \* its name is taken
            /\ UNCHANGED <<todo, gateway>>
       ELSE /\ ApiAnswered("authorizer", "authorizer")
            /\ PutAuthorizer(Head(todo.authorizers))
            /\ todo' = [todo EXCEPT !.authorizers = Tail(@)]
    /\ UNCHANGED <<apiRequest, known>>

EndAuthorizers ==
    /\ todo.authorizers = <<>>
    /\ ApiAnswers("authorizer", "resource")
    /\ UNCHANGED <<apiRequest, todo, known, gateway>>

-----------------------------------------------------------------------------
(* setupResource.                                                          *)

CreateResource ==
    /\ ApiAnswered("resource", "unlisted")
    /\ gateway' = [gateway EXCEPT !.resource = TRUE]
    /\ UNCHANGED <<apiRequest, todo, known>>

\* Mutant: methods that are no longer listed stay.
KeepUnlistedMethods ==
    /\ ApiAnswers("unlisted", "methods")
    /\ UNCHANGED <<apiRequest, todo, known, gateway>>

\* removeUnlistedMethods, one by one.
RemoveUnlistedMethods ==
    /\ LET unlisted == {m \in HttpMethod \ apiRequest.methods :
                           gateway.methods[m] # NoHttpMethod}
       IN  \/ \E m \in unlisted :
                 /\ ApiAnswered("unlisted", "unlisted")
                 /\ gateway' = [gateway EXCEPT !.methods[m] = NoHttpMethod]
           \/ /\ unlisted = {}
              /\ ApiAnswers("unlisted", "methods")
              /\ UNCHANGED gateway
    /\ UNCHANGED <<apiRequest, todo, known>>

\* A method whose authorizer is not found by name ends the request.
NextMethod ==
    /\ \/ \E m \in todo.methods :
             /\ ApiAnswers("methods", IF apiRequest.authorizer \in known \cup {NoAuthorizer}
                                      THEN "method" ELSE "failed")
             /\ todo' = [todo EXCEPT !.methods = @ \ {m}, !.method = m]
       \/ /\ todo.methods = {}
          /\ ApiAnswers("methods", "stage")
          /\ UNCHANGED todo
    /\ UNCHANGED <<apiRequest, known, gateway>>

InHand == gateway.methods[todo.method]

NewMethod == [authorizer |-> apiRequest.authorizer, backend |-> 0]

\* setupMethod: a method that is there is patched where it differs; when the patch
\* is refused it is made anew, and has no integration.
UpdateMethod ==
    /\ InHand # NoHttpMethod
    /\ \/ /\ InHand.authorizer = apiRequest.authorizer
          /\ ApiAnswers("method", "integration")
          /\ UNCHANGED gateway
       \/ /\ InHand.authorizer # apiRequest.authorizer
          /\ ApiAnswers("method", "integration")
          /\ gateway' = [gateway EXCEPT !.methods[todo.method].authorizer = apiRequest.authorizer]
       \/ /\ InHand.authorizer # apiRequest.authorizer
          /\ ApiAnswers("method", "drop")
          /\ UNCHANGED gateway
    /\ UNCHANGED <<apiRequest, todo, known>>

\* Its error is ignored; the method that is still there fails the next call.
DeleteMethod ==
    /\ apiCall = "drop" /\ apiCall' = "put"
    /\ \/ /\ gateway' = [gateway EXCEPT !.methods[todo.method] = NoHttpMethod]
          /\ UNCHANGED <<apiLeft, apiPast>>
       \/ ApiFault /\ UNCHANGED gateway
    /\ UNCHANGED <<apiRequest, todo, known>>

PutMethod(from) ==
    /\ IF InHand = NoHttpMethod
       THEN /\ ApiAnswered(from, "integration")
            /\ gateway' = [gateway EXCEPT !.methods[todo.method] = NewMethod]
       ELSE /\ from = "put" /\ ApiAnswers("put", "failed")
            /\ UNCHANGED gateway
    /\ UNCHANGED <<apiRequest, todo, known>>

\* setupMethodIntegration puts an integration that is not there, and patches it.
SetupIntegration ==
    /\ ApiAnswered("integration", "permission")
    /\ gateway' = [gateway EXCEPT !.methods[todo.method].backend = apiRequest.version]
    /\ UNCHANGED <<apiRequest, todo, known>>

SetupApiPermission ==
    /\ ApiAnswers("permission", "methods")
    /\ UNCHANGED <<apiRequest, todo, known, gateway>>

-----------------------------------------------------------------------------
(* setupDeployment.                                                        *)

\* The deployment is asked for without its id: the answer is an empty one, never
\* nil, that has every stage of the API.  Stages that cannot be read are none.
GetStages ==
    /\ \/ ApiAnswers("stage", IF gateway.stage = <<>> THEN "deployment"
                              ELSE IF apiRequest.redeploy THEN "dropStage" ELSE "deployed")
       \/ apiCall = "stage" /\ apiCall' = "deployment" /\ ApiFault
    /\ UNCHANGED <<apiRequest, todo, known, gateway>>

\* Its error is ignored, as is that of the deployment without id.
DeleteStage ==
    /\ apiCall = "dropStage" /\ apiCall' = "deployment"
    /\ \/ gateway' = [gateway EXCEPT !.stage = <<>>] /\ UNCHANGED <<apiLeft, apiPast>>
       \/ ApiFault /\ UNCHANGED gateway
    /\ UNCHANGED <<apiRequest, todo, known>>

\* The deployment makes the stage, or moves the one that is there to it.
CreateDeployment ==
    /\ ApiAnswered("deployment", "stages")
    /\ gateway' = [gateway EXCEPT !.stage = <<gateway.methods>>]
    /\ UNCHANGED <<apiRequest, todo, known>>

GetNewStage ==
    /\ ApiAnswers("stages", "deployed")
    /\ UNCHANGED <<apiRequest, todo, known, gateway>>

ApiNext ==
    \/ AskApi \/ AskRemoveApi \/ RemoveRestAPI \/ ApiCallFails
    \/ CreateRestAPI \/ GetResources \/ GetAuthorizers
    \/ GetGatewayResponses \/ DeleteGatewayResponse \/ PutGatewayResponse
    \/ UpdateAuthorizer \/ CreateAuthorizer \/ EndAuthorizers
    \/ CreateResource \/ RemoveUnlistedMethods \/ NextMethod
    \/ UpdateMethod \/ DeleteMethod \/ PutMethod("method") \/ PutMethod("put")
    \/ SetupIntegration \/ SetupApiPermission
    \/ GetStages \/ DeleteStage \/ CreateDeployment \/ GetNewStage

ApiSpec == ApiInit /\ [][ApiNext]_apiVars

-----------------------------------------------------------------------------
(* Properties.                                                             *)

\* The request lists another authorizer first.
ListedAfter(a) == a \in ToSet(Tail(apiRequest.authorizers))

\* Whatever failed before, a deploy that succeeds leaves the methods that were
\* asked for and no others, their authorizer, the gateway response, and a stage
\* that serves them if it redeploys.  One that fails though no call did, and fails
\* again when it is made again, misses an authorizer that it does not list, or
\* lists after another (deployAuthorizers, setupResource, setupDeployment).
ApiAsAsked ==
    /\ apiCall = "deployed" =>
          /\ \A m \in HttpMethod :
                gateway.methods[m] =
                   IF m \in apiRequest.methods
                   THEN [authorizer |-> apiRequest.authorizer, backend |-> apiRequest.version]
                   ELSE NoHttpMethod
          /\ apiRequest.methods # {} /\ apiRequest.authorizer # NoAuthorizer =>
                gateway.authorizers[apiRequest.authorizer] # 0
          /\ apiRequest.response => gateway.response = apiRequest.version
          /\ gateway.stage # <<>>
          /\ apiRequest.redeploy => gateway.stage = <<gateway.methods>>
    /\ apiCall = "failed" /\ apiPast.clean /\ apiPast.again =>
          \/ apiRequest.authorizer \notin ToSet(apiRequest.authorizers)
          \/ ListedAfter(apiRequest.authorizer)

=============================================================================
