-------------------------- MODULE MCHttpContracts --------------------------
(* Instances of HttpContracts: the endpoints of this service, and others     *)
(* that document the same business errors in every combination.              *)
EXTENDS HttpContracts

CONSTANTS registerUser, getUser, health,
  registrationFailed, userNotFound, concurrentModification, email, id, passwordHash

MCEndpoints == {registerUser, getUser, health}
MCCodes == {registrationFailed, userNotFound, concurrentModification}
MCKeys == {email, id}
WithHash == MCKeys \cup {passwordHash}
MCHttpStatuses == [e \in MCEndpoints |-> IF e = health THEN {} ELSE {400}]

Doc(status, keys, code) == [status |-> status, keys |-> keys, code |-> code, schema |-> TRUE]

InvalidInput == Doc(400, {}, NoCode)
RegistrationFailed == Doc(409, {email}, registrationFailed)
UserNotFound == Doc(404, {id}, userNotFound)

(* A response that mentions a business error and has no schema to map. *)
Mentioned == [Doc(409, {}, concurrentModification) EXCEPT !.schema = FALSE]

Endpoint(status, keys, errors) ==
  [success |-> [status |-> status, keys |-> keys], errors |-> errors, probe |-> FALSE]

Health == [success |-> NoContract, errors |-> {}, probe |-> TRUE]

Catalog(registering, getting) ==
  [e \in MCEndpoints |-> CASE e = registerUser -> registering
                           [] e = getUser -> getting
                           [] e = health -> Health]

(* ui/http/endpoints *)
TheCatalog == Catalog(Endpoint(201, {email, id}, {InvalidInput, RegistrationFailed}),
                      Endpoint(200, {email, id}, {InvalidInput, UserNotFound}))

(* Each business error has one status wherever it is documented. *)
CoherentCatalogs ==
  {TheCatalog} \cup
  {Catalog(Endpoint(201, keys, registering), Endpoint(200, {id}, getting)) :
     keys \in {{id}, {email, id}},
     registering \in SUBSET {InvalidInput, RegistrationFailed, UserNotFound, Mentioned},
     getting \in SUBSET {RegistrationFailed, UserNotFound, Mentioned}}

TheCatalogs == {TheCatalog}
=============================================================================
