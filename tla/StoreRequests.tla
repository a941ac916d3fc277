--------------------------- MODULE StoreRequests ----------------------------
(* The GET and PUT requests on the server's directory.                     *)
EXTENDS Naturals

CONSTANTS
    Requests,
    Op,         \* Op[r]: GET or PUT
    Target,     \* Target[r]: the path of the file it names
    Size,       \* Size[r]: Request::bytes of a PUT
    None

Targets == {Target[r] : r \in Requests}

ASSUME StoreAssumption ==
    /\ Op \in [Requests -> {"GET", "PUT"}]
    /\ DOMAIN Target = Requests
    /\ Size \in [Requests -> Nat]
    /\ None \notin Requests \cup Targets
    /\ Requests \cap Targets = {}
=============================================================================
