---------------------------- MODULE MCApiClient ----------------------------
(* Calls of every kind; the configuration says which of them a tab makes.  *)
EXTENDS ApiClient

CONSTANTS get, post, in, out

OneOfEach ==
    [c \in Calls |-> CASE c = get -> "read" [] c = post -> "write"
                       [] c = in -> "login" [] c = out -> "logout"]
=============================================================================
