--------------------------- MODULE MCApplication -----------------------------
(* An instance of Application for TLC: one call, which the limits admit.      *)
EXTENDS Application

CONSTANTS c1, c2, read, acme

MCToolOf == [c \in Calls |-> read]
MCTenantOf == [c \in Calls |-> acme]
=============================================================================
