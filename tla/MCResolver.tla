----------------------------- MODULE MCResolver -----------------------------
(* Resolver with two requests for one host, which has addresses of both    *)
(* families, and two servers, all up or all down.                          *)
EXTENDS Resolver

MCFamilies == [h \in Hosts |-> {"v4", "v6"}]
=============================================================================
