---------------------------- MODULE MCProxyPath ----------------------------
(* Model-checking instances of ProxyPath.                                  *)
EXTENDS ProxyPath

=============================================================================
