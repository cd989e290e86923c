--------------------------- MODULE MCProxyProcess ---------------------------
(***************************************************************************)
(* ProxyProcess for TLC.                                                   *)
(***************************************************************************)
EXTENDS ProxyProcess
=============================================================================
