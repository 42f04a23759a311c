-------------------------- MODULE MCProxyLifecycle --------------------------
(* Small instances of ProxyLifecycle for TLC; the configurations give the  *)
(* connections as model values.                                            *)
EXTENDS ProxyLifecycle
=============================================================================
