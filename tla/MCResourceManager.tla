-------------------------- MODULE MCResourceManager --------------------------
(* Model values for checking ResourceManager.  Three requests are a holder  *)
(* and two waiters behind it, of either kind, one of which may time out.    *)
EXTENDS ResourceManager
==============================================================================
