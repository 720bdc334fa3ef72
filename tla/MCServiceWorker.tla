--------------------------- MODULE MCServiceWorker ---------------------------
(* Instances of ServiceWorker: the tabs.                                   *)
EXTENDS ServiceWorker

CONSTANTS t1, t2
=============================================================================
