----------------------------- MODULE MCSessions -----------------------------
(* Sessions on small instances: two tabs of one browser.                    *)
EXTENDS Sessions
=============================================================================
