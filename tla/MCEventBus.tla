----------------------------- MODULE MCEventBus -----------------------------
(* Small instances of EventBus for TLC.                                    *)
EXTENDS EventBus, TLC

CONSTANTS e1, e2, h1, h2

(* h1 asks for every event, h2 for those of one type.                      *)
MCWants == h1 :> {e1, e2} @@ h2 :> {e1}
=============================================================================
