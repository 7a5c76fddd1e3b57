-------------------------- MODULE MCEventDelivery --------------------------
(***************************************************************************)
(* TLC instance of EventDelivery.                                          *)
(***************************************************************************)
EXTENDS EventDelivery, TLC

\* The broker's sinks and the instance's own are explored one at a time.
OneSide == \/ ~cfg.ws /\ ~cfg.hook /\ \A s \in Subs : sub[s] = "none"
           \/ cfg.rabbit = "disabled" /\ cfg.global = {} /\ open = {}
=============================================================================
