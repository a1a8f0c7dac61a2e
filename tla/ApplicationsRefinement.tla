----------------------- MODULE ApplicationsRefinement -----------------------
(***************************************************************************)
(* The service seen by its clients: the changes are the saves, in their    *)
(* order; loading, checking and losing a request are nothing.              *)
(***************************************************************************)
EXTENDS Applications

Promise == INSTANCE Lifecycle WITH changes <- writes

(* However requests overlap and handlers are lost, every save is a change  *)
(* that Lifecycle allows, and every message, audit row and event reports a *)
(* change that was saved and not reported by one like it before.           *)
ImplementsLifecycle == Promise!Spec
=============================================================================
