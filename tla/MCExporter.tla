----------------------------- MODULE MCExporter -----------------------------
(***************************************************************************)
(* Two journeys, of which buy takes payment as well, and one that is       *)
(* expected by default but not configured to be, with a service of its     *)
(* own; browse is not expected by default.  Sheaft reports on both         *)
(* journeys, or without profiles on one only; a window of Bering has all,  *)
(* or lacks payment, or lacks an id, the endpoint of buy and the service   *)
(* of no journey.                                                          *)
(***************************************************************************)
EXTENDS Exporter, TLC

CONSTANTS browse, buy, other, ad, catalog, payment

MCWeight == browse :> 1 @@ buy :> 2

MCConfigured == browse :> {catalog} @@ buy :> {catalog, payment} @@ other :> {ad}

MCDefault == {buy, other}

MCThresholds == "fault" :> 2

NoResults == [e \in {} |-> [availability |-> 0, threshold |-> 0]]

Measured(endpoints, availability) ==
  [e \in endpoints |-> [availability |-> availability, threshold |-> 0]]

MCReports ==
  {[profiles |-> "fault" :> Measured({browse, buy}, 3), results |-> NoResults, decision |-> "pass"],
   [profiles |-> [n \in {} |-> NoResults], results |-> Measured({browse}, 4), decision |-> "none"]}

MCWindows ==
  {[named |-> TRUE, services |-> {ad, catalog, payment}, endpoints |-> {browse, buy}],
   [named |-> TRUE, services |-> {ad, catalog}, endpoints |-> {browse, buy}],
   [named |-> FALSE, services |-> {catalog, payment}, endpoints |-> {browse}]}
=============================================================================
