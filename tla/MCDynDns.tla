------------------------------ MODULE MCDynDns ------------------------------
(* Instances of DynDns for TLC. *)
EXTENDS DynDns, TLC

CONSTANTS planet, moon, d1, dm

Conf(p, m) == (planet :> p) @@ [w \in Moon |-> m]

MCOwner == [d \in Domain |-> IF d = dm THEN moon ELSE planet]

PlanetOnly == { Conf(d1, None) }
PlanetToggled == { Conf(d1, None), Conf(None, None) }
MoonAlone == { Conf(None, dm) }
=============================================================================
