----------------------------- MODULE MCActivation -----------------------------
(* The instance of Activation that TLC checks: two generations, every one of *)
(* which the operator admits, or all but one.                                *)
EXTENDS Activation

Pins(ids) == {a \in ImageAdmission : a.generation.id \in ids}

EverythingOrOneRevoked ==
    {Pins(Ids), Pins(Ids \ {CHOOSE i \in Ids : TRUE})}
===============================================================================
