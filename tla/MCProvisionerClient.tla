------------------------- MODULE MCProvisionerClient -------------------------
(* Model-checking instance of ProvisionerClient: a collector and a         *)
(* mediator connected to the provisioner at the same time.                 *)
EXTENDS ProvisionerClient, TLC

CONSTANTS k1, k2

MCClients == {k1, k2}

\* The peers are interchangeable: no function looks at another client.
MCSymmetry == Permutations(MCClients)
====
