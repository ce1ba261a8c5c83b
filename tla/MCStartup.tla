----------------------------- MODULE MCStartup ------------------------------
(***************************************************************************)
(* Instances of Startup for TLC.                                           *)
(***************************************************************************)
EXTENDS Startup

CONSTANTS r1, r2

TwoReplicas == {r1, r2}

\* The chart's defaults with the certificate rotator.
Default ==
    [webhooks |-> TRUE, installed |-> TRUE, rotation |-> TRUE,
     rotatorFlags |-> TRUE, elect |-> TRUE, addr |-> "injector.ns.svc:443",
     podNs |-> "ns", watchNs |-> "", config |-> "good"]

\* Certificates by the rotator or by others, with and without leader election,
\* watching another namespace, without a Service address, with webhooks
\* disabled while their configurations are installed or not, and incomplete
\* setups.
MCSetups ==
    {Default,
     [Default EXCEPT !.elect = FALSE],
     [Default EXCEPT !.rotation = FALSE, !.config = ""],
     [Default EXCEPT !.rotation = FALSE, !.addr = "", !.watchNs = "beyla"],
     [Default EXCEPT !.webhooks = FALSE],
     [Default EXCEPT !.webhooks = FALSE, !.installed = FALSE],
     [Default EXCEPT !.addr = ""],
     [Default EXCEPT !.podNs = ""]}

\* Several replicas as the manifests deploy them.
DefaultSetup == {Default}

=============================================================================
