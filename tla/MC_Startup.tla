---------------------------- MODULE MC_Startup ----------------------------
(* Two remote hosts, each with a port of its own or both with the default    *)
(* port; and one without a port after a local connection and an unusable one. *)
EXTENDS Startup

MCFiles ==
    {<<Ssh("h1", 1), Ssh("h2", 2)>>,
     <<Ssh("h1", 0), Ssh("h2", 0)>>,
     <<Ssh("", 2), Local, Ssh("h1", 0)>>}
=============================================================================
