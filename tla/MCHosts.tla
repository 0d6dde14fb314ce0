-------------------------------- MODULE MCHosts --------------------------------
(* Two names and two addresses of ours, one of them IPv6, and a stranger's.*)
(* Of two mappings of others one loses a name or all, one has our address. *)
EXTENDS Hosts

MCMappings == {Map("b", <<"n1", "n2">>), Map("a", <<"n1", "n3">>)}
MCRequests == {<<>>, << <<"n1", "six">>, <<"n1", "a">>, <<"n1", "a">> >>,
               << <<"n2", "a">>, <<"n1", "six">> >>}
=============================================================================
