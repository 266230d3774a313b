---------------------------- MODULE MCReadQueries ----------------------------
(* Instance of ReadQueries for TLC: rows at the edges of minutes, hours    *)
(* and days and of the ranges, of two hosts and two containers.            *)
EXTENDS ReadQueries, TLC

Col(container, host, type, workload) ==
    [ContainerName |-> container, HostName |-> host, InstanceType |-> type,
     ContainerEnvName |-> workload]

MCRows == {
    [at |-> 86400, service |-> "shop", col |-> Col("cart", "h1", "m5", "prod")],
    [at |-> 90029, service |-> "shop", col |-> Col("", "h1", "m5", "")],
    [at |-> 93600, service |-> "shop", col |-> Col("cart", "h2", "", "prod")],
    [at |-> 172799, service |-> "shop", col |-> Col("pay", "h2", "", "prod")],
    [at |-> 172800, service |-> "mail", col |-> Col("", "h1", "m5", "")]}

MCReadings == {
    [at |-> 86430, service |-> "shop", col |-> [HostName |-> "h1", InstanceType |-> "m5"]],
    [at |-> 93600, service |-> "shop", col |-> [HostName |-> "h2", InstanceType |-> ""]]}

MCConditions == {
    <<>>,
    [HostName |-> {"h1"}],
    [HostName |-> {"h1", "h2"}],
    [ContainerName |-> {"cart"}, ContainerEnvName |-> {"prod"}],
    [InstanceType |-> {"m5"}],
    [ContainerEnvName |-> {""}]}

MCInstants == {86400, 90029, 93600, 172800, 181800}
MCIntervals == {Unset, 3600}
=============================================================================
