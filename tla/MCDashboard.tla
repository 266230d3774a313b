----------------------------- MODULE MCDashboard -----------------------------
(* Instance of Dashboard for TLC: a host and a container that occur        *)
(* together, apart or not at all, by service and range.                    *)
EXTENDS Dashboard

MCRows == {[service |-> "s1", range |-> 1, tags |-> {"host", "cart"}],
           [service |-> "s1", range |-> 2, tags |-> {"host"}],
           [service |-> "s2", range |-> 2, tags |-> {"cart"}]}
MCFilters == {"host", "cart"}
MCGroup(f) == f
MCOpening == {[range |-> 1, stacks |-> 10000]}
=============================================================================
