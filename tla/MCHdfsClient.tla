---------------------------- MODULE MCHdfsClient ----------------------------
(***************************************************************************)
(* Model checking of HdfsClient: three servers, built from different       *)
(* versions of the interface, so that some methods are unknown to some.    *)
(***************************************************************************)
EXTENDS HdfsClient

CONSTANTS new, old, older

\* The methods in the _processMap of each server.
MCServed ==
  new   :> {m.name : m \in Methods}
  @@ old   :> {m.name : m \in Methods \ {append, getFileBlockLocations, shutdown}}
  @@ older :> {m.name : m \in Methods \ {setInactivityTimeoutPeriod}}
=============================================================================
