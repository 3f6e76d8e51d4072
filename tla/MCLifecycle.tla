---------------------------- MODULE MCLifecycle ----------------------------
(* Instances of Lifecycle for TLC. *)
EXTENDS Lifecycle

\* Parts of main's table, each with the subjects that matter between its agents:
\* intents become executions; prices become executions; two readers of prices.
MCSystems ==
  { [table |-> <<"scout", "risk", "trader">>,      subjects |-> {"intent", "execute"}],
    [table |-> <<"scout", "trader", "sentiment">>, subjects |-> {"price", "execute"}],
    [table |-> <<"scout", "risk", "recorder">>,    subjects |-> {"price"}] }
=============================================================================
