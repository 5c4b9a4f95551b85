---------------------------- MODULE MCServices -----------------------------
(***************************************************************************)
(* The parts of a harness that share no state: what the model backends do  *)
(* behind a call, the sessions of the MCP client, a plugin call between    *)
(* its interceptors, and the graph of the registered plugins.  A behaviour *)
(* exercises one of them.                                                  *)
(***************************************************************************)
EXTENDS ModelCall, MCPClient, Invocation, PluginGraph

VARIABLE part

ServicesInit ==
    /\ part \in {"model", "mcp", "invoke", "graph"}
    /\ ModelInit
    /\ MCPInit /\ (part # "mcp" => connector = "sdk")
    /\ InvokeInit /\ (part # "invoke" => befores = {} /\ afters = {} /\ ~isModel)
    /\ GraphInit(IF part = "graph" THEN Registrations ELSE {[p \in Plugins |-> {}]})

ServicesNext ==
    /\ UNCHANGED part
    /\ \/ part = "model" /\ ModelNext /\ UNCHANGED <<mcpVars, invokeVars, graphVars>>
       \/ part = "mcp" /\ MCPNext /\ UNCHANGED <<callVars, invokeVars, graphVars>>
       \/ part = "invoke" /\ InvokeNext /\ UNCHANGED <<callVars, mcpVars, graphVars>>
       \/ part = "graph" /\ GraphNext /\ UNCHANGED <<callVars, mcpVars, invokeVars>>

ServicesSpec ==
    /\ ServicesInit
    /\ [][ServicesNext]_<<part, callVars, mcpVars, invokeVars, graphVars>>
    /\ ModelFairness
=============================================================================
