----------------------------- MODULE MCPurchases -----------------------------
(***************************************************************************)
(* The purchases that have a front door of their own.  A behaviour is one  *)
(* of anchoring (two attestations and two purchases: of one attestation,   *)
(* or of both) or one of the MCP server (two calls over two snapshots);    *)
(* the other rests in an initial state.                                    *)
(***************************************************************************)
EXTENDS Anchor, McpTools

VARIABLE door

allVars == <<door, vars, mcpVars>>

AnchorRests ==
    /\ Init /\ ~enabled /\ ~signing /\ ~rpc /\ anchorable = {}
    /\ envelope = CHOOSE e \in [Clients -> Attestations] : TRUE

McpRests ==
    /\ McpInit /\ store.usable /\ mcpSigning
    /\ ask = CHOOSE a \in [Calls -> Asks] : TRUE

MCInit ==
    \/ door = "anchor" /\ Init /\ McpRests
    \/ door = "mcp" /\ McpInit /\ AnchorRests

MCNext ==
    \/ door = "anchor" /\ Next /\ UNCHANGED <<door, mcpVars>>
    \/ door = "mcp" /\ McpNext /\ UNCHANGED <<door, vars>>

\* Before anything is paid for no fair action is enabled, so the fairness of the one
\* at rest asks for nothing.
MCSpec == MCInit /\ [][MCNext]_allVars /\ Fairness /\ McpFairness
=============================================================================
