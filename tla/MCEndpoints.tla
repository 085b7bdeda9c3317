------------------------------ MODULE MCEndpoints ------------------------------
(***************************************************************************)
(* The endpoints other programs and devices talk to, for TLC: the OSC      *)
(* server, the two directions of midi_io and nomos-mcp.  They share no     *)
(* state, so a behaviour is one of one endpoint.                           *)
(***************************************************************************)
EXTENDS OscServer, MidiIo, McpBridge

VARIABLE kind

\* Every method and tool, with an id and, where that matters, without one.
McpRequests ==
    [kind : {"initialize", "list", "evaluate", "oversize", "noexpr", "unknown"}, hasId : {TRUE}]
        \cup [kind : {"initialized", "unknown", "badtool"}, hasId : {FALSE}]

all == <<kind, vars, mcpVars, midiVars>>

Endpoints == {"osc", "mcp", "midi_out", "midi_in"}

MCInit ==
    /\ kind \in Endpoints /\ Init /\ McpInit /\ MidiInit
    /\ echo => kind = "midi_in"

Osc(A)  == kind = "osc" /\ A /\ UNCHANGED <<kind, mcpVars, midiVars>>
Mcp(A)  == kind = "mcp" /\ A /\ UNCHANGED <<kind, vars, midiVars>>
Midi(A) == A /\ UNCHANGED <<kind, vars, mcpVars>>

MCNext ==
    \/ Osc(Next)
    \/ Mcp(McpNext)
    \/ kind = "midi_out" /\ Midi(Output)
    \/ kind = "midi_in" /\ Midi(Input)

\* The fairness of McpBridge.
MCSpec ==
    /\ MCInit /\ [][MCNext]_all
    /\ WF_all(Mcp(Bridge)) /\ WF_all(Mcp(Serve))
================================================================================
