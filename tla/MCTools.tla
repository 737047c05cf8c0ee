------------------------------ MODULE MCTools ---------------------------------
(***************************************************************************)
(* What a turn's tools are and run on, one component per behaviour: the    *)
(* admission of tools and containers, the choice of a runtime by a         *)
(* command's text, the fallback from one runtime to the other, direct      *)
(* shells, the recorder of the files that commands change, and the tools   *)
(* of MCP servers.                                                         *)
(***************************************************************************)
EXTENDS ToolAdmission, ShellRouting, BashRouting, ChangeRecorder,
        McpServers, TLC

CONSTANTS c1, c2, c3, c4, n1, d1

VARIABLE subject  \* the component that acts

mcVars == <<vars, routingVars, sourceVars, shellVars, recorderVars,
            mcpVars, listingVars, subject>>

\* Three short tools, one with a nested call, a long one, and a direct command.
MCParent == [c \in Calls |-> IF c = n1 THEN c1 ELSE None]

\* Commands the light shell can run, fails to run quietly, and fails to run
\* with a message, with and without a write before that.
MCNatures == [needs : {"light", "silent", "loud"}, writes : BOOLEAN]

\* One server that moves between addresses and kinds of access, one that stays.
Servers == [url : Urls, auth : {"bearer", "oauth"}, policy : {"read_only"}, endpoints : {FALSE}]
MCSettings == [n \in Names |-> IF n = "n1" THEN Servers
                               ELSE {s \in Servers : s.auth = "oauth" /\ s.url = "u1"}]

\* Lists of one to four tools of several sizes, one over the budget by itself.
MCLists == UNION {[1..n -> {1, 2, 3, 5}] : n \in 1..4}

\* The same two names stand for two calls, two commands, two runs and two tools.
MCSymmetry == Permutations({c2, c3})

\* A component that does not act stays in one initial state.
MCInit ==
    /\ subject \in {"admission", "routing", "source", "direct", "recorder", "servers", "listing"}
    /\ Init /\ RoutingInit /\ SourceInit /\ DirectInit /\ ChangesInit /\ McpInit
    /\ subject # "routing" =>
          policy = "auto" /\ nature = [c \in Commands0 |-> [needs |-> "light", writes |-> FALSE]]
    /\ subject # "source" => source = <<Word("ls")>>
    /\ ListingInit
    /\ subject # "listing" => found = <<1>>
    /\ subject # "recorder" => files = [p \in Paths |-> Absent]

MCNext ==
    \/ /\ subject = "admission" /\ Next
       /\ UNCHANGED <<subject, routingVars, sourceVars, shellVars, recorderVars, mcpVars, listingVars>>
    \/ /\ subject = "routing" /\ RoutingNext
       /\ UNCHANGED <<subject, vars, sourceVars, shellVars, recorderVars, mcpVars, listingVars>>
    \/ /\ subject = "source" /\ SourceNext
       /\ UNCHANGED <<subject, vars, routingVars, shellVars, recorderVars, mcpVars, listingVars>>
    \/ /\ subject = "direct" /\ DirectNext
       /\ UNCHANGED <<subject, vars, routingVars, sourceVars, recorderVars, mcpVars, listingVars>>
    \/ /\ subject = "recorder" /\ ChangesNext
       /\ UNCHANGED <<subject, vars, routingVars, sourceVars, shellVars, mcpVars, listingVars>>
    \/ /\ subject = "servers" /\ McpNext
       /\ UNCHANGED <<subject, vars, routingVars, sourceVars, shellVars, recorderVars, listingVars>>
    \/ /\ subject = "listing" /\ ListingNext
       /\ UNCHANGED <<subject, vars, routingVars, sourceVars, shellVars, recorderVars, mcpVars>>

MCSpec == MCInit /\ [][MCNext]_mcVars

----------------------------------------
\* A script goes to the light shell exactly when all it may start is there
\* (bash-routing.ts).
SourceIsReadRight == subject = "source" => LightIsExact

\* What a shell's stream, the list of changed files and a list of a server that
\* is cut tell is what happened and can be continued (direct-shell.ts,
\* edge-workspace-changes.ts, edge-mcp-client.ts).
ReportsAreTrue ==
    /\ subject = "direct" => DirectShellTells
    /\ subject = "recorder" => EditsAreListed
    /\ subject = "listing" => ListsFitAndContinue
===============================================================================
