---------------------------- MODULE McpServers -----------------------------
(***************************************************************************)
(* The MCP connectors: the saved servers, each with a tool catalog, a      *)
(* token and refresh data under keys of its own (session-store.ts,         *)
(* edge-credentials.ts); the tools registered from the catalogs, the       *)
(* probe that replaces them and the cached settings the approval policy    *)
(* reads (edge-mcp-manager.ts, approval-policy.ts); the authorization flow *)
(* (edge-mcp-oauth.ts).                                                    *)
(*                                                                         *)
(* Storage calls of one handler are one step: while one is awaited the     *)
(* Durable Object takes no other event.  A handler gives way where it      *)
(* waits for a server: a probe, a code exchange, a token refresh.  A save  *)
(* can also be cut off between its storage calls by a restart.             *)
(*                                                                         *)
(* A catalog or token is the URL it came from.  Abstracted: schemas, the   *)
(* direct and the search mode of offering tools (both look the tool up in  *)
(* toolMeta), resources (offered and withdrawn with the tools), two names  *)
(* that normalise to one credential, connectors without authorization.     *)
(*                                                                         *)
(* The last section is what the client keeps of a server's lists.          *)
(***************************************************************************)
EXTENDS Naturals, FiniteSets, Sequences, SequencesExt

CONSTANTS Names,     \* the connectors' names
          Urls,      \* the addresses they may have
          NoUrl,     \* nothing stored
          Settings,  \* the settings each may be saved with
          MaxFlows   \* bound on authorization flows started

\* What is saved of a connector.
authTypes == {"none", "bearer", "oauth"}
policyModes == {"none", "allow_all", "read_only", "approve_all"}
Records == [url : Urls, auth : authTypes, policy : policyModes, endpoints : BOOLEAN]

ASSUME ServersAssumption ==
  MaxFlows \in Nat /\ Settings \in [Names -> SUBSET Records]

VARIABLES configs,     \* MCP_STORAGE_KEY: a record or NoServer a name
          catalog,     \* MCP_TOOLS_PREFIX + name
          token,       \* the credential of the name
          refresh,     \* MCP_REFRESH_PREFIX + name: "none", "fresh" or "old"
          cache,       \* the cached configs, {} when invalidated
          registered,  \* the registered tools: NoUrl or the catalog's URL
          probing,     \* the probe under way, {} or one
          flowsOpen,     \* the pending flow, {} or one
          exchanging,  \* the exchanges waiting for the server
          refreshing,  \* the refreshes waiting for the server
          flows,       \* flows started
          exchanged,   \* how often each flow's code was sent
          interrupted  \* the names a restart cut a save off for

mcpVars == <<configs, catalog, token, refresh, cache, registered, probing, flowsOpen,
             exchanging, refreshing, flows, exchanged, interrupted>>

NoServer == [url |-> NoUrl, auth |-> "none", policy |-> "none",
             endpoints |-> FALSE]
Saved(n) == Settings[n] \cup {NoServer}
Configured(n) == configs[n] # NoServer

McpInit ==
  /\ configs = [n \in Names |-> NoServer]
  /\ catalog = [n \in Names |-> NoUrl] /\ token = catalog /\ registered = catalog
  /\ refresh = [n \in Names |-> "none"]
  /\ cache = {configs} /\ probing = {} /\ flowsOpen = {}
  /\ exchanging = {} /\ refreshing = {}
  /\ flows = 0 /\ exchanged = [f \in 1..MaxFlows |-> 0] /\ interrupted = {}

----------------------------------------
\* A save keeps type, URL and policy of what it is given; the endpoints and
\* client of an authorization are not among them.
validated(n, c) ==
  [m \in Names |-> IF m = n THEN c ELSE [configs[m] EXCEPT !.endpoints = FALSE]]

Changed(n, c) == configs[n].url # c.url \/ configs[n].auth # c.auth

\* What a name that was removed or changed loses with the save.
disposeServer(n) == registered' = [registered EXCEPT ![n] = NoUrl]
clearServer(n) ==
  /\ catalog' = [catalog EXCEPT ![n] = NoUrl]
  /\ token' = [token EXCEPT ![n] = NoUrl]
  /\ refresh' = [refresh EXCEPT ![n] = "none"]

setMcpServers(n) ==
  /\ \E c \in Saved(n) :
       /\ c # configs[n]
       /\ configs' = validated(n, c)
       /\ IF Changed(n, c) /\ Configured(n)
          THEN disposeServer(n) /\ clearServer(n)
          ELSE UNCHANGED <<registered, catalog, token, refresh>>
  /\ cache' = {}
  /\ UNCHANGED <<probing, flowsOpen, exchanging, refreshing, flows, exchanged,
                 interrupted>>

\* What a start registers: the tools of the catalogs stored.
installEdgeMcpServers(servers) ==
  /\ cache' = {servers}
  /\ registered' = [n \in Names |-> IF servers[n] = NoServer THEN NoUrl ELSE catalog[n]]
  /\ probing' = {} /\ exchanging' = {} /\ refreshing' = {}

restart ==
  /\ installEdgeMcpServers(configs)
  /\ UNCHANGED <<configs, catalog, token, refresh, flowsOpen, flows, exchanged,
                 interrupted>>

\* The servers are stored; the restart comes before what they replace is.
saveInterrupted(n) ==
  \E c \in Saved(n) :
    /\ Configured(n) /\ Changed(n, c)
    /\ configs' = validated(n, c)
    /\ interrupted' = interrupted \cup {n}
    /\ installEdgeMcpServers(configs')
    /\ UNCHANGED <<catalog, token, refresh, flowsOpen, flows, exchanged>>

\* The owner enters the token of a connector the page lists.
setMcpToken(n) ==
  /\ configs[n].auth = "bearer"
  /\ token' = [token EXCEPT ![n] = configs[n].url]
  /\ UNCHANGED <<configs, catalog, refresh, cache, registered, probing, flowsOpen,
                 exchanging, refreshing, flows, exchanged, interrupted>>

clearMcpToken(n) ==
  /\ token' = [token EXCEPT ![n] = NoUrl]
  /\ UNCHANGED <<configs, catalog, refresh, cache, registered, probing, flowsOpen,
                 exchanging, refreshing, flows, exchanged, interrupted>>

----------------------------------------
\* syncServer: probes run one at a time; the server is read when one starts.
startProbe(n) ==
  /\ probing = {} /\ Configured(n)
  /\ probing' = {[name |-> n, url |-> configs[n].url]}
  /\ UNCHANGED <<configs, catalog, token, refresh, cache, registered, flowsOpen,
                 exchanging, refreshing, flows, exchanged, interrupted>>

\* A mutant of Current: the answer is taken whatever was saved meanwhile.
StillNamed(p) == Configured(p.name)

\* The server is read again after the probe; it must have the URL probed.
Current(p) == Configured(p.name) /\ configs[p.name].url = p.url

probed(p) ==
  /\ p \in probing /\ Current(p)
  /\ catalog' = [catalog EXCEPT ![p.name] = p.url]
  /\ registered' = [registered EXCEPT ![p.name] = p.url]
  /\ cache' = {configs} /\ probing' = {}
  /\ UNCHANGED <<configs, token, refresh, flowsOpen, exchanging, refreshing,
                 flows, exchanged, interrupted>>

\* A failed probe is written to the server's status, also only if current.
probeFailed(p) ==
  /\ p \in probing
  /\ cache' = IF Current(p) THEN {configs} ELSE cache
  /\ probing' = {}
  /\ UNCHANGED <<configs, catalog, token, refresh, registered, flowsOpen, exchanging,
                 refreshing, flows, exchanged, interrupted>>

----------------------------------------
\* The endpoints are discovered and a client registered; the flow is pending.
\* The address is the one the page shows.
startOAuthFlow(n) ==
  /\ flows < MaxFlows
  /\ flows' = flows + 1
  /\ \E u \in Urls : flowsOpen' = {[id |-> flows + 1, name |-> n, url |-> u]}
  /\ configs' = IF ~Configured(n) THEN configs
                ELSE [configs EXCEPT ![n].auth = "oauth", ![n].endpoints = TRUE]
  /\ UNCHANGED <<catalog, token, refresh, cache, registered, probing, exchanging,
                 refreshing, exchanged, interrupted>>

burn == flowsOpen' = {}

\* The owner comes back with a code: the flow is burned first, then the code
\* is sent if the server is still the one it was started for.
completeOAuthFlow(f) ==
  /\ f \in flowsOpen /\ burn
  /\ IF configs[f.name].url = f.url /\ configs[f.name].endpoints
     THEN /\ exchanging' = exchanging \cup {f}
          /\ exchanged' = [exchanged EXCEPT ![f.id] = @ + 1]
     ELSE UNCHANGED <<exchanging, exchanged>>
  /\ UNCHANGED <<configs, catalog, token, refresh, cache, registered, probing,
                 refreshing, flows, interrupted>>

\* The tokens are stored under the name of the flow.
tokensArrive(f) ==
  /\ f \in exchanging
  /\ exchanging' = exchanging \ {f}
  /\ token' = [token EXCEPT ![f.name] = f.url]
  /\ \E r \in {"none", "fresh"} : refresh' = [refresh EXCEPT ![f.name] = r]
  /\ UNCHANGED <<configs, catalog, cache, registered, probing, flowsOpen, refreshing,
                 flows, exchanged, interrupted>>

exchangeFails(f) ==
  /\ f \in exchanging
  /\ exchanging' = exchanging \ {f}
  /\ UNCHANGED <<configs, catalog, token, refresh, cache, registered, probing,
                 flowsOpen, refreshing, flows, exchanged, interrupted>>

\* resolveAuth of a call or probe: a token about to expire is refreshed first.
tokenExpires(n) ==
  /\ refresh[n] = "fresh"
  /\ refresh' = [refresh EXCEPT ![n] = "old"]
  /\ UNCHANGED <<configs, catalog, token, cache, registered, probing, flowsOpen,
                 exchanging, refreshing, flows, exchanged, interrupted>>

startRefresh(n) ==
  /\ registered[n] # NoUrl /\ refresh[n] = "old"
  /\ refreshing' = refreshing \cup {[name |-> n, url |-> token[n]]}
  /\ UNCHANGED <<configs, catalog, token, refresh, cache, registered, probing,
                 flowsOpen, exchanging, flows, exchanged, interrupted>>

refreshed(r) ==
  /\ r \in refreshing
  /\ refreshing' = refreshing \ {r}
  /\ token' = [token EXCEPT ![r.name] = r.url]
  /\ refresh' = [refresh EXCEPT ![r.name] = "fresh"]
  /\ UNCHANGED <<configs, catalog, cache, registered, probing, flowsOpen, exchanging,
                 flows, exchanged, interrupted>>

\* The refusal is written to the server's status; the call goes on unsigned.
refreshRefused(r) ==
  /\ r \in refreshing
  /\ refreshing' = refreshing \ {r}
  /\ UNCHANGED <<configs, catalog, token, refresh, cache, registered, probing,
                 flowsOpen, exchanging, flows, exchanged, interrupted>>

\* The approval policy of a tool or resource call; the first read fills the
\* cache again.
resolvePolicy(n) ==
  /\ registered[n] # NoUrl /\ cache = {}
  /\ cache' = {configs}
  /\ UNCHANGED <<configs, catalog, token, refresh, registered, probing, flowsOpen,
                 exchanging, refreshing, flows, exchanged, interrupted>>

McpNext ==
  \/ restart
  \/ \E n \in Names :
       \/ setMcpServers(n) \/ saveInterrupted(n) \/ setMcpToken(n)
       \/ clearMcpToken(n) \/ startProbe(n) \/ startOAuthFlow(n)
       \/ tokenExpires(n) \/ startRefresh(n) \/ resolvePolicy(n)
  \/ \E p \in probing : probed(p) \/ probeFailed(p)
  \/ \E f \in flowsOpen : completeOAuthFlow(f)
  \/ \E f \in exchanging : tokensArrive(f) \/ exchangeFails(f)
  \/ \E r \in refreshing : refreshed(r) \/ refreshRefused(r)

McpSpec == McpInit /\ [][McpNext]_mcpVars

----------------------------------------
\* The tools the model sees and the catalog a restart would register are
\* of the address the connector has now, whatever was saved while a probe
\* was under way; only a save cut off by a restart leaves a former one.
\* The approval mode a call is judged by is the one saved last.
ToolsAreTheServers ==
  /\ \A n \in Names \ interrupted :
       {registered[n], catalog[n]} \subseteq {NoUrl, configs[n].url}
  /\ \A seen \in cache, n \in Names : seen[n].policy = configs[n].policy

\* "Burn the pending flow (single-use)": one authorization sends its code
\* once, however often its return page is opened.
CodeSentOnce == \A f \in 1..MaxFlows : exchanged[f] <= 1

\* Both: the tools of a server are those of the one that is configured,
\* and an authorization code is sent once (edge-mcp-manager.ts,
\* session-store.ts, edge-mcp-oauth.ts).
ServersAreTheirOwn == ToolsAreTheServers /\ CodeSentOnce

\* "clear credentials/tools for removed or changed servers": a connector
\* that authorises itself has a token of the address it has, and a name
\* without a connector has none.
TokensAreTheServers ==
  \A n \in Names \ interrupted : token[n] \in {NoUrl, configs[n].url}

----------------------------------------
\* What the client keeps of a server's lists: the catalog of a probe
\* (edge-mcp-client.ts, edge-mcp-manager.ts), limited in pages, tools and
\* bytes, and a resource list, which stops at a page or byte limit and
\* returns the cursor the caller continues with.  A list is a sequence of
\* pages, a page its size in bytes; the cursor of a page is its number.
CONSTANTS Lists,       \* the lists a server may have: sequences of sizes
          MaxPages,    \* maxCatalogPages
          MaxTools,    \* maxToolsPerServer
          MaxBytes,    \* maxResourceResponseBytes and maxCatalogBytes
          SlimSize     \* the size of a tool without its schema

ASSUME ListingLimits == MaxPages > 0 /\ MaxTools > 0 /\ SlimSize <= MaxBytes

VARIABLES found,     \* the server's list
          got,      \* the numbers of the pages the caller has been given
          cursor,   \* where it continues, 0 before the first call
          keptTools   \* the sizes of the tools a probe of it keeps

listingVars == <<found, got, cursor, keptTools>>

Bytes(sizes) == FoldLeft(LAMBDA total, size : total + size, 0, sizes)
Least(a, b)  == IF a < b THEN a ELSE b
Greatest(S)  == CHOOSE n \in S : \A m \in S : m <= n

\* probe: every tool is an entry of its own here.
Probed(sizes) == SubSeq(sizes, 1, Least(Len(sizes), MaxTools))

\* A tool over half the budget loses its schema; a catalog over the budget is
\* cut in proportion, then tool by tool, then its last tool loses its schema.
capCatalogSize(sizes) ==
  LET slimmed == [i \in DOMAIN sizes |->
                    IF 2 * sizes[i] > MaxBytes THEN Least(sizes[i], SlimSize) ELSE sizes[i]]
      part    == (Len(slimmed) * MaxBytes) \div Bytes(slimmed)
      kept    == Greatest({n \in 1..(IF part = 0 THEN 1 ELSE part) :
                             n = 1 \/ Bytes(SubSeq(slimmed, 1, n)) <= MaxBytes})
      cut     == SubSeq(slimmed, 1, kept)
  IN IF sizes = <<>> \/ Bytes(slimmed) <= MaxBytes THEN slimmed
     ELSE IF Bytes(cut) > MaxBytes THEN <<SlimSize>> ELSE cut

ListingInit == /\ found \in Lists
               /\ got = <<>> /\ cursor = 0
               /\ keptTools = capCatalogSize(Probed(found))

\* The pages one call without a cursor returns: the first, then those that
\* keep the list within the budget.
PagesInBudget ==
  Greatest({n \in 1..Least(MaxPages, Len(found)) :
              n = 1 \/ Bytes(SubSeq(found, 1, n)) <= MaxBytes})

ListPages(first, last) == [i \in 1..(last - first + 1) |-> first + i - 1]

\* A call without a cursor, which the caller may make again at any time.
requestAll ==
  /\ found # <<>>
  /\ got' = ListPages(1, PagesInBudget)
  /\ cursor' = PagesInBudget + 1
  /\ UNCHANGED <<found, keptTools>>

\* A call with a cursor returns the one page it names.
requestPage ==
  /\ cursor \in DOMAIN found
  /\ got' = Append(got, cursor) /\ cursor' = cursor + 1
  /\ UNCHANGED <<found, keptTools>>

ListingNext == requestAll \/ requestPage

----------------------------------------
\* A caller that follows the cursors is given every page once and in
\* order, and an answer of more than one page stays within the budget; a
\* catalog fits in it.
ListsFitAndContinue ==
  /\ got = ListPages(1, Len(got))
  /\ cursor # 0 => cursor = Len(got) + 1
  /\ Bytes(SubSeq(found, 1, PagesInBudget)) <= MaxBytes \/ PagesInBudget = 1
  /\ Bytes(keptTools) <= MaxBytes
=============================================================================
