-------------------------------- MODULE McpHub --------------------------------
(***************************************************************************)
(* The MCP servers sessions reach through their shells                     *)
(* (application/mcp.rs, mcp_access.rs, mcp.rs, mcp/http.rs).  A request    *)
(* reads the server's configuration, takes the instance of its session (or *)
(* the one every session shares) out of the table or puts a new one there, *)
(* opens its connection if nobody has yet, and calls a tool or lists them. *)
(* Meanwhile a new configuration is applied, idle instances are reaped,    *)
(* sessions go and the server itself may exit.  None of these waits for    *)
(* the others: an instance taken out of the table lives on for as long as  *)
(* a request holds it.                                                     *)
(***************************************************************************)
EXTENDS Naturals, Sequences, FiniteSets

CONSTANTS McpRequest,    \* requests, each made once
          McpSession,    \* sessions that make them
          McpConfigs,    \* configurations of the server, as McpConfigured
          McpKeys,       \* keys of the provider whose subscription it comes with
          MaxApplies,    \* bound on configuration changes
          MaxInstances   \* bound on instances ever made

\* One configured server: whether it is on, who shares an instance of it, and
\* everything else that says how it is reached.  What validate refuses never
\* becomes a configuration.
McpConfigured == [enabled : BOOLEAN, scope : {"session", "shared"}, reached : Nat]

ASSUME McpAssumption ==
  /\ McpConfigs \subseteq McpConfigured /\ McpConfigs # {} /\ McpKeys # {}
  /\ "shared" \notin McpSession /\ McpSession # {}
  /\ MaxApplies \in Nat /\ MaxInstances \in Nat

VARIABLES settings,    \* the configuration in force and the provider's key
          applies,     \* how often a configuration was applied
          previous,    \* the one an apply in progress replaced, in a set
          table,       \* the instance in use for each session, or shared; 0 for none
          instances,   \* every instance made
          catalog,     \* what is known of the server's tools, in a set
          request      \* what each request is doing

mcp_vars == <<settings, applies, previous, table, instances, catalog, request>>

Owner == McpSession \cup {"shared"}

Endpoint(config, key) == [reached |-> config.reached, key |-> key]

McpSettings == [config : McpConfigs, key : McpKeys]

Unasked == [pc |-> "idle", kind |-> "call", session |-> CHOOSE s \in McpSession : TRUE,
            snapshot |-> {}, at |-> 0]

McpConnection == {"none", "opening", "open", "gone", "shut"}

McpTypeOK ==
  /\ settings \in McpSettings /\ previous \subseteq McpSettings
  /\ applies \in 0 .. MaxApplies
  /\ table \in [Owner -> 0 .. Len(instances)]
  /\ \A i \in DOMAIN instances :
       /\ instances[i].connection \in McpConnection
       /\ instances[i].closing \in BOOLEAN
  /\ \A r \in McpRequest : request[r].at \in 0 .. Len(instances)

---------------------------------------------------------------------------
\* Who holds an instance: the table, the requests that have taken it, and the
\* task that is to close it.
Listed(i) == \E o \in Owner : table[o] = i
Holders(i) == {r \in McpRequest : request[r].at = i}
Busy(i) == {r \in Holders(i) : request[r].pc = "calling"}

\* Taking instances out of the table; a task closes each.
Unlist(gone, now) ==
  /\ table' = [o \in Owner |-> IF table[o] \in gone THEN 0 ELSE table[o]]
  /\ instances' = [i \in DOMAIN now |->
                     IF i \in gone THEN [now[i] EXCEPT !.closing = TRUE] ELSE now[i]]

\* A request lets go of its instance; the connection goes with the last holder.
LetGo(r, now) ==
  [i \in DOMAIN now |->
     IF /\ i = request[r].at /\ Holders(i) = {r} /\ ~ Listed(i) /\ ~ now[i].closing
        /\ now[i].connection = "open"
     THEN [now[i] EXCEPT !.connection = "shut"] ELSE now[i]]

\* The settings a request went by.
Snapshot(r) == CHOOSE read \in request[r].snapshot : TRUE

Finish(r) == request' = [request EXCEPT ![r] = [Unasked EXCEPT !.pc = "done"]]

\* list_tools: every page the server has, or an error for one that never
\* ends, repeats itself or holds too much.  Either way the request goes on.
ToolsRead(snapshot) == {{}, {[reached |-> snapshot.config.reached, late |-> snapshot # settings]}}

\* What was learnt of the tools, kept unless reading them failed.
Learn(tools) == IF tools = {} THEN catalog ELSE tools

---------------------------------------------------------------------------
\* find_server: a request of a session, to call a tool or to list them.
McpFind(r, kind, s) ==
  /\ request[r].pc = "idle"
  /\ IF settings.config.enabled /\ (kind = "list" => catalog = {})
     THEN request' = [request EXCEPT ![r].kind = kind, ![r].session = s, ![r].pc = "found",
                        ![r].snapshot = {settings}]
     ELSE Finish(r)
  /\ UNCHANGED <<settings, applies, previous, table, instances, catalog>>

\* get_instance: under the lock of the table.
McpGetInstance(r) ==
  LET snapshot == Snapshot(r)
      owner == IF snapshot.config.scope = "session" THEN request[r].session ELSE "shared"
      current == table[owner]
      made == Len(instances) + 1
  IN  /\ request[r].pc = "found"
      /\ IF current # 0 /\ instances[current].connection \notin {"gone", "shut"}
         THEN /\ request' = [request EXCEPT ![r].pc = "holding", ![r].at = current]
              /\ UNCHANGED <<table, instances>>
         ELSE /\ made <= MaxInstances
              /\ request' = [request EXCEPT ![r].pc = "holding", ![r].at = made]
              /\ table' = [table EXCEPT ![owner] = made]
              /\ instances' =
                   Append([i \in DOMAIN instances |->
                             IF i = current THEN [instances[i] EXCEPT !.closing = TRUE]
                             ELSE instances[i]],
                          [endpoint |-> Endpoint(snapshot.config, snapshot.key),
                           connection |-> "none", closing |-> FALSE,
                           late |-> snapshot # settings])
      /\ UNCHANGED <<settings, applies, previous, catalog>>

\* connect: the first request to need the connection opens it, the others wait.
McpConnect(r) ==
  LET i == request[r].at
  IN  /\ request[r].pc = "holding"
      /\ \/ /\ instances[i].connection = "none"
            /\ instances' = [instances EXCEPT ![i].connection = "opening"]
            /\ request' = [request EXCEPT ![r].pc = "opening"]
         \/ /\ instances[i].connection \in {"open", "gone", "shut"}
            /\ request' = [request EXCEPT ![r].pc = "connected"]
            /\ UNCHANGED instances
      /\ UNCHANGED <<settings, applies, previous, table, catalog>>

\* The handshake is done and the tools are read into the catalog.
McpOpened(r) ==
  LET i == request[r].at
  IN  /\ request[r].pc = "opening"
      /\ \E tools \in ToolsRead(Snapshot(r)) : catalog' = Learn(tools)
      /\ instances' = [instances EXCEPT ![i].connection = "open"]
      /\ request' = [request EXCEPT ![r].pc = "connected"]
      /\ UNCHANGED <<settings, applies, previous, table>>

\* The server does not start, cannot be reached or does not finish its handshake
\* in time; or the caller leaves meanwhile, and the next to want it tries again.
McpOpenFailed(r) ==
  LET i == request[r].at
  IN  /\ request[r].pc = "opening"
      /\ instances' = [instances EXCEPT ![i].connection = "none"]
      /\ Finish(r)
      /\ UNCHANGED <<settings, applies, previous, table, catalog>>

\* call_tool sends the request, and marks the instance busy until it has ended.
McpCall(r) ==
  /\ request[r].pc = "connected" /\ request[r].kind = "call"
  /\ request' = [request EXCEPT ![r].pc = "calling"]
  /\ UNCHANGED <<settings, applies, previous, table, instances, catalog>>

\* An answer, an error, the end of the connection, a timeout, or the caller is
\* gone and the server is told to stop.
McpCallEnds(r) ==
  /\ request[r].pc = "calling"
  /\ instances' = LetGo(r, instances)
  /\ Finish(r)
  /\ UNCHANGED <<settings, applies, previous, table, catalog>>

\* get_tools reads them once more and writes them to the catalog; nothing comes
\* of it when the connection is gone.
McpListed(r) ==
  /\ request[r].pc = "connected" /\ request[r].kind = "list"
  /\ \E tools \in ToolsRead(Snapshot(r)) :
       /\ tools # {} => instances[request[r].at].connection = "open"
       /\ catalog' = Learn(tools)
  /\ instances' = LetGo(r, instances)
  /\ Finish(r)
  /\ UNCHANGED <<settings, applies, previous, table>>

\* The request is dropped while it waits for a connection another one opens.
McpDropped(r) ==
  /\ request[r].pc \in {"holding", "connected"}
  /\ instances' = LetGo(r, instances)
  /\ Finish(r)
  /\ UNCHANGED <<settings, applies, previous, table, catalog>>

\* check: a connection of its own, of a server that may even be off.
McpCheckBegins(r) ==
  /\ request[r].pc = "idle"
  /\ request' = [request EXCEPT ![r].kind = "check", ![r].snapshot = {settings},
                   ![r].pc = "checking"]
  /\ UNCHANGED <<settings, applies, previous, table, instances, catalog>>

\* Its finding replaces whatever the catalog said.
McpCheckEnds(r) ==
  /\ request[r].pc = "checking"
  /\ catalog' \in ToolsRead(Snapshot(r))
  /\ Finish(r)
  /\ UNCHANGED <<settings, applies, previous, table, instances>>

---------------------------------------------------------------------------
\* apply takes the new configuration first ...
McpApply(config, key) ==
  /\ previous = {}
  /\ applies < MaxApplies
  /\ applies' = applies + 1
  /\ settings' = [config |-> config, key |-> key]
  /\ previous' = {settings}
  /\ UNCHANGED <<table, instances, catalog, request>>

SameServer(config) == \E old \in previous : old.config = config /\ settings.config = config

\* ... then forgets the tools of a server that changed, and closes the instances
\* of one that changed, is off, or would now be reached differently.
Unfit(i) ==
  \/ ~ settings.config.enabled
  \/ ~ SameServer(settings.config)
  \/ instances[i].endpoint # Endpoint(settings.config, settings.key)

McpApplied ==
  /\ previous # {}
  /\ catalog' = IF SameServer(settings.config) THEN catalog ELSE {}
  /\ Unlist({i \in DOMAIN instances : Listed(i) /\ Unfit(i)}, instances)
  /\ previous' = {}
  /\ UNCHANGED <<settings, applies, request>>

\* reap: an instance that is closed, or that no call has used for its idle time.
Expired(i) == instances[i].connection \in {"gone", "shut"} \/ Busy(i) = {}

McpReap ==
  /\ \E gone \in SUBSET {i \in DOMAIN instances : Listed(i) /\ Expired(i)} :
       gone # {} /\ Unlist(gone, instances)
  /\ UNCHANGED <<settings, applies, previous, catalog, request>>

\* close_session: it is deleted or switches MCP off.
McpCloseSession(s) ==
  /\ table[s] # 0
  /\ Unlist({table[s]}, instances)
  /\ UNCHANGED <<settings, applies, previous, catalog, request>>

\* close_all, when the application ends.
McpCloseAll ==
  /\ \E o \in Owner : table[o] # 0
  /\ Unlist({i \in DOMAIN instances : Listed(i)}, instances)
  /\ UNCHANGED <<settings, applies, previous, catalog, request>>

\* Mutant: the connection is ended whoever holds it.
CloseRegardless(i) ==
  /\ instances[i].closing
  /\ instances' = [instances EXCEPT ![i].closing = FALSE,
                     ![i].connection = IF @ = "open" THEN "shut" ELSE @]
  /\ UNCHANGED <<settings, applies, previous, table, catalog, request>>

\* close: the connection is ended at once unless a request still holds it.
McpClose(i) ==
  /\ instances[i].closing
  /\ instances' = [instances EXCEPT ![i].closing = FALSE,
                     ![i].connection = IF Holders(i) = {} /\ @ = "open" THEN "shut" ELSE @]
  /\ UNCHANGED <<settings, applies, previous, table, catalog, request>>

\* The server exits or the connection breaks.
ServerExits(i) ==
  /\ instances[i].connection = "open"
  /\ instances' = [instances EXCEPT ![i].connection = "gone"]
  /\ UNCHANGED <<settings, applies, previous, table, catalog, request>>

\* The server says its tools changed.
ToolsChanged(i) ==
  /\ instances[i].connection = "open"
  /\ catalog # {}
  /\ catalog' = {}
  /\ UNCHANGED <<settings, applies, previous, table, instances, request>>

McpInit ==
  /\ settings \in McpSettings
  /\ applies = 0
  /\ previous = {}
  /\ table = [o \in Owner |-> 0]
  /\ instances = <<>>
  /\ catalog = {}
  /\ request = [r \in McpRequest |-> Unasked]

RequestStep(r) ==
  \/ \E kind \in {"call", "list"}, s \in McpSession : McpFind(r, kind, s)
  \/ McpGetInstance(r) \/ McpConnect(r) \/ McpOpened(r) \/ McpOpenFailed(r)
  \/ McpCall(r) \/ McpCallEnds(r) \/ McpListed(r) \/ McpDropped(r)
  \/ McpCheckBegins(r) \/ McpCheckEnds(r)

McpNext ==
  \/ \E r \in McpRequest : RequestStep(r)
  \/ \E config \in McpConfigs, key \in McpKeys : McpApply(config, key)
  \/ McpApplied \/ McpReap \/ McpCloseAll
  \/ \E s \in McpSession : McpCloseSession(s)
  \/ \E i \in DOMAIN instances : McpClose(i) \/ ServerExits(i) \/ ToolsChanged(i)

McpSpec == McpInit /\ [][McpNext]_mcp_vars

\* A call that runs keeps its connection, whatever the hub does meanwhile: a
\* new configuration, the reaper, the end of its session or of the application
\* take the instance out of the table, and only the server or the call itself
\* ends it.  And no server is left running that nobody would end: its instance
\* is in the table, held by a request, or about to be closed.
McpCallsKept ==
  \A i \in DOMAIN instances :
    /\ Busy(i) # {} => instances[i].connection # "shut"
    /\ instances[i].connection \in {"opening", "open"} =>
         Listed(i) \/ Holders(i) # {} \/ instances[i].closing

\* Once a configuration is applied, the instance a session would use is reached
\* as that configuration says, and the tools it is told of are that server's,
\* except where a request that had read the older configuration entered the
\* instance or wrote the tools afterwards.
McpFits ==
  previous = {} =>
    /\ \A o \in Owner :
         table[o] # 0 =>
           \/ instances[table[o]].late
           \/ /\ settings.config.enabled
              /\ instances[table[o]].endpoint = Endpoint(settings.config, settings.key)
    /\ \A tools \in catalog : tools.late \/ tools.reached = settings.config.reached

\* Both: the hub neither takes a connection from a call nor gives a session one
\* of an older configuration (mcp.rs apply, reap, close_session, get_instance).
McpKept == McpCallsKept /\ McpFits

=============================================================================
