----------------------------- MODULE McpRegistry -----------------------------
(* The registry of MCP servers added at run time (config/                      *)
(* dynamic-governance.mjs): maps in memory, written whole to a file after every *)
(* change, and handlers that only the process that registered them has.        *)
EXTENDS Naturals, FiniteSets
CONSTANTS Servers, ToolNames, NoServer,
          Proper,      \* the names registerServer accepts: those without a colon
          Actions,     \* the keys of the maps
          ActionOf     \* mcp:<server>:<tool>, which two pairs may share

ASSUME RegistryAssumption ==
  /\ NoServer \notin Servers /\ Proper \subseteq Servers
  /\ ActionOf \in [Servers \X ToolNames -> Actions]

VARIABLES
  servers,           \* the servers registered
  tools,             \* action -> the server of the tool registered under it
  handlers,          \* action -> the server whose handler is bound to it
  saved,             \* what the registry file holds
  lagging,           \* a save was swallowed since the last one that worked
  dropped            \* servers unregistered and neither registered again nor
                     \* brought back by a restart from a lagging file (history)

registryVars == <<servers, tools, handlers, saved, lagging, dropped>>
Entries == [Actions -> Servers \cup {NoServer}]
NoEntry == [a \in Actions |-> NoServer]
\* The map with the entries under these keys set to s.
Bound(map, keys, s) == [a \in Actions |-> IF a \in keys THEN s ELSE map[a]]
Named(s, names) == {ActionOf[<<s, n>>] : n \in names}

RegistryTypeOK ==
  /\ servers \subseteq Servers /\ tools \in Entries /\ handlers \in Entries
  /\ saved \in [servers : SUBSET Servers, tools : Entries]
  /\ lagging \in BOOLEAN /\ dropped \subseteq Servers

RegistryInit ==
  /\ servers = {} /\ tools = NoEntry /\ handlers = NoEntry
  /\ saved = [servers |-> {}, tools |-> NoEntry] /\ lagging = FALSE /\ dropped = {}

\* saveRegistry: errors are swallowed, for a storage that is read-only.
saveRegistry(ss, ts) ==
  \/ saved' = [servers |-> ss, tools |-> ts] /\ lagging' = FALSE
  \/ UNCHANGED saved /\ lagging' = TRUE

\* registerTool: the server need not be registered nor its name be proper. The entry is
\* replaced; without a handler the key keeps the one it had, whoever bound it.
registerTool(s, name, withHandler) ==
  /\ tools' = Bound(tools, Named(s, {name}), s)
  /\ handlers' = IF withHandler THEN Bound(handlers, Named(s, {name}), s) ELSE handlers
  /\ saveRegistry(servers, tools') /\ dropped' = dropped \ {s}
  /\ UNCHANGED servers

\* registerServer: tools of an earlier registration stay; a malformed entry throws
\* after the entries before it were registered and saved, so that any subset may be.
registerServer(s) ==
  /\ s \in Proper
  /\ servers' = servers \cup {s} /\ dropped' = dropped \ {s}
  /\ \E new \in SUBSET ToolNames, bound \in SUBSET ToolNames :
       /\ bound \subseteq new
       /\ tools' = Bound(tools, Named(s, new), s)
       /\ handlers' = Bound(handlers, Named(s, bound), s)
       /\ \/ saveRegistry(servers', tools')
          \/ new = {} /\ UNCHANGED <<saved, lagging>>

\* Mutant: the tools of the server are left in the map.
NoneOf(s) == {}
\* The keys under which tools of s are registered.
EntriesOf(s) == {a \in Actions : tools[a] = s}

\* unregisterServer: a server that is not in the map is refused, its tools stay.
unregisterServer(s) ==
  /\ s \in servers
  /\ servers' = servers \ {s}
  /\ tools' = Bound(tools, EntriesOf(s), NoServer)
  /\ handlers' = Bound(handlers, EntriesOf(s), NoServer)
  /\ saveRegistry(servers', tools') /\ dropped' = dropped \cup {s}

\* A new process reads the file: no tool has a handler, and calls are answered with
\* an envelope of their own.
Reload ==
  /\ servers' = saved.servers /\ tools' = saved.tools /\ handlers' = NoEntry
  /\ dropped' = IF lagging THEN dropped \ {saved.tools[a] : a \in Actions} ELSE dropped
  /\ lagging' = FALSE /\ UNCHANGED saved

\* executeMcpTool's first test; sanitizeArguments may then still refuse the call.
Callable(a) == tools[a] # NoServer

RegistryNext ==
  \/ \E s \in Servers : registerServer(s) \/ unregisterServer(s)
  \/ \E s \in Servers, name \in ToolNames, withHandler \in BOOLEAN :
       registerTool(s, name, withHandler)
  \/ Reload
RegistrySpec == RegistryInit /\ [][RegistryNext]_registryVars

\* No tool of an unregistered server can be called: not in this process, and not
\* after a restart either unless the save was swallowed; and no handler outlives its
\* entry, so that registering the name again cannot revive it. A handler of such a
\* server can be reached only where another server's tool took over its key.
UnregisteredStaysGone ==
  /\ \A a \in Actions : tools[a] \notin dropped
  /\ \A a \in Actions : handlers[a] # NoServer => Callable(a)
=============================================================================
