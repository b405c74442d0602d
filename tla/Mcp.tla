-------------------------------- MODULE Mcp --------------------------------
(***************************************************************************)
(* MCP servers: mcp.json, which manage_mcp (src/tools/manage_mcp.rs) saves *)
(* through a temporary file and a workflow's connect_mcp nodes overwrite   *)
(* (src/workflow/executor.rs), the connections of the McpManager           *)
(* (src/mcp.rs), and the tools that agents get from them at start and by a *)
(* hot reload after a change (src/core/agent.rs).                          *)
(*                                                                         *)
(* Several runs change servers at once; connecting a server or asking for  *)
(* its tools may fail; the process may crash between any two steps.        *)
(***************************************************************************)
EXTENDS Integers, Sequences, SavedFile

CONSTANTS Users,    \* runs of agents
          Servers,  \* names of servers
          Offers    \* Offers[v]: the tools of a server configured as v

Versions == DOMAIN Offers
ASSUME McpAssumption ==
  /\ Len(Offers) \in Nat /\ Versions = 1 .. Len(Offers)
  /\ \A S \in SUBSET Servers : Torn \notin [S -> Versions] /\ Absent \notin [S -> Versions]

VARIABLES
  mcp,      \* mcp.json and mcp.json.tmp: the version of each server in it
  used,     \* versions given so far, over all servers
  change,   \* change[u]: the step of a run's change and its local variables
  holder,   \* who holds the manager's lock: no run or one
  handles,  \* the connections the manager keeps: server and version
  tools,    \* the agent's MCP tools: server, tool, version
  reported, \* history: what the changes that were answered for amount to
  muddled   \* history: two changes overlapped, one was cut off in place, or
            \* one could not read the file

mcpVars == <<mcp, used, change, holder, handles, tools, reported, muddled>>

NoChange == [at |-> "idle", name |-> CHOOSE s \in Servers : TRUE, config |-> <<>>, version |-> 0]

(* A set of servers and their versions: no file, or one that cannot be     *)
(* read or parsed, has none (load_config and the connect_mcp node).        *)
NoServers == [s \in {} |-> 0]
LoadConfig == IF mcp.file \in {Torn, Absent} THEN NoServers ELSE mcp.file
With(config, s, v) == [n \in DOMAIN config \cup {s} |-> IF n = s THEN v ELSE config[n]]
Without(config, s) == [n \in DOMAIN config \ {s} |-> config[n]]

InitMcp ==
  /\ mcp = Saved(Absent) /\ used = 0
  /\ change = [u \in Users |-> NoChange] /\ holder = {}
  /\ handles = {} /\ tools = {}
  /\ reported = NoServers /\ muddled = FALSE

-----------------------------------------------------------------------------
Saving(u) == change[u].at \in {"create", "fill", "rename", "truncate", "write"}
Reloading(u) == change[u].at \in {"reload", "connecting", "register"}
StepTo(u, to) == change' = [change EXCEPT ![u].at = to]
EndChange(u) == change' = [change EXCEPT ![u] = NoChange]

(* A change reads the file, and knows what it is going to write.           *)
BeginChange(u, s, at, loaded, config, v) ==
  /\ change[u].at = "idle"
  /\ change' = [change EXCEPT ![u] = [at |-> at, name |-> s, config |-> config, version |-> v]]
  /\ muddled' = (muddled \/ loaded # LoadConfig
                   \/ \E o \in Users \ {u} : Saving(o) \/ (Reloading(o) /\ change[o].name = s))
  /\ UNCHANGED <<mcp, holder, handles, tools, reported>>

(* handle_add, and the connect_mcp node: the server is new or replaced.    *)
Put(u, s, at) ==
  /\ used + 1 \in Versions /\ used' = used + 1
  /\ \E loaded \in {LoadConfig, NoServers} :
       BeginChange(u, s, at, loaded, With(loaded, s, used + 1), used + 1)
HandleAdd(u, s) == Put(u, s, "create")
ConnectMcpNode(u, s) == Put(u, s, "truncate")

HandleRemove(u, s) ==
  /\ s \in DOMAIN LoadConfig
  /\ BeginChange(u, s, "create", LoadConfig, Without(LoadConfig, s), 0)
  /\ UNCHANGED used

Answered(u) ==
  reported' = IF change[u].version = 0 THEN Without(reported, change[u].name)
              ELSE With(reported, change[u].name, change[u].version)

(* save_config: create, fill, rename, then the answer; post_tool_hook      *)
(* reloads after an add.  A failing step ends the call with an error.      *)
SaveServers(u) ==
  /\ \/ change[u].at = "create" /\ mcp' = Emptied(mcp) /\ StepTo(u, "fill") /\ UNCHANGED reported
     \/ /\ change[u].at = "fill" /\ mcp' = Filled(mcp, change[u].config) /\ StepTo(u, "rename")
        /\ UNCHANGED reported
     \/ /\ change[u].at = "rename" /\ mcp' = Renamed(mcp) /\ Answered(u)
        /\ IF change[u].version = 0 THEN EndChange(u) ELSE StepTo(u, "reload")
     \/ /\ change[u].at \in {"create", "fill", "rename"} /\ EndChange(u)
        /\ UNCHANGED <<mcp, reported>>
  /\ UNCHANGED <<used, holder, handles, tools, muddled>>

(* The node's std::fs::write empties mcp.json itself, then fills it; the   *)
(* node fails when that does.  The reload follows when the whole workflow  *)
(* succeeds.                                                               *)
OverwriteServers(u) ==
  /\ \/ /\ change[u].at = "truncate" /\ mcp' = [mcp EXCEPT !.file = Torn] /\ StepTo(u, "write")
        /\ UNCHANGED <<reported, muddled>>
     \/ /\ change[u].at = "write" /\ mcp' = [mcp EXCEPT !.file = change[u].config]
        /\ Answered(u) /\ (StepTo(u, "reload") \/ EndChange(u))
        /\ UNCHANGED muddled
     \/ /\ change[u].at \in {"truncate", "write"} /\ EndChange(u)
        /\ muddled' = (muddled \/ change[u].at = "write") /\ UNCHANGED <<mcp, reported>>
  /\ UNCHANGED <<used, holder, handles, tools>>

-----------------------------------------------------------------------------
(* connect_new_mcp_servers: the lock, then connect_servers_by_name reads   *)
(* the file again, which may fail: it may not parse, or not hold the       *)
(* server any more.                                                        *)
LockManager(u) ==
  /\ change[u].at = "reload" /\ holder = {}
  /\ \/ /\ change[u].name \in DOMAIN LoadConfig
        /\ change' = [change EXCEPT ![u].at = "connecting",
                                    ![u].version = LoadConfig[change[u].name]]
        /\ holder' = {u}
     \/ EndChange(u) /\ UNCHANGED holder
  /\ UNCHANGED <<mcp, used, handles, tools, reported, muddled>>

(* connect_server: a connection to the command or the URL, or an error.    *)
ConnectServer(u) == {{}, {<<change[u].name, change[u].version>>}}

(* list_all_tools may fail too, or list none.  The connection is kept, the *)
(* lock dropped.                                                           *)
Connect(u) ==
  /\ change[u].at = "connecting" /\ holder' = {}
  /\ \E connection \in ConnectServer(u) :
       /\ handles' = handles \cup connection
       /\ \/ EndChange(u)
          \/ connection # {} /\ Offers[change[u].version] # {} /\ StepTo(u, "register")
  /\ UNCHANGED <<mcp, used, tools, reported, muddled>>

ToolsOf(s, v) == {s} \X Offers[v] \X {v}

\* Mutant: the tools of the same name stay, and come first.
RetainAll(new) == tools

(* The agent's other tools: those without the name of a new one.           *)
Retained(new) == {t \in tools : ~ \E n \in new : n[1] = t[1] /\ n[2] = t[2]}

RegisterTools(u) ==
  LET new == ToolsOf(change[u].name, change[u].version)
  IN  /\ change[u].at = "register"
      /\ tools' = Retained(new) \cup new
      /\ EndChange(u)
      /\ UNCHANGED <<mcp, used, holder, handles, reported, muddled>>

(* The process ends, at any step, and the next one connects the servers of *)
(* mcp.json that it reaches (McpManager::init).                            *)
RestartMcp ==
  /\ \E reached \in SUBSET DOMAIN LoadConfig :
       /\ handles' = {<<s, LoadConfig[s]>> : s \in reached}
       /\ \E listed \in SUBSET reached :
            tools' = UNION {ToolsOf(s, LoadConfig[s]) : s \in listed}
  /\ change' = [u \in Users |-> NoChange] /\ holder' = {}
  /\ muddled' = (muddled \/ \E u \in Users : change[u].at = "write")
  /\ UNCHANGED <<mcp, used, reported>>

NextMcp ==
  \/ \E u \in Users :
       \/ \E s \in Servers : HandleAdd(u, s) \/ ConnectMcpNode(u, s) \/ HandleRemove(u, s)
       \/ SaveServers(u) \/ OverwriteServers(u)
       \/ LockManager(u) \/ Connect(u) \/ RegisterTools(u)
  \/ RestartMcp

McpSpec == InitMcp /\ [][NextMcp]_mcpVars

-----------------------------------------------------------------------------
(* The servers whose change was answered for are in mcp.json, whatever     *)
(* step of a later manage_mcp call failed or the process ended in.  (Two   *)
(* changes at once overwrite each other, a crash or an error while a       *)
(* connect_mcp node writes leaves no servers at all, and a change that     *)
(* could not read the file writes its own server only.)                    *)
ServersSurvive ==
  (~muddled /\ \A u \in Users : ~Saving(u)) => LoadConfig = reported

(* A tool runs on a connection that is kept; and once the changes of a     *)
(* server are over, what its configuration in mcp.json offers is not run   *)
(* by an earlier one: an update replaces the tools it brings, beside       *)
(* updates of other servers and crashes, if the server can be reached.     *)
NewestServes ==
  /\ \A t \in tools : <<t[1], t[3]>> \in handles
  /\ ~muddled => \A s \in DOMAIN LoadConfig :
       (\A u \in Users : ~Saving(u) /\ ~(Reloading(u) /\ change[u].name = s))
         => \/ \A t \in tools : t[1] # s \/ t[3] # LoadConfig[s]
            \/ \A t \in tools : (t[1] = s /\ t[2] \in Offers[LoadConfig[s]]) => t[3] = LoadConfig[s]
=============================================================================
