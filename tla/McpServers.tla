----------------------------- MODULE McpServers -----------------------------
(***************************************************************************)
(* McpServerManager and McpToolRegistry over the life of the backend: the  *)
(* enabled servers of config/mcp-config.json are started one after the     *)
(* other, then their tools are listed and registered one after the other,  *)
(* then the port is opened; when the application closes, the servers are   *)
(* stopped.  The container of a stdio server takes five calls of Docker to *)
(* start.  Docker and the servers are external: every call may fail, and a *)
(* container may exit at any moment.                                       *)
(*                                                                         *)
(* The clients are McpClient's subject: here a client connects or not and  *)
(* lists its tools or not.                                                 *)
(***************************************************************************)
EXTENDS Integers, FiniteSets

CONSTANT NumServers   \* entries of mcpServers, in their order

ASSUME ServersAssumption == NumServers \in Nat

McpNames == 1 .. NumServers

VARIABLES
    config,     \* of a server: is it enabled, and what sort is it
    stage,      \* of the application
    at,         \* the server that a loop is at
    step,       \* the call that is awaited for it, or "none"
    entries,    \* McpServerManager.servers
    container,  \* of a server
    toolsOf,    \* servers whose tools are in the ToolRegistry
    trouble     \* history: servers that something failed for

serverVars == <<config, stage, at, step, entries, container, toolsOf, trouble>>

\* "unsupported": neither url nor image, or a profile the manager does not know.
Sorts == {"http", "stdio", "unsupported"}
DockerSteps == {"create", "start", "inspect", "exec", "stream"}

ServersInit ==
    /\ config \in [McpNames -> [enabled : BOOLEAN, sort : Sorts]]
    /\ stage = "starting" /\ at = 1 /\ step = "none"
    /\ entries = {} /\ toolsOf = {} /\ trouble = {}
    /\ container = [n \in McpNames |-> "none"]

Awaits(s) == step' = s /\ UNCHANGED at
\* The loop goes on with the next server.
Advance == step' = "none" /\ at' = at + 1
Looping(s) == stage = s /\ at \in McpNames
-----------------------------------------------------------------------------
\* initialize: startServer of an enabled server, up to its first await.
StartServer ==
    /\ Looping("starting") /\ step = "none"
    /\ IF ~config[at].enabled
       THEN Advance /\ UNCHANGED trouble
       ELSE CASE config[at].sort = "http" -> Awaits("connect") /\ UNCHANGED trouble
              [] config[at].sort = "stdio" -> Awaits("create") /\ UNCHANGED trouble
              [] OTHER -> Advance /\ trouble' = trouble \union {at}
    /\ UNCHANGED <<config, stage, entries, container, toolsOf>>

\* createStandardStdioClient: a call of Docker succeeds.
DockerAnswers ==
    /\ Looping("starting") /\ step \in DockerSteps
    /\ container' = CASE step = "create" -> [container EXCEPT ![at] = "created"]
                      [] step = "start" -> [container EXCEPT ![at] = "running"]
                      [] OTHER -> container
    /\ Awaits(CASE step = "create" -> "start"
                [] step = "start" -> "inspect"
                [] step = "inspect" -> "exec"
                [] step = "exec" -> "stream"
                [] OTHER -> "connect")
    /\ UNCHANGED <<config, stage, entries, toolsOf, trouble>>

\* The client has connected: only now the manager knows the server.
Connected ==
    /\ Looping("starting") /\ step = "connect"
    /\ entries' = entries \union {at}
    /\ Advance
    /\ UNCHANGED <<config, stage, container, toolsOf, trouble>>

\* Mutant: the exception leaves the loop.
StartFailsAll ==
    /\ Looping("starting") /\ step \in DockerSteps \union {"connect"}
    /\ trouble' = trouble \union {at}
    /\ step' = "none" /\ at' = NumServers + 1
    /\ UNCHANGED <<config, stage, entries, container, toolsOf>>

\* The exception of a call ends startServer; initialize logs it and goes on.
\* A container that is there stays.
StartFails ==
    /\ Looping("starting")
    /\ step \in DockerSteps \/ (step = "connect" /\ config[at].sort = "http")
    /\ trouble' = trouble \union {at}
    /\ Advance
    /\ UNCHANGED <<config, stage, entries, container, toolsOf>>
-----------------------------------------------------------------------------
\* onModuleInit is done, onApplicationBootstrap follows; then app.listen.
StageEnds ==
    /\ stage \in {"starting", "registering"} /\ at > NumServers
    /\ stage' = IF stage = "starting" THEN "registering" ELSE "up"
    /\ at' = 1
    /\ UNCHANGED <<config, step, entries, container, toolsOf, trouble>>

\* registerAllServerTools: only a server that is RUNNING is asked.
AskForTools ==
    /\ Looping("registering") /\ step = "none"
    /\ IF config[at].enabled /\ at \in entries THEN Awaits("listTools") ELSE Advance
    /\ UNCHANGED <<config, stage, entries, container, toolsOf, trouble>>

\* registerServerTools: the tools get the name of their server in front.
RegisterTools ==
    /\ Looping("registering") /\ step = "listTools"
    /\ toolsOf' = toolsOf \union {at}
    /\ Advance
    /\ UNCHANGED <<config, stage, entries, container, trouble>>

ListFails ==
    /\ Looping("registering") /\ step = "listTools"
    /\ trouble' = trouble \union {at}
    /\ Advance
    /\ UNCHANGED <<config, stage, entries, container, toolsOf>>
-----------------------------------------------------------------------------
\* A container exits by itself.  Nothing watches: its entry stays RUNNING.
ContainerExits ==
    /\ \E n \in McpNames :
          /\ container[n] = "running"
          /\ container' = [container EXCEPT ![n] = "exited"]
          /\ trouble' = trouble \union {n}
    /\ UNCHANGED <<config, stage, at, step, entries, toolsOf>>

\* app.close(): dispose, over the servers in the order they were added in.
Close ==
    /\ stage = "up"
    /\ stage' = "stopping" /\ at' = 1
    /\ UNCHANGED <<config, step, entries, container, toolsOf, trouble>>

Forget == entries' = entries \ {at} /\ Advance

\* Mutant: a server without a container ends the loop.
StopServerReturns ==
    /\ Looping("stopping") /\ step = "none"
    /\ IF at \notin entries
       THEN Advance /\ UNCHANGED entries
       ELSE IF config[at].sort = "stdio"
       THEN Awaits("stop") /\ UNCHANGED entries
       ELSE step' = "none" /\ at' = NumServers + 1 /\ entries' = {}
    /\ UNCHANGED <<config, stage, container, toolsOf, trouble>>

\* stopServer: the client disconnects; a container is to be stopped.
StopServer ==
    /\ Looping("stopping") /\ step = "none"
    /\ IF at \notin entries
       THEN Advance /\ UNCHANGED entries
       ELSE IF config[at].sort = "stdio"
       THEN Awaits("stop") /\ UNCHANGED entries
       ELSE Forget
    /\ UNCHANGED <<config, stage, container, toolsOf, trouble>>

ContainerStops ==
    /\ Looping("stopping") /\ step = "stop"
    /\ container' = [container EXCEPT ![at] = "stopped"]
    /\ Awaits("remove")
    /\ UNCHANGED <<config, stage, entries, toolsOf, trouble>>

ContainerRemoved ==
    /\ Looping("stopping") /\ step = "remove"
    /\ container' = [container EXCEPT ![at] = "none"]
    /\ Forget
    /\ UNCHANGED <<config, stage, toolsOf, trouble>>

\* Docker refuses to stop or to remove: that is all for this container.
StopFails ==
    /\ Looping("stopping") /\ step \in {"stop", "remove"}
    /\ trouble' = trouble \union {at}
    /\ Forget
    /\ UNCHANGED <<config, stage, container, toolsOf>>

Closed ==
    /\ stage = "stopping" /\ at > NumServers
    /\ stage' = "down"
    /\ UNCHANGED <<config, at, step, entries, container, toolsOf, trouble>>

Boot ==
    \/ StartServer \/ DockerAnswers \/ Connected \/ StartFails
    \/ StageEnds \/ AskForTools \/ RegisterTools \/ ListFails

Shutdown == StopServer \/ ContainerStops \/ ContainerRemoved \/ StopFails \/ Closed

ServersNext == Boot \/ ContainerExits \/ Close \/ Shutdown

ServersSpec == ServersInit /\ [][ServersNext]_serverVars
-----------------------------------------------------------------------------
ServersTypeOK ==
    /\ config \in [McpNames -> [enabled : BOOLEAN, sort : Sorts]]
    /\ stage \in {"starting", "registering", "up", "stopping", "down"}
    /\ at \in 1 .. NumServers + 1
    /\ step \in DockerSteps \union {"none", "connect", "listTools", "stop", "remove"}
    /\ entries \subseteq McpNames /\ toolsOf \subseteq McpNames /\ trouble \subseteq McpNames
    /\ container \in [McpNames -> {"none", "created", "running", "exited", "stopped"}]

\* A server that cannot be started, or does not list its tools, costs nobody
\* else: when the port opens, every enabled server that nothing failed for is
\* RUNNING with its tools, and tools are only those of servers that run.
FailureIsIsolated ==
    /\ stage = "up" =>
          \A n \in McpNames :
              config[n].enabled /\ n \notin trouble => n \in entries /\ n \in toolsOf
    /\ stage \in {"starting", "registering", "up"} => toolsOf \subseteq entries

\* A container that the manager has no entry for is the one being started, or
\* one that something failed for: without a failure, closing leaves none.
ContainersAccounted ==
    \A n \in McpNames :
        container[n] # "none" =>
            \/ n \in entries
            \/ stage = "starting" /\ n = at
            \/ n \in trouble
=============================================================================
