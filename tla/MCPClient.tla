----------------------------- MODULE MCPClient -----------------------------
(***************************************************************************)
(* MCPClient: one session per configured server, opened by start() and     *)
(* released by stop().  Connecting, listing tools and closing are awaits:  *)
(* each can fail, and the task can be cancelled in each.                   *)
(*                                                                         *)
(* The SDK connector enters a transport and a session per server on the    *)
(* exit stack and only then initializes the session, so a server can be    *)
(* half connected.  A custom connector returns a session that has a closer *)
(* of its own.  `open` is the world: what really is open.                  *)
(***************************************************************************)
EXTENDS Integers, Sequences, FiniteSets, SequencesExt

CONSTANTS
    Servers,        \* how many servers are configured
    Specs,          \* what a server may advertise: tool names, or Nameless
    Nameless,       \* a spec without a usable name
    MaxCycles       \* bound on the calls of start() and stop()

ASSUME ClientAssumption == Servers \in Nat /\ MaxCycles \in Nat

VARIABLES
    connector,      \* "sdk" or "custom"
    phase,          \* where the task is
    server,         \* the server start() is at
    sessions,       \* self._sessions, as server numbers
    tools,          \* self._tools, as <<server, name>> pairs
    exitStack,          \* self._exit_stack
    closing,        \* the sessions stop() has still to close
    open,           \* what is open: <<server, "transport">>, <<server, "session">>
    cut,            \* a stop() was cancelled between two closers
    cycles

mcpVars == <<connector, phase, server, sessions, tools, exitStack, closing, open, cut, cycles>>

MCPInit ==
    /\ connector \in {"sdk", "custom"}
    /\ phase = "rest" /\ server = 0 /\ sessions = <<>> /\ tools = {} /\ exitStack = <<>>
    /\ closing = <<>> /\ open = {} /\ cut = FALSE /\ cycles = 0

(* start() returns at once when there is anything of an earlier one. *)
StartClient ==
    /\ phase = "rest" /\ cycles < MaxCycles
    /\ cycles' = cycles + 1
    /\ IF sessions # <<>> \/ tools # {} \/ Servers = 0
       THEN UNCHANGED <<phase, server>>
       ELSE phase' = "connect" /\ server' = 1
    /\ UNCHANGED <<connector, sessions, tools, exitStack, closing, open, cut>>

(* _default_connect: the transport, then the session, go on the stack. *)
EnterContext ==
    /\ connector = "sdk" /\ phase \in {"connect", "transport"}
    /\ LET entered == <<server, IF phase = "connect" THEN "transport" ELSE "session">>
       IN  exitStack' = Append(exitStack, entered) /\ open' = open \cup {entered}
    /\ phase' = IF phase = "connect" THEN "transport" ELSE "initialize"
    /\ UNCHANGED <<connector, server, sessions, tools, closing, cut, cycles>>

(* The connector returns: initialize() of the SDK, or a custom session. *)
Connected ==
    /\ \/ phase = "initialize" /\ UNCHANGED open
       \/ connector = "custom" /\ phase = "connect"
            /\ open' = open \cup {<<server, "session">>}
    /\ sessions' = Append(sessions, server)
    /\ phase' = "list"
    /\ UNCHANGED <<connector, server, tools, exitStack, closing, cut, cycles>>

(* list_tools(): a proxy for every spec that has a name. *)
ListTools ==
    /\ phase = "list"
    /\ \E specs \in SUBSET Specs :
        tools' = tools \cup {<<server, n>> : n \in specs \ {Nameless}}
    /\ IF server = Servers THEN phase' = "rest" /\ server' = 0
       ELSE phase' = "connect" /\ server' = server + 1
    /\ UNCHANGED <<connector, sessions, exitStack, closing, open, cut, cycles>>

(* stop() walks the sessions backwards and then unwinds the stack. *)
BeginStop ==
    /\ closing' = Reverse(sessions)
    /\ phase' = "close"

(* An await of start() fails or is cancelled: stop(), then raise. *)
Mutant_StartFails ==
    /\ phase \in {"connect", "transport", "initialize", "list"}
    /\ BeginStop \/ (phase' = "rest" /\ UNCHANGED closing)   \* not for CancelledError
    /\ server' = 0
    /\ UNCHANGED <<connector, sessions, tools, exitStack, open, cut, cycles>>

StartFails ==
    /\ phase \in {"connect", "transport", "initialize", "list"}
    /\ BeginStop
    /\ server' = 0
    /\ UNCHANGED <<connector, sessions, tools, exitStack, open, cut, cycles>>

StopClient ==
    /\ phase = "rest" /\ cycles < MaxCycles
    /\ cycles' = cycles + 1
    /\ BeginStop
    /\ UNCHANGED <<connector, server, sessions, tools, exitStack, open, cut>>

(* A closer; one that raises has closed as much as it could. *)
CloseSession ==
    /\ phase = "close" /\ closing # <<>>
    /\ open' = IF connector = "custom" THEN open \ {<<Head(closing), "session">>} ELSE open
    /\ closing' = Tail(closing)
    /\ UNCHANGED <<connector, phase, server, sessions, tools, exitStack, cut, cycles>>

(* Cancelled in a closer: CancelledError is no Exception, stop() is over. *)
StopCancelled ==
    /\ connector = "custom" /\ phase = "close" /\ closing # <<>>
    /\ open' \in {open, open \ {<<Head(closing), "session">>}}
    /\ phase' = "rest" /\ closing' = <<>>
    /\ cut' = TRUE
    /\ UNCHANGED <<connector, server, sessions, tools, exitStack, cycles>>

Forget ==
    /\ phase = "close" /\ closing = <<>>
    /\ sessions' = <<>> /\ tools' = {}
    /\ phase' = "unwind"
    /\ UNCHANGED <<connector, server, exitStack, closing, open, cut, cycles>>

(* AsyncExitStack.aclose(): every callback runs, whatever the others raise *)
(* and even when the task is cancelled meanwhile; the stack is then empty. *)
Unwind ==
    /\ phase = "unwind"
    /\ open' = open \ {exitStack[i] : i \in DOMAIN exitStack}
    /\ exitStack' = <<>>
    /\ phase' = "rest"
    /\ cut' = (cut /\ open' # {})
    /\ UNCHANGED <<connector, server, sessions, tools, closing, cycles>>

MCPNext ==
    \/ StartClient \/ EnterContext \/ Connected \/ ListTools \/ StartFails
    \/ StopClient \/ CloseSession \/ StopCancelled \/ Forget \/ Unwind

MCPSpec == MCPInit /\ [][MCPNext]_mcpVars

-----------------------------------------------------------------------------
(* What is open is always reachable from the client, so that a stop() can  *)
(* release it; once start() has failed or stop() has returned nothing is   *)
(* open; and the tools the client provides belong to open sessions.  The   *)
(* last two leave out a client whose stop() was cancelled between two      *)
(* closers: it still lists sessions that it has closed, and start()        *)
(* returns at once on it.                                                  *)
SessionsOwned ==
    /\ open \subseteq {<<s, "session">> : s \in {sessions[i] : i \in DOMAIN sessions}}
                        \cup {exitStack[i] : i \in DOMAIN exitStack}
    /\ phase = "rest" /\ ~cut => open = {} \/ Len(sessions) = Servers
    /\ phase = "rest" /\ ~cut => \A t \in tools : <<t[1], "session">> \in open
=============================================================================
