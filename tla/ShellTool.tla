----------------------------- MODULE ShellTool -----------------------------
(***************************************************************************)
(* The shell tool: calls of one session, several of which may run at once, *)
(* that share the session's working directory, and the process group each  *)
(* one starts.                                                             *)
(*                                                                         *)
(* A call takes a ticket under the lock, runs its command and applies the  *)
(* directory and the variables the command ended with.  Its process group  *)
(* is the leader and the helpers it left behind: one that holds the output *)
(* pipe, one that does not, and a daemon that has left the group and holds *)
(* the pipe.  Directories are not removed while calls run, and the number  *)
(* of variables stays below the cap; one of them is modelled.              *)
(***************************************************************************)
EXTENDS CommandCheck, FiniteSetsExt

CONSTANTS
    ShellCalls,     \* calls of the tool
    Nowhere,        \* no directory
    Keep            \* no entry for the variable

ASSUME ShellAssumption == Keep \notin ShellCalls \cup {"scrubbed", "unset"}

VARIABLES
    mode,           \* how commands run: "allowlist" in a sandbox that has one,
                    \* "free" locally or without one, "argv" without shell support
    cwd,            \* ShellState.cwd, Root for None
    env,            \* the variable in ShellState.env: Keep when it is not there
    seq, cwdSeq,    \* ShellState.seq and .cwd_seq
    shell,          \* the calls
    alive,          \* the processes of each call that are running
    strays,         \* the files outside the root that a redirection wrote
    moves,          \* history: <<ticket, directory>> of the calls that moved
    assigned        \* history: what the last call to change the variable left in it

shellVars == <<mode, cwd, env, seq, cwdSeq, shell, alive, strays, moves, assigned>>
session == <<mode, cwd, env, cwdSeq, moves, assigned>>

Group == {"leader", "attached", "detached"}
Holders == {"leader", "attached", "daemon"}     \* of the output pipe

(* The variable as a command finds it: set by the scrubbed environment     *)
(* unless the session has set or unset it.                                 *)
Seen(overlay) == IF overlay = Keep THEN "scrubbed" ELSE overlay

ShellInit(modes) ==
    /\ mode \in modes
    /\ cwd = Root /\ env = Keep /\ seq = 0 /\ cwdSeq = 0
    /\ shell = [c \in ShellCalls |-> [phase |-> "new", ticket |-> 0, started |-> Root,
                                      before |-> Seen(Keep), after |-> Seen(Keep),
                                      end |-> Nowhere, timedOut |-> FALSE]]
    /\ alive = [c \in ShellCalls |-> {}]
    /\ strays = {} /\ moves = {} /\ assigned = Keep

Enter(c, from, to) ==
    /\ shell[c].phase = from
    /\ shell' = [shell EXCEPT ![c].phase = to]

(* Shell.run: the ticket and the directory are read together, then the     *)
(* environment is copied.                                                  *)
Issue(c) ==
    /\ shell[c].phase = "new"
    /\ shell' = [shell EXCEPT ![c].phase = "issued", ![c].ticket = seq, ![c].started = cwd,
                              ![c].before = Seen(env)]
    /\ seq' = seq + 1
    /\ UNCHANGED <<session, alive, strays>>

(* run_shell with an allowlist: where an accepted command may end and what *)
(* it may write outside the root, by the directory it starts in.  It sets  *)
(* no variable.                                                            *)
AllowedEffects ==
    [start \in {d \in Dirs : Inside(d)} |->
        UNION {[end : Visits(start, command),
                strays : {{}, {f \in Writes(start, command) : ~Inside(f)}}] :
                    command \in {x \in Commands : CheckShell(start, x)}}]

(* Without an allowlist only denied programs are refused, and nothing is   *)
(* said of a command's redirections.                                       *)
FreeEffects == [end : Dirs, strays : {{}}]

(* run_command, when the sandbox has no run_shell: the command runs in the *)
(* root and reports no state.                                              *)
ArgvEffects == {[end |-> Nowhere, strays |-> {}]}

Effects(start) ==
    CASE mode = "allowlist" -> AllowedEffects[start]
      [] mode = "free" -> FreeEffects
      [] mode = "argv" -> ArgvEffects

(* run_shell raises SandboxViolation, or Popen an OSError. *)
Refuse(c) ==
    /\ Enter(c, "issued", "returned")
    /\ UNCHANGED <<session, seq, alive, strays>>

Launch(c) ==
    /\ shell[c].phase = "issued"
    /\ \E effect \in Effects(shell[c].started), helpers \in SUBSET {"attached", "detached", "daemon"} :
        /\ shell' = [shell EXCEPT ![c].phase = "running", ![c].end = effect.end]
        /\ alive' = [alive EXCEPT ![c] = {"leader"} \cup helpers]
        /\ strays' = strays \cup effect.strays
    /\ UNCHANGED <<session, seq>>

HelperEnds(c, h) ==
    /\ h \in alive[c] \ {"leader"}
    /\ alive' = [alive EXCEPT ![c] = @ \ {h}]
    /\ UNCHANGED <<session, seq, shell, strays>>

(* ShellInvocation.parse: the trailer tells where the command ended and    *)
(* the environment it left, if it was printed whole; a directory outside   *)
(* the root counts as the root.                                            *)
Trailers(c) ==
    {[end |-> Nowhere, after |-> shell[c].before]} \cup
    (IF shell[c].end = Nowhere THEN {}
     ELSE [end : {IF Inside(shell[c].end) THEN shell[c].end ELSE Root},
           after : {shell[c].before} \cup (IF mode = "free" THEN {c, "unset"} ELSE {})])

(* _env_changes: what to put in the session's environment. *)
Mutant_EnvChanges(before, after) == after

EnvChanges(before, after) == IF before = after THEN Keep ELSE after

(* _kill_group *)
Mutant_KillGroup(c) == alive' = [alive EXCEPT ![c] = @ \ {"leader"}]

KillGroup(c) == alive' = [alive EXCEPT ![c] = @ \ Group]

(* _apply_env_changes *)
Merge(change) == IF change = Keep THEN env ELSE change

(* The leader exits within the timeout. *)
LeaderExits(c) ==
    /\ shell[c].phase = "running"
    /\ \E got \in Trailers(c) :
        shell' = [shell EXCEPT ![c].phase = "exited", ![c].end = got.end, ![c].after = got.after]
    /\ alive' = [alive EXCEPT ![c] = @ \ {"leader"}]
    /\ UNCHANGED <<session, seq, strays>>

(* It does not: the group is killed, and what was printed is kept. *)
TimesOut(c) ==
    /\ shell[c].phase = "running"
    /\ \E got \in Trailers(c) :
        shell' = [shell EXCEPT ![c].phase = "draining", ![c].end = got.end,
                               ![c].after = got.after, ![c].timedOut = TRUE]
    /\ KillGroup(c)
    /\ UNCHANGED <<session, seq, strays>>

(* The readers see the end of the output, ... *)
OutputEnds(c) ==
    /\ alive[c] \cap Holders = {}
    /\ Enter(c, "exited", "collected")
    /\ UNCHANGED <<session, seq, alive, strays>>

(* ... or it stays open past _LINGER_GRACE and the group is stopped. *)
Lingers(c) ==
    /\ alive[c] \cap Holders # {}
    /\ Enter(c, "exited", "draining")
    /\ KillGroup(c)
    /\ UNCHANGED <<session, seq, strays>>

(* The readers end, or _DRAIN_TIMEOUT does: a daemon may never close. *)
Mutant_Drained(c) ==
    /\ alive[c] \cap Holders = {}
    /\ Enter(c, "draining", "collected")
    /\ UNCHANGED <<session, seq, alive, strays>>

Drained(c) ==
    /\ Enter(c, "draining", "collected")
    /\ UNCHANGED <<session, seq, alive, strays>>

(* run_process: an exception in _collect kills the group and goes on. *)
Interrupted(c) ==
    /\ shell[c].phase \in {"running", "exited", "draining"}
    /\ shell' = [shell EXCEPT ![c].phase = "raised"]
    /\ KillGroup(c)
    /\ UNCHANGED <<session, seq, strays>>

(* Shell.run, under the lock: a call issued earlier does not overwrite the *)
(* directory; the variables are those of the last to finish.               *)
Mutant_Move(c) ==
    IF shell[c].end \notin {Nowhere, shell[c].started}
    THEN /\ moves' = moves \cup {<<shell[c].ticket, shell[c].end>>}
         /\ cwd' = shell[c].end /\ cwdSeq' = shell[c].ticket
    ELSE UNCHANGED <<cwd, cwdSeq, moves>>

Move(c) ==
    IF shell[c].end \notin {Nowhere, shell[c].started}
    THEN /\ moves' = moves \cup {<<shell[c].ticket, shell[c].end>>}
         /\ IF shell[c].ticket >= cwdSeq
            THEN cwd' = shell[c].end /\ cwdSeq' = shell[c].ticket
            ELSE UNCHANGED <<cwd, cwdSeq>>
    ELSE UNCHANGED <<cwd, cwdSeq, moves>>

Apply(c) ==
    /\ Enter(c, "collected", "returned")
    /\ Move(c)
    /\ env' = Merge(EnvChanges(shell[c].before, shell[c].after))
    /\ assigned' = IF shell[c].after = shell[c].before THEN assigned ELSE shell[c].after
    /\ UNCHANGED <<mode, seq, alive, strays>>

ShellStep(c) ==
    \/ Refuse(c) \/ Launch(c) \/ LeaderExits(c) \/ TimesOut(c) \/ OutputEnds(c)
    \/ Lingers(c) \/ Drained(c) \/ Apply(c)

ShellNext ==
    \E c \in ShellCalls :
        \/ Issue(c) \/ ShellStep(c) \/ Interrupted(c)
        \/ \E h \in Holders \cup Group : HelperEnds(c, h)

ShellSpec == ShellInit({"allowlist", "free", "argv"}) /\ [][ShellNext]_shellVars

(* Every wait of a call has a time limit, so its thread goes on; no helper *)
(* need ever end.                                                          *)
ShellFairness == \A c \in ShellCalls : WF_shellVars(ShellStep(c))

-----------------------------------------------------------------------------
(* Calls at once do not undo each other: the session's directory is where  *)
(* the latest issued of the calls that changed it ended, in whatever order *)
(* they finished, and a variable is as the last call that changed it left  *)
(* it, whatever the others found in it.                                    *)
SessionIsLatest ==
    /\ IF moves = {} THEN cwd = Root
       ELSE <<Max({m[1] : m \in moves}), cwd>> \in moves
    /\ env = assigned

(* A call that timed out or was interrupted leaves nothing of its process  *)
(* group running; one that returned leaves nothing that held its output.   *)
GroupGone ==
    \A c \in ShellCalls :
        /\ shell[c].phase = "raised" \/ (shell[c].phase = "returned" /\ shell[c].timedOut)
             => alive[c] \cap Group = {}
        /\ shell[c].phase = "returned" => alive[c] \cap Group \cap Holders = {}

(* With an allowlist, no redirection of an accepted command writes outside *)
(* the root, whichever of its cd commands take effect and wherever the     *)
(* calls before it have left the session.                                  *)
RedirectsConfined == mode = "allowlist" => strays = {}

(* Every call ends, even when a process it left holds its output open. *)
ShellCallsEnd ==
    \A c \in ShellCalls :
        (shell[c].phase = "issued") ~> (shell[c].phase \in {"returned", "raised"})
=============================================================================
