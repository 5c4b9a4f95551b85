---------------------------- MODULE CommandCheck ----------------------------
(***************************************************************************)
(* WorkspaceSandbox.check_shell: a command string is accepted or refused   *)
(* from what a scan finds in it, before it runs.  The scan is taken as     *)
(* given: a command here is its programs, its cd targets, one redirection  *)
(* and whether it loops.  What the shell then does is for the shell to     *)
(* decide: any cd may fail, be skipped or undone by a subshell, and a loop *)
(* runs it again.                                                          *)
(*                                                                         *)
(* A path is the sequence of its names from "/".                           *)
(***************************************************************************)
EXTENDS Integers, Sequences, FiniteSets

CONSTANTS
    Programs, Allowed, Denied,  \* program names, the allowlist and the denylist
    MaxTrackedCds,  \* _MAX_TRACKED_CDS
    MaxCds          \* bound on the cd commands of a string

ASSUME CommandAssumption == MaxCds \in Nat

Root == <<"work">>

(* The directories that exist. *)
Dirs == {<<>>, Root, <<"work", "sub">>, <<"work", "sub", "sub">>, <<"else">>}

Inside(p) == Len(p) >= 1 /\ p[1] = "work"

(* What a cd or a redirection names: a literal relative or absolute path,  *)
(* or, for a cd, nothing the scan could read (None in the code).           *)
CdTargets ==
    {[kind |-> "relative", parts |-> <<"sub">>], [kind |-> "relative", parts |-> <<"..">>],
     [kind |-> "absolute", parts |-> <<"else">>], [kind |-> "unknown", parts |-> <<>>]}

Redirects ==
    {[kind |-> k, parts |-> <<>>] : k \in {"none", "device", "network"}}
        \cup [kind : {"relative"}, parts : {<<"file">>, <<"..", "file">>, <<"sub", "file">>}]
        \cup [kind : {"absolute"}, parts : {<<"work", "file">>, <<"else", "file">>}]

Commands ==
    [program : Programs, opaque : BOOLEAN, assigns : BOOLEAN, repeats : BOOLEAN,
     cds : UNION {[1..n -> CdTargets] : n \in 0..MaxCds}, redirect : Redirects]

(* Path.resolve() of `parts` below p. *)
Resolve(p, parts) ==
    LET up[n \in 0..Len(parts)] ==
            IF n = 0 THEN p
            ELSE IF parts[n] = ".."
                 THEN SubSeq(up[n - 1], 1, Len(up[n - 1]) - 1)
                 ELSE Append(up[n - 1], parts[n])
    IN  up[Len(parts)]

Locate(p, target) ==
    IF target.kind = "absolute" THEN target.parts ELSE Resolve(p, target.parts)

(* check_command *)
CheckCommand(program) == program \notin Denied /\ program \in Allowed

(* _possible_cwds: start and any in-order subset of the cd targets; {} when *)
(* that cannot be known.                                                    *)
Mutant_PossibleCwds(start, command) ==
    IF command.cds = <<>> THEN {start}
    ELSE IF \/ command.repeats \/ Len(command.cds) > MaxTrackedCds
            \/ \E i \in DOMAIN command.cds : \/ command.cds[i].kind # "relative"
                                             \/ command.cds[i].parts = <<"..">>
    THEN {}
    ELSE LET after[n \in 0..Len(command.cds)] ==
                IF n = 0 THEN start ELSE Resolve(after[n - 1], command.cds[n].parts)
         IN  {after[Len(command.cds)]}

PossibleCwds(start, command) ==
    IF command.cds = <<>> THEN {start}
    ELSE IF \/ command.repeats \/ Len(command.cds) > MaxTrackedCds
            \/ \E i \in DOMAIN command.cds : \/ command.cds[i].kind # "relative"
                                             \/ command.cds[i].parts = <<"..">>
    THEN {}
    ELSE LET after[n \in 0..Len(command.cds)] ==
                IF n = 0 THEN {start}
                ELSE after[n - 1] \cup {Resolve(p, command.cds[n].parts) : p \in after[n - 1]}
         IN  after[Len(command.cds)]

(* _check_redirect *)
CheckRedirect(target, cwds) ==
    CASE target.kind \in {"none", "device"} -> TRUE
      [] target.kind = "network" -> FALSE
      [] target.kind = "absolute" -> Inside(target.parts)
      [] OTHER -> cwds # {} /\ \A p \in cwds : Inside(Resolve(p, target.parts))

CheckShell(start, command) ==
    /\ CheckCommand(command.program)
    /\ ~command.opaque /\ ~command.assigns
    /\ CheckRedirect(command.redirect, PossibleCwds(start, command))

-----------------------------------------------------------------------------
(* The shell: where a command may be after n of its cd commands, in one    *)
(* pass over them.  An unknown target may be any directory.                *)
Pass(from, cds) ==
    LET at[n \in 0..Len(cds)] ==
            IF n = 0 THEN from
            ELSE at[n - 1] \cup
                 (Dirs \cap (IF cds[n].kind = "unknown" THEN Dirs
                             ELSE {Locate(p, cds[n]) : p \in at[n - 1]}))
    IN  at[Len(cds)]

(* Every directory a command may be in at some point, a loop running twice. *)
Visits(start, command) ==
    LET once == Pass({start}, command.cds)
    IN  IF command.repeats THEN Pass(once, command.cds) ELSE once

(* The files its redirection may write, wherever it stands. *)
Writes(start, command) ==
    IF command.redirect.kind \in {"relative", "absolute"}
    THEN {Locate(p, command.redirect) : p \in Visits(start, command)}
    ELSE {}
=============================================================================
