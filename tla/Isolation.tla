------------------------------ MODULE Isolation ------------------------------
(***************************************************************************)
(* The isolation of sandboxed commands (plugins/sandbox/isolation.py): how *)
(* a WorkspaceSandbox picks its backend, and the view of the file system   *)
(* the backend asks the operating system for.                              *)
(*                                                                         *)
(* A path is the sequence of its names from "/".  A view is a list of      *)
(* mounts, or of profile rules, of which the last that covers a path       *)
(* decides.  What is denied on the network is left out.                    *)
(***************************************************************************)
EXTENDS SequencesExt

CONSTANTS
    Roots, Scratches,   \* where the root and the scratch directory may be
    RuntimeDirs,        \* what $XDG_RUNTIME_DIR may name: a directory, or <<>>
    RunLinks,           \* the symbolic links /run may hold, as <<link, target>>
    Exposable           \* the host paths the application may expose

ASSUME IsolationAssumption ==
    /\ Roots \cup Scratches \cup RuntimeDirs \cup Exposable \subseteq Seq(STRING)
    /\ RunLinks \subseteq Seq(STRING) \X Seq(STRING)
    /\ IsFiniteSet(RunLinks) /\ IsFiniteSet(Exposable)

VARIABLES
    host,       \* the machine: the backends that work on it and its layout
    backend,    \* the sandbox's backend: "unset", "refused" or its name
    scratch,    \* whether the scratch directory exists
    view,       \* what the last command was wrapped in
    required    \* whether require_isolation was given

isolationVars == <<host, backend, scratch, view, required>>

Backends == {"sandbox-exec", "bubblewrap"}      \* those that enforce

Hosts ==
    [works : {{}, {"sandbox-exec"}, {"bubblewrap"}}, varRun : BOOLEAN, runtime : RuntimeDirs,
     links : SUBSET RunLinks, root : Roots, tmpdir : Scratches, expose : SUBSET Exposable]

IsolationInit(hosts) ==
    /\ host \in hosts
    /\ backend = "unset" /\ view = <<>>
    /\ scratch = FALSE /\ required = FALSE

-----------------------------------------------------------------------------
(* select_backend: a name or an instance must be available, and must       *)
(* enforce where that is required; "auto" takes what there is.             *)
Select(isolation, require) ==
    IF isolation = "auto"
    THEN CASE "sandbox-exec" \in host.works -> "sandbox-exec"
           [] "bubblewrap" \in host.works -> "bubblewrap"
           [] OTHER -> IF require THEN "refused" ELSE "none"
    ELSE IF isolation = "none" THEN IF require THEN "refused" ELSE "none"
    ELSE IF isolation \in host.works THEN isolation ELSE "refused"

Within(p, parent) == IsPrefix(parent, p)

\* masked_dirs
Masks ==
    LET base == <<<<"tmp">>, <<"run">>>> \o (IF host.varRun THEN <<<<"var", "run">>>> ELSE <<>>)
    IN  IF host.runtime = <<>> \/ \E k \in DOMAIN base : Within(host.runtime, base[k])
        THEN base ELSE Append(base, host.runtime)

\* escaping_symlinks: the links of the masks, /tmp apart, that lead out of them.
EscapingSymlinks(masks) ==
    {l \in host.links : ~\E k \in DOMAIN masks : Within(l[2], masks[k])}

Mount(kind, p) == [kind |-> kind, at |-> p]

Mounts(kind, paths) == [k \in DOMAIN paths |-> Mount(kind, paths[k])]

\* bwrap_args: later mounts shadow earlier ones.
Mutant_BwrapArgs(masks, links, expose) ==
    <<Mount("read", <<>>), Mount("device", <<"dev">>), Mount("device", <<"proc">>),
      Mount("write", host.tmpdir), Mount("write", host.root)>>
        \o Mounts("private", masks)
        \o SetToSeq({Mount("link", l[1]) : l \in links})
        \o SetToSeq({Mount("read", p) : p \in expose})

BwrapArgs(masks, links, expose) ==
    <<Mount("read", <<>>), Mount("device", <<"dev">>), Mount("device", <<"proc">>)>>
        \o Mounts("private", masks)
        \o SetToSeq({Mount("link", l[1]) : l \in links})
        \o SetToSeq({Mount("read", p) : p \in expose})
        \o <<Mount("write", host.tmpdir), Mount("write", host.root)>>

\* SandboxExecBackend.profile: reads are not restricted; /dev is for stdio.
Profile ==
    <<Mount("read", <<>>), Mount("write", host.root), Mount("write", host.tmpdir),
      Mount("write", <<"dev">>)>>

-----------------------------------------------------------------------------
\* WorkspaceSandbox(): the backend is picked before the scratch directory is made.
Create(isolation, require) ==
    /\ backend = "unset"
    /\ backend' = Select(isolation, require)
    /\ required' = require
    /\ scratch' = (backend' # "refused")
    /\ UNCHANGED <<host, view>>

Usable == backend \notin {"unset", "refused"}

StartSandbox == Usable /\ scratch' = TRUE /\ UNCHANGED <<host, backend, view, required>>

StopSandbox == Usable /\ scratch' = FALSE /\ UNCHANGED <<host, backend, view, required>>

\* _wrap, also after stop(): the scratch directory is made again first.
Wrap ==
    /\ Usable
    /\ scratch' = TRUE
    /\ view' = CASE backend = "bubblewrap" -> BwrapArgs(Masks, EscapingSymlinks(Masks), host.expose)
                 [] backend = "sandbox-exec" -> Profile
                 [] OTHER -> <<Mount("write", <<>>)>>
    /\ UNCHANGED <<host, backend, required>>

IsolationNext ==
    \/ \E isolation \in {"auto", "none"} \cup Backends, require \in BOOLEAN :
        Create(isolation, require)
    \/ StartSandbox \/ StopSandbox \/ Wrap

IsolationSpec == IsolationInit(Hosts) /\ [][IsolationNext]_isolationVars

-----------------------------------------------------------------------------
\* What the command finds at p (external): the last mount that covers p decides.
Found(p) == view[CHOOSE k \in DOMAIN view :
                    /\ Within(p, view[k].at)
                    /\ \A l \in DOMAIN view : Within(p, view[l].at) => l <= k].kind

(* A path in every place that the layout tells apart. *)
Probes ==
    LET places == {host.root, host.tmpdir, <<"home">>, <<"dev">>, <<"tmp">>, <<"run">>, <<"var", "run">>}
                    \cup ({host.runtime} \ {<<>>}) \cup host.expose \cup {l[1] : l \in host.links}
    IN  places \cup {Append(p, "x") : p \in places}

Masked(p) == \E k \in DOMAIN Masks : Within(p, Masks[k])

Granted(p) ==
    \/ Within(p, host.root) \/ Within(p, host.tmpdir)
    \/ backend = "sandbox-exec" /\ Within(p, <<"dev">>)

(* A command wrapped by a backend that enforces can change the host only   *)
(* below the root and the scratch directory (and, with sandbox-exec, /dev), *)
(* and there it can, also when these are under a masked directory; of what *)
(* is under a masked directory it sees nothing else but what was exposed,  *)
(* and the links that lead out of the masks are still there.  With         *)
(* require_isolation nothing runs otherwise.                               *)
IsolationHolds ==
    /\ required => backend \in Backends \cup {"refused"}
    /\ view # <<>> /\ backend \in Backends =>
        \A p \in Probes : Found(p) = "write" <=> Granted(p)
    /\ view # <<>> /\ backend = "bubblewrap" =>
        /\ \A p \in Probes : Found(p) = "read" /\ Masked(p) => \E q \in host.expose : Within(p, q)
        /\ \A l \in host.links : ~Masked(l[2]) => Found(l[1]) # "private"
=============================================================================
