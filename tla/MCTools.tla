------------------------------ MODULE MCTools ------------------------------
(***************************************************************************)
(* The built-in tools of a coding agent.  A behaviour exercises one of     *)
(* them: concurrent shell calls, the isolation of a command, pages of one  *)
(* file, concurrent calls on one file, or a search.                        *)
(***************************************************************************)
EXTENDS ShellTool, Isolation, FileTools, SearchTools

VARIABLE part

(* "pages" reads every text of up to six characters; "edits" runs calls   *)
(* on two files, with CR LF and with LF.                                   *)
Texts == UNION {[1..n -> {"x", "CR", "LF"}] : n \in 0..6}
EditedTexts == {<<"x", "CR", "LF", "y">>, <<"x", "LF", "y", "LF">>}

Windows == [limit : 0..2, counts : BOOLEAN, numbered : BOOLEAN]
OneWindow == {[limit |-> 2, counts |-> TRUE, numbered |-> TRUE]}

Edit(old, new, all) == [old |-> old, new |-> new, all |-> all]

(* Breaking a line, joining two, a list whose second edit fails, and one   *)
(* whose edits depend on each other.                                       *)
MCEditLists ==
    {<<Edit(<<"x">>, <<"x", "LF", "y">>, TRUE)>>,
     <<Edit(<<"x", "LF">>, <<"y">>, FALSE)>>,
     <<Edit(<<"y">>, <<"x">>, FALSE), Edit(<<"q">>, <<>>, FALSE)>>,
     <<Edit(<<"y">>, <<"x">>, TRUE), Edit(<<"x">>, <<"y">>, FALSE)>>}

MCContents == {<<"x", "CR", "LF">>}

(* An edit whose text begins at a line break. *)
BreakFirst == {<<Edit(<<"LF", "y">>, <<"LF", "x">>, FALSE)>>}

(* Roots and scratch directories outside and below the masked directories, *)
(* one above another, and a runtime directory that is one of them or none. *)
MCRoots == {<<"home", "proj">>, <<"tmp", "proj">>, <<"run", "proj">>, <<"tmp">>}
MCScratches == {<<"tmp", "nexus">>, <<"home", "proj", "nexus">>, <<"home">>}
MCRuntimeDirs == {<<>>, <<"run", "user">>, <<"home", "runtime">>, <<"var">>}
MCRunLinks == {<<<<"run", "system">>, <<"store">>>>, <<<<"run", "lock">>, <<"var", "run", "lock">>>>}
MCExposable == {<<"run", "user", "bus">>, <<"tmp">>, <<"store">>}

ToolsInit ==
    /\ part \in {"shell", "isolation", "pages", "edits", "search"}
    /\ ShellInit(IF part = "shell" THEN {"allowlist", "free", "argv"} ELSE {"argv"})
    /\ IsolationInit(IF part = "isolation" THEN Hosts ELSE {CHOOSE h \in Hosts : TRUE})
    /\ CASE part = "pages" -> FileInit(Texts, Windows) /\ path = "first"
         [] part = "edits" -> FileInit(EditedTexts, OneWindow)
         [] OTHER -> FileInit({<<>>}, OneWindow) /\ path = "first"
    /\ IF part = "search" THEN SearchInit(Files, Queries)
       ELSE SearchInit({CHOOSE f \in Files : TRUE}, {CHOOSE q \in Queries : TRUE})

ToolsNext ==
    /\ UNCHANGED part
    /\ \/ part = "shell" /\ ShellNext /\ UNCHANGED <<isolationVars, fileVars, searchVars>>
       \/ part = "isolation" /\ IsolationNext /\ UNCHANGED <<shellVars, fileVars, searchVars>>
       \/ part = "pages" /\ ReadNext /\ UNCHANGED <<shellVars, isolationVars, searchVars>>
       \/ part = "edits" /\ (CallNext \/ ReadNext) /\ UNCHANGED <<shellVars, isolationVars, searchVars>>
       \/ part = "search" /\ SearchNext /\ UNCHANGED <<shellVars, isolationVars, fileVars>>

ToolsSpec ==
    /\ ToolsInit
    /\ [][ToolsNext]_<<part, shellVars, isolationVars, fileVars, searchVars>>
    /\ ShellFairness
=============================================================================
