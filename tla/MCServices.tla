----------------------------- MODULE MCServices -----------------------------
(***************************************************************************)
(* The components that share no state with each other, checked in one run. *)
(* Every property is about the variables of one component, so a behaviour  *)
(* that violates it in the product of all of them violates it with the     *)
(* others standing still: focus picks the one that moves.  The catalog     *)
(* moves in two scopes: all games with one manifest request at a time, and *)
(* one game with all requests.                                             *)
(***************************************************************************)
EXTENDS Notifications, Push, Accounts, Catalog, Saves, Board
CONSTANTS s1, s2, east, west, mario, f2, Focus
VARIABLE focus

MCSockets == {s1, s2}
MCInstances == {east, west}
MCAt == [s \in MCSockets |-> IF s = s1 THEN east ELSE west]

CatalogScope ==
    \/ focus = "catalog" /\ UNCHANGED fetch[f2]
    \/ focus = "manifests" /\ \A g \in Titles \ {mario} : disk'[g] = 0

vars == <<noteVars, pushVars, accountVars, catalogVars, saveVars, boardVars, focus>>
Init ==
    /\ focus \in Focus
    /\ NotesInit /\ PushInit /\ AccountsInit /\ CatalogInit /\ SavesInit /\ BoardInit
Next ==
    /\ UNCHANGED focus
    /\ IF focus = "notes" THEN NotesNext ELSE UNCHANGED noteVars
    /\ IF focus = "push" THEN PushNext ELSE UNCHANGED pushVars
    /\ IF focus = "accounts" THEN AccountsNext ELSE UNCHANGED accountVars
    /\ IF focus \in {"catalog", "manifests"} THEN CatalogNext /\ CatalogScope ELSE UNCHANGED catalogVars
    /\ IF focus = "saves" THEN SavesNext ELSE UNCHANGED saveVars
    /\ IF focus = "board" THEN BoardNext ELSE UNCHANGED boardVars
Spec == Init /\ [][Next]_vars

\* The types of all of them.
TypeOK ==
    /\ NotesTypeOK /\ PushTypeOK /\ AccountsTypeOK
    /\ CatalogTypeOK /\ SavesTypeOK /\ BoardTypeOK
=============================================================================
