------------------------------- MODULE Saves -------------------------------
(***************************************************************************)
(* Cloud saves (handlers.rs, db.rs): one save file of one account, written *)
(* by its devices.  An upload may name the mtime it means to replace, the  *)
(* bytes it replaces are archived as a version, and a version can be made  *)
(* the current save again.  A statement is a step and none is in a         *)
(* transaction.  Files and accounts share no state, so one is enough.      *)
(***************************************************************************)
EXTENDS Naturals, FiniteSets

CONSTANTS
    Uploads,   \* handlers that can be in flight
    Mtimes,    \* mtimes devices give their saves, in whole seconds (0 when none is given)
    Keep,      \* SAVE_VERSION_KEEP
    MaxSaves   \* bound on uploads and restores, for model checking

ASSUME SavesConstants == Mtimes \subseteq Nat /\ Keep \in Nat \ {0} /\ MaxSaves \in Nat

VARIABLES
    current,  \* game_saves: the bytes, named by the upload that sent them, and the mtime
    archive,  \* game_save_versions, by version_id
    lastVersion,
    saveNo,   \* uploads and restores so far
    up,       \* handlers in flight
    stored,   \* history: bytes that have been the current save
    evicted,  \* history: bytes pruned beyond Keep
    raced     \* history: bytes replaced by an upload that had not read them

saveVars == <<current, archive, lastVersion, saveNo, up, stored, evicted, raced>>

NoSave == [data |-> 0, mtime |-> 0]
NoUpload == [pc |-> "idle", new |-> NoSave, guarded |-> FALSE, base |-> 0, prior |-> NoSave]
Save == [data : 0 .. MaxSaves, mtime : Mtimes \cup {0}]

SavesTypeOK ==
    /\ current \in Save
    /\ archive \subseteq [id : 1 .. lastVersion, save : Save]
    /\ lastVersion \in 0 .. MaxSaves /\ saveNo \in 0 .. MaxSaves
    /\ up \in [Uploads -> [pc : {"idle", "guard", "select", "archive", "prune", "write"}, new : Save,
                           guarded : BOOLEAN, base : Mtimes \cup {0}, prior : Save]]
    /\ stored \cup evicted \cup raced \subseteq 1 .. MaxSaves

SavesInit ==
    /\ current = NoSave /\ archive = {} /\ lastVersion = 0 /\ saveNo = 0
    /\ up = [u \in Uploads |-> NoUpload]
    /\ stored = {} /\ evicted = {} /\ raced = {}

-----------------------------------------------------------------------------
(* api_saves_put, api_saves_restore *)

StepTo(u, pc) == up' = [up EXCEPT ![u].pc = pc]

\* With baseMtime (0: the device has seen no save), or without.
PutSave(u, m, guarded, base) ==
    /\ up[u] = NoUpload /\ saveNo < MaxSaves
    /\ saveNo' = saveNo + 1
    /\ up' = [up EXCEPT ![u] = [NoUpload EXCEPT !.pc = IF guarded THEN "guard" ELSE "select",
                                !.new = [data |-> saveNo + 1, mtime |-> m],
                                !.guarded = guarded, !.base = base]]
    /\ UNCHANGED <<current, archive, lastVersion, stored, evicted, raced>>

\* The version's bytes are read, and put like any other.
RestoreVersion(u, v) ==
    /\ up[u] = NoUpload /\ saveNo < MaxSaves /\ v \in archive
    /\ saveNo' = saveNo + 1
    /\ up' = [up EXCEPT ![u] = [NoUpload EXCEPT !.pc = "select", !.new = v.save]]
    /\ UNCHANGED <<current, archive, lastVersion, stored, evicted, raced>>

\* 409 unless the stored mtime (0 without a row) is the one the device last saw.
CheckBase(u) ==
    /\ up[u].pc = "guard"
    /\ IF current.mtime = up[u].base THEN StepTo(u, "select") ELSE up' = [up EXCEPT ![u] = NoUpload]
    /\ UNCHANGED <<current, archive, lastVersion, saveNo, stored, evicted, raced>>

-----------------------------------------------------------------------------
(* put_game_save *)

SelectPrior(u) ==
    /\ up[u].pc = "select"
    /\ up' = [up EXCEPT ![u].prior = current, ![u].pc = IF current.data # 0 THEN "archive" ELSE "write"]
    /\ UNCHANGED <<current, archive, lastVersion, saveNo, stored, evicted, raced>>

ArchivePrior(u) ==
    /\ up[u].pc = "archive"
    /\ lastVersion' = lastVersion + 1
    /\ archive' = archive \cup {[id |-> lastVersion + 1, save |-> up[u].prior]}
    /\ StepTo(u, "prune")
    /\ UNCHANGED <<current, saveNo, stored, evicted, raced>>

Pruned(u, kept) ==
    /\ up[u].pc = "prune"
    /\ archive' = kept
    /\ evicted' = evicted \cup {v.save.data : v \in {x \in archive \ kept :
                                    Cardinality({y \in archive : y.id > x.id}) >= Keep}}
    /\ StepTo(u, "write")
    /\ UNCHANGED <<current, lastVersion, saveNo, stored, raced>>

\* Faulty variant: the oldest versions are kept.
PruneNewest(u) == Pruned(u, {v \in archive : Cardinality({w \in archive : w.id < v.id}) < Keep})

\* The newest Keep versions are kept.
PruneOld(u) == Pruned(u, {v \in archive : Cardinality({w \in archive : w.id > v.id}) < Keep})

WriteSave(u) ==
    /\ up[u].pc = "write"
    /\ current' = up[u].new
    /\ stored' = stored \cup {up[u].new.data}
    /\ raced' = IF current.data \notin {0, up[u].prior.data} THEN raced \cup {current.data} ELSE raced
    /\ up' = [up EXCEPT ![u] = NoUpload]
    /\ UNCHANGED <<archive, lastVersion, saveNo, evicted>>

\* A statement fails, or the connection is gone: the rest is not done.
UploadFails(u) ==
    /\ up[u].pc \in {"archive", "prune", "write"}
    /\ up' = [up EXCEPT ![u] = NoUpload]
    /\ UNCHANGED <<current, archive, lastVersion, saveNo, stored, evicted, raced>>

SavesNext ==
    \E u \in Uploads :
        \/ CheckBase(u) \/ SelectPrior(u) \/ ArchivePrior(u) \/ PruneOld(u) \/ WriteSave(u) \/ UploadFails(u)
        \/ \E m \in Mtimes : PutSave(u, m, FALSE, 0) \/ \E b \in Mtimes \cup {0} : PutSave(u, m, TRUE, b)
        \/ \E v \in archive : RestoreVersion(u, v)

SavesSpec == SavesInit /\ [][SavesNext]_saveVars

-----------------------------------------------------------------------------
\* No bytes that were once the current save are gone, unless Keep newer versions pushed
\* them out, or an upload under way at the same time wrote over them without having read
\* them: not by failures half way, restores, or uploads that follow each other.
SavesKept ==
    \A d \in stored : \/ d \in {current.data} \cup evicted \cup raced
                      \/ \E v \in archive : v.save.data = d

=============================================================================
