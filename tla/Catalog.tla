------------------------------ MODULE Catalog ------------------------------
(***************************************************************************)
(* The game catalog of the scanner process (scan_jobs.rs, scan.rs,         *)
(* manifest.rs): the file watcher and its debounce, the rescan             *)
(* that walks the library, upserts and prunes rows and hashes manifests,   *)
(* and the manifests hashed on request.                                    *)
(*                                                                         *)
(* A game's content is a number that grows with every change on disk, and  *)
(* its version (name, size and mtime of its files) tells contents apart.   *)
(* A game is walked, and hashed, as one file.  st.scan.running is true     *)
(* exactly while the scan's task is in a stage other than "idle".          *)
(***************************************************************************)
EXTENDS Naturals

CONSTANTS
    Titles,    \* content paths, that is game ids
    PcTitles,  \* those under games/PC, where no error ends the scan
    Fetches,   \* manifest requests that can be in flight
    MaxEdits   \* bound on changes on disk, for model checking

ASSUME CatalogConstants == Titles # {} /\ PcTitles \subseteq Titles /\ MaxEdits \in Nat

VARIABLES
    disk,     \* the content of each game on disk (0: not there)
    edits,    \* changes so far
    wake,     \* is a change event waiting in the watcher's channel?
    watcher,  \* the watcher's task: waiting, or draining until the library is quiet
    scan,     \* the rescan's task
    cat,      \* games: the version of each row (0: none)
    man,      \* game_manifests: the version of the row; its segments: the content that was hashed
    fetch,    \* manifest requests in flight, and the answers given
    excused,  \* history: games that a known gap has kept from the scan since it started
    lost      \* history: games pruned although on disk, because another one cut the walk short

catalogVars == <<disk, edits, wake, watcher, scan, cat, man, fetch, excused, lost>>

Contents == 0 .. MaxEdits
NoManifest == [label |-> 0, hashed |-> 0]
NoScan == [pc |-> "idle", todo |-> {}, found |-> [g \in Titles |-> 0], walked |-> {},
           existing |-> {}, cut |-> {}, half |-> {}, hash |-> [g \in Titles |-> 0]]
NoFetch == [pc |-> "idle", game |-> CHOOSE g \in Titles : TRUE, ver |-> 0, hash |-> 0, row |-> 0]

CatalogTypeOK ==
    /\ disk \in [Titles -> Contents] /\ edits \in Contents
    /\ wake \in BOOLEAN /\ watcher \in {"waiting", "draining"}
    /\ scan.pc \in {"idle", "walk", "upsert", "prune", "hash", "drop", "enrich"}
    /\ scan.found \in [Titles -> Contents] /\ scan.hash \in [Titles -> Contents]
    /\ scan.todo \cup scan.walked \cup scan.existing \cup scan.cut \cup scan.half \subseteq Titles
    /\ cat \in [Titles -> Contents]
    /\ man \in [Titles -> [label : Contents, hashed : Contents]]
    /\ fetch \in [Fetches -> [pc : {"idle", "load", "segments", "read", "store", "served"},
                              game : Titles, ver : Contents, hash : Contents, row : Contents]]
    /\ excused \subseteq Titles /\ lost \subseteq Titles

CatalogInit ==
    /\ disk = [g \in Titles |-> 0] /\ edits = 0
    /\ wake = FALSE /\ watcher = "waiting"
    /\ scan = NoScan
    /\ cat = [g \in Titles |-> 0]
    /\ man = [g \in Titles |-> NoManifest]
    /\ fetch = [f \in Fetches |-> NoFetch]
    /\ excused = {} /\ lost = {}

-----------------------------------------------------------------------------
(* The library, its watcher and spawn_rescan *)

\* External: a game is added, changed or removed.  The event wakes the watcher; a full
\* channel holds a wake-up already.  An error in its place is ignored.
DiskChange(g, removed) ==
    /\ edits < MaxEdits
    /\ removed => disk[g] # 0
    /\ edits' = edits + 1
    /\ disk' = [disk EXCEPT ![g] = IF removed THEN 0 ELSE edits + 1]
    /\ \/ wake' = TRUE /\ excused' = excused \ {g}
       \/ UNCHANGED wake /\ excused' = excused \cup {g}
    /\ UNCHANGED <<watcher, scan, cat, man, fetch, lost>>

WatcherWakes ==
    /\ watcher = "waiting" /\ wake
    /\ watcher' = "draining" /\ wake' = FALSE
    /\ UNCHANGED <<disk, edits, scan, cat, man, fetch, excused, lost>>

\* Another event within the debounce.
WatcherDrains ==
    /\ watcher = "draining" /\ wake
    /\ wake' = FALSE
    /\ UNCHANGED <<disk, edits, watcher, scan, cat, man, fetch, excused, lost>>

Idle == scan.pc = "idle"
FreshScan == [NoScan EXCEPT !.pc = "walk", !.todo = Titles]

\* Games the running scan has walked in a state that is no longer the one on disk.
Overlooked == {g \in scan.walked : scan.found[g] # disk[g]}

\* A scan that is not running starts, and with it the chance to make good every gap; one
\* that is goes on, and this call is dropped.
spawn_rescan ==
    IF Idle THEN scan' = FreshScan /\ excused' = {}
    ELSE excused' = excused \cup Overlooked /\ UNCHANGED scan

\* Faulty variant: the watcher goes back to waiting without a rescan when it had to drain.
DebounceForgets ==
    /\ watcher = "draining" /\ ~wake
    /\ watcher' = "waiting"
    /\ UNCHANGED <<disk, edits, wake, scan, excused, cat, man, fetch, lost>>

\* The library has been quiet for LIBRARY_WATCH_DEBOUNCE_SECS.
DebounceOver ==
    /\ watcher = "draining" /\ ~wake
    /\ watcher' = "waiting"
    /\ spawn_rescan
    /\ UNCHANGED <<disk, edits, wake, cat, man, fetch, lost>>

\* The panel's Rescan button, or the interval when the watcher could not be set up.
Rescan ==
    /\ spawn_rescan
    /\ UNCHANGED <<disk, edits, wake, watcher, cat, man, fetch, lost>>

-----------------------------------------------------------------------------
(* rescan_catalog: scan_catalog *)

Rest == <<disk, edits, wake, watcher, fetch>>

\* The scan ends in its error arm.  What it has written stays; nothing retries it.
FailScan ==
    /\ scan' = NoScan
    /\ excused' = excused \cup {g \in Titles : cat[g] # disk[g]}

\* The consoles come before games/PC.
Reached(g) == g \in scan.todo /\ (g \in PcTitles => scan.todo \subseteq PcTitles)
Walked(found, gs) == [scan EXCEPT !.found = found, !.todo = @ \ gs, !.walked = @ \cup gs]

WalkGame(g) ==
    /\ scan.pc = "walk" /\ Reached(g)
    /\ scan' = Walked([scan.found EXCEPT ![g] = disk[g]], {g})
    /\ UNCHANGED <<Rest, cat, man, excused, lost>>

\* What cannot be read.  A game is passed over in silence when the root of its console or
\* its entry is taken for missing, or is logged and skipped under games/PC; any other error
\* of a console ends the scan.  All games below one root may be passed over, one by one.
WalkError(g) ==
    /\ scan.pc = "walk" /\ Reached(g) /\ disk[g] # 0
    /\ \/ g \notin PcTitles /\ FailScan
       \/ scan' = Walked(scan.found, {g}) /\ excused' = excused \cup {g}
    /\ UNCHANGED <<Rest, cat, man, lost>>

\* games/PC cannot be read, or read on past game g: the walk of it ends here, and the
\* games that would have come after it, readable or not, are not found.
WalkStops(g) ==
    /\ scan.pc = "walk" /\ Reached(g) /\ g \in PcTitles
    /\ scan' = [Walked(scan.found, scan.todo) EXCEPT !.cut = scan.todo \ {g}]
    /\ excused' = excused \cup scan.todo
    /\ UNCHANGED <<Rest, cat, man, lost>>

-----------------------------------------------------------------------------
(* rescan_catalog: sync_catalog_db *)

Found == {g \in Titles : scan.found[g] # 0}
Stage(pc, todo) == [scan EXCEPT !.pc = pc, !.todo = todo]

\* SELECT id FROM games
ListExisting ==
    /\ scan.pc = "walk" /\ scan.todo = {}
    /\ scan' = [Stage("upsert", Found) EXCEPT !.existing = {g \in Titles : cat[g] # 0}]
    /\ UNCHANGED <<Rest, cat, man, excused, lost>>

\* Metadata (not modelled) the scan has none of is kept.
UpsertGame(g) ==
    /\ scan.pc = "upsert" /\ g \in scan.todo
    /\ cat' = [cat EXCEPT ![g] = scan.found[g]]
    /\ scan' = Stage("upsert", scan.todo \ {g})
    /\ UNCHANGED <<Rest, man, excused, lost>>

PruneGame(g) ==
    /\ scan.pc = "prune" /\ g \in scan.todo
    /\ cat' = [cat EXCEPT ![g] = 0]
    /\ scan' = Stage("prune", scan.todo \ {g})
    /\ lost' = IF g \in scan.cut /\ disk[g] # 0 THEN lost \cup {g} ELSE lost
    /\ UNCHANGED <<Rest, man, excused>>

\* Any statement of the sync may fail.
SyncFails ==
    /\ scan.pc \in {"upsert", "prune"} /\ scan.todo # {}
    /\ FailScan
    /\ UNCHANGED <<Rest, cat, man, lost>>

StartPrune ==
    /\ scan.pc = "upsert" /\ scan.todo = {}
    /\ scan' = Stage("prune", scan.existing \ Found)
    /\ UNCHANGED <<Rest, cat, man, excused, lost>>

-----------------------------------------------------------------------------
(* rescan_catalog: ensure_manifests; and manifest_for, on request *)

StartHash ==
    /\ scan.pc = "prune" /\ scan.todo = {}
    /\ scan' = Stage("hash", Found)
    /\ UNCHANGED <<Rest, cat, man, excused, lost>>

\* A stored manifest of this version is kept.  If there is none, its segments are gone or it
\* cannot be read, the files are hashed as they are now; a game whose files fail is skipped.
HashGame(g) ==
    LET stored == man[g].label = scan.found[g] /\ man[g].hashed # 0
        skipped == scan' = Stage("hash", scan.todo \ {g}) IN
    /\ scan.pc = "hash" /\ g \in scan.todo /\ scan.hash[g] = 0
    /\ \E readable \in BOOLEAN :
         IF readable /\ stored THEN skipped
         ELSE skipped \/ (disk[g] # 0 /\ scan' = [scan EXCEPT !.hash[g] = disk[g]])
    /\ UNCHANGED <<Rest, cat, man, excused, lost>>

store_manifest(g, ver, hashed) == man' = [man EXCEPT ![g] = [label |-> ver, hashed |-> hashed]]

StoreHash(g) ==
    /\ scan.pc = "hash" /\ g \in scan.todo /\ scan.hash[g] # 0
    /\ store_manifest(g, scan.found[g], scan.hash[g]) \/ UNCHANGED man
    /\ scan' = [Stage("hash", scan.todo \ {g}) EXCEPT !.hash[g] = 0]
    /\ UNCHANGED <<Rest, cat, excused, lost>>

\* The manifests of games not found are listed, and of each the row and then the segments
\* are deleted.
ListManifests ==
    /\ scan.pc = "hash" /\ scan.todo = {}
    /\ scan' = Stage("drop", {g \in Titles : man[g].label # 0} \ Found)
    /\ UNCHANGED <<Rest, cat, man, excused, lost>>

DropRow(g) ==
    /\ scan.pc = "drop" /\ scan.half = {} /\ g \in scan.todo
    /\ man' = [man EXCEPT ![g].label = 0]
    /\ scan' = [scan EXCEPT !.half = {g}]
    /\ UNCHANGED <<Rest, cat, excused, lost>>

DropSegments(g) ==
    /\ scan.pc = "drop" /\ g \in scan.half
    /\ man' = [man EXCEPT ![g].hashed = 0]
    /\ scan' = [Stage("drop", scan.todo \ {g}) EXCEPT !.half = {}]
    /\ UNCHANGED <<Rest, cat, excused, lost>>

\* All are deleted, or a statement fails: that is logged.
ManifestsEnsured ==
    /\ scan.pc \in {"hash", "drop"} /\ (scan.pc = "hash" => scan.todo = {})
    /\ scan' = [Stage("enrich", {}) EXCEPT !.half = {}]
    /\ UNCHANGED <<Rest, cat, man, excused, lost>>

Asked == <<disk, edits, wake, watcher, scan, cat, excused, lost>>

\* api_manifest: the row as it is now.  What an earlier request was given is forgotten.
FetchManifest(f, g) ==
    /\ fetch[f].pc \in {"idle", "served"} /\ cat[g] # 0
    /\ fetch' = [fetch EXCEPT ![f] = [NoFetch EXCEPT !.pc = "load", !.game = g, !.ver = cat[g]]]
    /\ UNCHANGED <<Asked, man>>

\* load_stored_manifest: no row, one of another version or a failure leads to hashing on demand.
LoadRow(f) ==
    /\ fetch[f].pc = "load"
    /\ fetch' = [fetch EXCEPT ![f].pc = IF man[fetch[f].game].label = fetch[f].ver THEN "segments" ELSE "read"]
          \/ fetch' = [fetch EXCEPT ![f].pc = "read"]
    /\ UNCHANGED <<Asked, man>>

\* The segments as they are by now, whatever version the row has now (row: history).  No
\* inline manifest is left of rows older than segments.
LoadSegments(f) ==
    LET m == man[fetch[f].game] IN
    /\ fetch[f].pc = "segments"
    /\ \/ /\ m.hashed # 0
          /\ fetch' = [fetch EXCEPT ![f].pc = "served", ![f].hash = m.hashed, ![f].row = m.label]
       \/ fetch' = [fetch EXCEPT ![f].pc = "read"]
    /\ UNCHANGED <<Asked, man>>

\* Files that are gone are answered with 404, others that cannot be read with an error.
HashOnDemand(f) ==
    LET g == fetch[f].game IN
    /\ fetch[f].pc = "read"
    /\ \/ disk[g] # 0 /\ fetch' = [fetch EXCEPT ![f].pc = "store", ![f].hash = disk[g]]
       \/ fetch' = [fetch EXCEPT ![f] = NoFetch]
    /\ UNCHANGED <<Asked, man>>

\* What was hashed is filed under version ver, or not, and served as the version asked for.
Filed(f, ver) ==
    /\ fetch[f].pc = "store"
    /\ store_manifest(fetch[f].game, ver, fetch[f].hash) \/ UNCHANGED man
    /\ fetch' = [fetch EXCEPT ![f].pc = "served", ![f].row = fetch[f].ver]
    /\ UNCHANGED Asked

\* Faulty variant: it is filed under the version the row has by now.
StoreUnderNewVersion(f) == Filed(f, cat[fetch[f].game])

StoreOnDemand(f) == Filed(f, fetch[f].ver)

-----------------------------------------------------------------------------
\* The metadata enrichment after the manifests touches no version; then the scan is done.
ScanDone ==
    /\ scan.pc = "enrich"
    /\ scan' = NoScan
    /\ UNCHANGED <<Rest, cat, man, excused, lost>>

\* The process restarts: what it had in memory is gone, and no scan runs at startup.
Restart ==
    /\ wake' = FALSE /\ watcher' = "waiting" /\ scan' = NoScan
    /\ fetch' = [f \in Fetches |-> NoFetch]
    /\ excused' = excused \cup {g \in Titles : cat[g] # disk[g]}
    /\ UNCHANGED <<disk, edits, cat, man, lost>>

CatalogNext ==
    \/ WatcherWakes \/ WatcherDrains \/ DebounceOver \/ Rescan \/ ListExisting
    \/ SyncFails \/ StartPrune \/ StartHash \/ ListManifests \/ ManifestsEnsured \/ ScanDone \/ Restart
    \/ \E g \in Titles :
         \/ DiskChange(g, FALSE) \/ DiskChange(g, TRUE) \/ WalkGame(g) \/ WalkError(g) \/ WalkStops(g)
         \/ UpsertGame(g) \/ PruneGame(g) \/ HashGame(g) \/ StoreHash(g)
         \/ DropRow(g) \/ DropSegments(g)
         \/ \E f \in Fetches : FetchManifest(f, g)
    \/ \E f \in Fetches : LoadRow(f) \/ LoadSegments(f) \/ HashOnDemand(f) \/ StoreOnDemand(f)

CatalogSpec == CatalogInit /\ [][CatalogNext]_catalogVars

-----------------------------------------------------------------------------
(* Properties *)

\* Hashes under a version are never older than it, and if that is the version on disk they
\* are of exactly that content.
Honest(g, ver, hash) == hash >= ver /\ (ver = disk[g] => hash = disk[g])

\* However scans, requests with an old row, deletions and changes on disk overlap, what is
\* filed is honest, and so is what a launcher is given: but a request that another one of
\* an older version has overtaken, between its reads of the row and of the segments, is
\* given what is honest for that older version, and one whose row was deleted there is
\* given the segments about to be deleted.
ManifestHonest ==
    /\ \A g \in Titles : 0 \notin {man[g].label, man[g].hashed} => Honest(g, man[g].label, man[g].hashed)
    /\ \A f \in Fetches : LET x == fetch[f] IN x.pc = "served" =>
         \/ Honest(x.game, x.ver, x.hash)
         \/ x.row < x.ver /\ (x.row # 0 => Honest(x.game, x.row, x.hash))

\* With the watcher at rest and no scan running, the catalog shows the library, but for the
\* gaps that have opened since the last scan started: a change behind the back of that
\* scan, whose wake-up was dropped; one that was never reported; what that scan could not
\* read; and the failure of it or a restart.  Every scan makes good the gaps before it.
WatcherCatches ==
    Idle /\ watcher = "waiting" /\ ~wake =>
        \A g \in Titles \ excused : cat[g] = disk[g]

\* What scan.rs says of an unreadable entry: it "must not ... make every game after it look
\* orphaned (and get pruned)" (scan.rs:185-186).
HiccupSparesOthers == lost = {}

=============================================================================
