--------------------------- MODULE ApplicationStartup ---------------------------
(***************************************************************************)
(* app/main.py synchronises the configured physical collection whenever an *)
(* application process starts: it lists the stored entries, embeds the     *)
(* changed chunks and applies the difference in one transaction, without a *)
(* lease and without looking at the release aliases.  Several processes    *)
(* share one collection.                                                   *)
(***************************************************************************)
EXTENDS VectorControlPlane

CONSTANTS
    Apps,           \* application processes
    AppCorpora      \* the corpora their policy directories contain

ASSUME AppAssumption == AppCorpora \subseteq Corpora

VARIABLE app

AppPhases == {"down", "starting", "listed", "writeBegun", "serving"}

AppRow == [phase : AppPhases, collection : Collections \cup {None},
           wanted : Manifests, view : Manifests, begun : Times]
DownApp == [phase |-> "down", collection |-> None, wanted |-> EmptyManifest,
            view |-> EmptyManifest, begun |-> 0]

AppInit == app = [p \in Apps |-> DownApp]

appVars == <<vars, app>>

AppIn(p, phase) == app[p].phase = phase

\* rag_pgvector_collection names the collection, whether an alias serves it or not.
AppStart(p, c, m) ==
    /\ AppIn(p, "down")
    /\ app' = [app EXCEPT ![p] = [DownApp EXCEPT !.phase = "starting",
                                      !.collection = c, !.wanted = m]]
    /\ UNCHANGED vars

AppListEntries(p) ==
    /\ AppIn(p, "starting")
    /\ app' = [app EXCEPT ![p] = [@ EXCEPT !.phase = "listed",
                                           !.view = Manifest(app[p].collection)]]
    /\ UNCHANGED vars

InSync(p) ==
    /\ Upserts(app[p].view, app[p].wanted) = {}
    /\ StaleIds(app[p].view, app[p].wanted) = {}

\* _apply_changes returns early: no write guard and nothing to write.
AppNothingToWrite(p) ==
    /\ AppIn(p, "listed")
    /\ InSync(p)
    /\ app' = [app EXCEPT ![p].phase = "serving"]
    /\ UNCHANGED vars

AppWriteBegin(p) ==
    /\ AppIn(p, "listed")
    /\ ~InSync(p)
    /\ app' = [app EXCEPT ![p] = [@ EXCEPT !.phase = "writeBegun", !.begun = now]]
    /\ UNCHANGED vars

AppWriteCommit(p) ==
    LET s == app[p]
    IN /\ AppIn(p, "writeBegun")
       /\ rows' = [rows EXCEPT ![s.collection] =
              Applied(s.collection, s.view, s.wanted, s.begun)]
       /\ app' = [app EXCEPT ![p] = [@ EXCEPT !.phase = "serving", !.begun = 0]]
       /\ UNCHANGED <<now, lease, leaseLock, pointer, pointerLock, history, mark,
                      session, beat, overrun, release, gc>>

\* The start fails or the process stops or dies: an open transaction rolls back.
AppStops(p) ==
    /\ ~AppIn(p, "down")
    /\ app' = [app EXCEPT ![p] = DownApp]
    /\ UNCHANGED vars

App(p) ==
    \/ \E c \in Collections, m \in AppCorpora : AppStart(p, c, m)
    \/ AppListEntries(p)
    \/ AppNothingToWrite(p)
    \/ AppWriteBegin(p)
    \/ AppWriteCommit(p)
    \/ AppStops(p)

AppNext ==
    \/ Next /\ UNCHANGED app
    \/ \E p \in Apps : App(p)

AppSpec == Init /\ AppInit /\ [][AppNext]_appVars

-----------------------------------------------------------------------------
(* Properties                                                               *)

\* Processes that start together from one corpus need no lock: whatever each of
\* them read, and whichever of them stops half way, a process that serves finds
\* in its collection exactly the chunks it was started with (synchronize).
ServingMatchesCorpus ==
    \A p \in Apps : AppIn(p, "serving") =>
        Manifest(app[p].collection) = app[p].wanted
=============================================================================
