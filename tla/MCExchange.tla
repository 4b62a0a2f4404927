----------------------------- MODULE MCExchange -----------------------------
(***************************************************************************)
(* Instance for TLC of what devices exchange with the server: data that is *)
(* synchronised, hot updates and releases, and scripts.  The modules share *)
(* no state, so each behaviour moves one of them, chosen at its start, and *)
(* the others rest in one of their initial states.                         *)
(***************************************************************************)
EXTENDS DataSync, SyncPages, AutoSync, Backups, Packages, Updater, SecureScripts, TLC

CONSTANTS d1, d2

\* The two devices, requests, goroutines or files of the module that moves.
Two       == {d1, d2}
\* Numbers of which the last comes first as a string, and a key of another type.
FourItems == {<<1, 8>>, <<1, 9>>, <<1, 10>>, <<2, 8>>}
AsStrings == [k \in {8, 9, 10} |-> (CASE k = 10 -> 1 [] k = 8 -> 2 [] k = 9 -> 3)]
Symmetry  == Permutations(Two)

VARIABLE part       \* the module that moves

syncVars == <<vars, pagesVars, autoVars, backupVars>>

MCInit ==
    /\ part \in {"items", "pages", "auto", "backups", "packages", "updater", "scripts"}
    /\ Init         /\ (part # "items"    => kind = "config")
    /\ PagesInit    /\ (part # "pages"    => rows = {})
    /\ AutoInit     /\ (part # "auto"     => loop = "l1")
    /\ PackagesInit /\ (part # "packages" => resource = "release" /\ meeting = "tasks")
    /\ UpdaterInit  /\ (part # "updater"  => published = {})
    /\ ScriptsInit  /\ (part # "scripts"  => scene = "changing")
    /\ BackupsInit

MCNext ==
    /\ UNCHANGED part
    /\ \/ /\ part = "items" /\ Next
          /\ UNCHANGED <<pagesVars, autoVars, backupVars, packageVars, updaterVars, scriptVars>>
       \/ /\ part = "pages" /\ PagesNext
          /\ UNCHANGED <<vars, autoVars, backupVars, packageVars, updaterVars, scriptVars>>
       \/ /\ part = "auto" /\ AutoNext
          /\ UNCHANGED <<vars, pagesVars, backupVars, packageVars, updaterVars, scriptVars>>
       \/ /\ part = "backups" /\ BackupsNext
          /\ UNCHANGED <<vars, pagesVars, autoVars, packageVars, updaterVars, scriptVars>>
       \/ /\ part = "packages" /\ PackagesNext
          /\ UNCHANGED <<syncVars, updaterVars, scriptVars>>
       \/ /\ part = "updater" /\ UpdaterNext
          /\ UNCHANGED <<syncVars, packageVars, scriptVars>>
       \/ /\ part = "scripts" /\ ScriptsNext
          /\ UNCHANGED <<syncVars, packageVars, updaterVars>>

MCSpec == MCInit /\ [][MCNext]_<<part, syncVars, packageVars, updaterVars, scriptVars>>
=============================================================================
