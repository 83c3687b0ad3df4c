----------------------------- MODULE MCWorkshop -----------------------------
(***************************************************************************)
(* What surrounds the worlds, for TLC: packages, the growth of characters, *)
(* backups, updates of the application and the router of model turns.      *)
(* They share no state, so that one run explores them side by side instead *)
(* of their product: part says which one a behaviour is about, the others  *)
(* keep their initial state.                                               *)
(***************************************************************************)
EXTENDS PackageLibrary, CharacterGrowth, LocalBackup, ApplicationUpdate, HarnessRouter,
  TLC

CONSTANTS v1, v2, own, shop, c1, c2, town, text

VARIABLE part

\* Two versions of a package from the shop, and one a failing build makes.
ThreeReleases == {v1, v2, own}
ShopOrOwn     == [r \in ThreeReleases |-> IF r = own THEN own ELSE shop]
OwnBuild      == [i \in {3} |-> own]
OwnCopy       == [i \in {3} |-> c2]

\* The versions of the shop are alike.
ShopVersions == Permutations({v1, v2})

\* A task and a chat, of one character on two days.
AnnsTurns == [t \in Turns |-> "ann"]
TaskChat  == [t \in Turns |-> IF t = 2 THEN "chat" ELSE "task"]
TwoDays   == [t \in Turns |-> t]

\* Three turns of one character with one model, the third with other rights.
OneAsker == <<"ann", "ann", "ann">>
OneModel == <<"m", "m", "m">>
Prints   == <<"low", "low", "high">>
Rights   == <<"read", "read", "write">>

\* What each part leaves alone.
NotLibrary == <<part, growthVars, backupVars, updateVars, routerVars>>
NotGrowth  == <<part, libraryVars, backupVars, updateVars, routerVars>>
NotBackup  == <<part, libraryVars, growthVars, updateVars, routerVars>>
NotUpdate  == <<part, libraryVars, growthVars, backupVars, routerVars>>
NotRouter  == <<part, libraryVars, growthVars, backupVars, updateVars>>

InLibrary == part = "library" /\ LibraryNext /\ UNCHANGED NotLibrary
InGrowth  == part = "growth"  /\ GrowthNext  /\ UNCHANGED NotGrowth
InBackup  == part = "backup"  /\ BackupNext  /\ UNCHANGED NotBackup
InUpdate  == part = "update"  /\ UpdateNext  /\ UNCHANGED NotUpdate
InRouter  == part = "router"  /\ RouterNext  /\ UNCHANGED NotRouter

\* Where a part has several initial states, the others keep one of them.
WorkshopInit ==
  /\ part \in {"library", "growth", "backup", "update", "router"}
  /\ LibraryInit /\ GrowthInit /\ UpdateInit /\ RouterInit
  /\ BackupInit /\ (part # "backup" => \A a \in Areas : kept[a] # NoFile)

WorkshopNext == InLibrary \/ InGrowth \/ InBackup \/ InUpdate \/ InRouter

workshopVars == <<part, libraryVars, growthVars, backupVars, updateVars, routerVars>>

WorkshopSpec == WorkshopInit /\ [][WorkshopNext]_workshopVars

\* The library's rows, the files of its releases and the worlds made from them
\* agree, and a build that failed leaves nothing (PackageLibrary).
LibraryStands == LibraryTypes /\ FilesMatchRows /\ FailedBuildLeavesNothing

\* A run makes at most one milestone, and a projection that goes through leaves
\* every ended run in a journal (CharacterGrowth).
GrowthStands == GrowthTypes /\ GrowthIsKept

\* What a backup restores is whole (LocalBackup), and what an update installs is
\* what was built and tried, or a later revision that was fetched between the
\* last look and the merge (ApplicationUpdate).
UpkeepStands == BackupTypes /\ UpdateTypes /\ RestoredIsWhole /\ VerifiedIsMerged
=============================================================================
