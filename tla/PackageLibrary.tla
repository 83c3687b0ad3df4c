--------------------------- MODULE PackageLibrary ---------------------------
(***************************************************************************)
(* The package library of a workspace, the copies of packages that worlds  *)
(* run, and the builds of the creative workshop, which install packages,   *)
(* make a world of them and take both back when they fail.                 *)
(*                                                                         *)
(*   package-manager.ts, local-package-runtime.ts   one installation       *)
(*   sqlite-store.ts             installed_packages, transactions          *)
(*   world-package-instance-service.ts   a copy for a world                *)
(*   creative-workshop-service.ts        builds and their compensation     *)
(*   package-routes.ts           uninstalling                              *)
(*                                                                         *)
(* Three stores must agree: rows, the files of the library, the files of a *)
(* world.  Every await of a handler lets the others go on.  The files of a *)
(* release, staged or copied, are one content.  A manifest is its release  *)
(* and its content; parsing and hashing are left out.  So is the pointer   *)
(* file of a package: only the rollback that wrote it reads it.            *)
(***************************************************************************)
EXTENDS Naturals, FiniteSets

CONSTANTS
  Releases,     \* a package in a version
  PackageOf,    \* the package of each release
  Contents,     \* what a publisher may ship under a version
  Installs,     \* installations the owner previews, numbered in their order
  Builds,       \* those made by a build of the workshop: a package nobody else has
  MadeBy,       \* the release each build makes
  Copies,       \* instantiations of a release in a world
  FilledBy,     \* the copy each build makes in its world
  Worlds,       \* the worlds there are; a build adds its own, named as the build
  MaxBusy,      \* bound: handlers under way together
  Absent

ASSUME LibraryAssumption ==
  /\ Installs \subseteq Nat
  /\ Builds \subseteq Installs
  /\ MadeBy \in [Builds -> Releases]
  /\ \A b \in Builds, r \in Releases :
       PackageOf[r] = PackageOf[MadeBy[b]] => r = MadeBy[b]
  /\ FilledBy \in [Builds -> Copies]
  /\ \A a, b \in Builds : a # b => MadeBy[a] # MadeBy[b] /\ FilledBy[a] # FilledBy[b]
  /\ Worlds \cap Builds = {}
  /\ MaxBusy \in Nat
  /\ Absent \notin Contents \cup Builds

VARIABLES
  shelf,     \* installed_packages: status and content of each release
  disk,      \* the content of the files of each release
  asks,      \* the release and content each installation is about, and what it replaces
  step,      \* the handler of each installation
  receipts,  \* package_install_transactions: status of each installation
  leaving,   \* the release a removal of each package has seen active
  copies,    \* the handler, world, release, digest and files of each copy
  rows,      \* world_package_instances: status of each copy
  folders,   \* the directory of each copy
  verified,  \* the contents the verification cache holds
  collided,  \* history: releases whose directory an activation found taken
  killed     \* history: the process has died

libraryVars == <<shelf, disk, asks, step, receipts, leaving, copies, rows, folders, verified,
                 collided, killed>>

Packages    == {PackageOf[r] : r \in Releases}
Files       == Contents \cup {Absent}
ShelfStatus == {"absent", "active", "superseded", "disabled"}
Receipts    == {"none", "approved", "staged", "activated", "rolled-back"}
StepsOfInstall == {"none", "previewed", "staging", "staged", "moved", "pointed", "clearing", "done",
                   "refused", "failed", "building", "filling", "clean", "compensated", "gone"}
StepsOfCopy == {"none", "checking", "copying", "copied", "placed", "over", "gone"}
Unasked     == [release |-> Absent, content |-> Absent, active |-> Absent]
NoCopy      == [at |-> "none", world |-> Absent, release |-> Absent, digest |-> Absent, files |-> Absent]

LibraryTypes ==
  /\ shelf \in [Releases -> [status : ShelfStatus, content : Files]]
  /\ disk \in [Releases -> Files]
  /\ asks \in [Installs -> [release : Releases \cup {Absent}, content : Files,
                            active : (Releases \X Contents) \cup {Absent}]]
  /\ step \in [Installs -> StepsOfInstall]
  /\ receipts \in [Installs -> Receipts]
  /\ leaving \in [Packages -> Releases \cup {Absent}]
  /\ copies \in [Copies -> [at : StepsOfCopy, world : Worlds \cup Builds \cup {Absent},
                            release : Releases \cup {Absent}, digest : Files, files : Files]]
  /\ rows \in [Copies -> {"none", "active", "disabled"}]
  /\ folders \in [Copies -> {"none", "staging", "placed"}]
  /\ verified \subseteq Releases \X Contents
  /\ collided \subseteq Releases
  /\ killed \in BOOLEAN

LibraryInit ==
  /\ shelf = [r \in Releases |-> [status |-> "absent", content |-> Absent]]
  /\ disk = [r \in Releases |-> Absent]
  /\ asks = [i \in Installs |-> Unasked]
  /\ step = [i \in Installs |-> "none"]
  /\ receipts = [i \in Installs |-> "none"]
  /\ leaving = [p \in Packages |-> Absent]
  /\ copies = [c \in Copies |-> NoCopy]
  /\ rows = [c \in Copies |-> "none"]
  /\ folders = [c \in Copies |-> "none"]
  /\ verified = {}
  /\ collided = {}
  /\ killed = FALSE

Release(i) == asks[i].release
IsActive(r) == shelf[r].status = "active"
Same(r)     == {q \in Releases : PackageOf[q] = PackageOf[r]}

\* getActivePackage and its digest
ActiveDigest(r) ==
  IF \E q \in Same(r) : IsActive(q)
  THEN LET q == CHOOSE q \in Same(r) : IsActive(q) IN <<q, shelf[q].content>>
  ELSE Absent

\* Handlers under way; a build that fills its world is its copy.
Settled == {"none", "done", "refused", "failed", "gone"}
Busy ==
  Cardinality({i \in Installs : step[i] \notin Settled \cup {"previewed", "filling"}})
  + Cardinality({c \in Copies : copies[c].at \notin {"none", "over", "gone"}})
  + Cardinality({p \in Packages : leaving[p] # Absent})

InstallGoes(i, s) == step' = [step EXCEPT ![i] = s]
CopyGoes(c, s)    == copies' = [copies EXCEPT ![c].at = s]

-----------------------------------------------------------------------------
(* Mutated forms of operators below *)

\* Disabled: the row is left active.
MutDisabled(S) == shelf
\* WorldRemoved: the world's directory stays.
MutWorldRemoved(i) == folders
\* Copied: the files are not looked for.
MutCopied(c) == TRUE
\* Shelved: the release it replaces stays active.
MutShelved(i) == [shelf EXCEPT ![asks[i].release] = [status |-> "active", content |-> asks[i].content]]

-----------------------------------------------------------------------------
(* Installing *)

\* preview: a token bound to the manifest and to the active release.  A build
\* previews its own package.
PreviewPackage(i) ==
  /\ step[i] = "none"
  /\ \A j \in Installs \ Builds : j < i => step[j] # "none"
  /\ \E r \in Releases, k \in Contents :
       /\ IF i \in Builds THEN r = MadeBy[i] ELSE \A b \in Builds : r # MadeBy[b]
       /\ asks' = [asks EXCEPT ![i] = [release |-> r, content |-> k, active |-> ActiveDigest(r)]]
  /\ InstallGoes(i, "previewed")
  /\ UNCHANGED <<shelf, disk, receipts, leaving, copies, rows, folders, verified, collided, killed>>

\* installReversible up to its first await; a token that is too old or no longer
\* fits is refused and used up.
BeginInstall(i) ==
  /\ step[i] = "previewed" /\ Busy < MaxBusy
  /\ \/ /\ asks[i].active = ActiveDigest(Release(i))
        /\ receipts' = [receipts EXCEPT ![i] = "approved"]
        /\ InstallGoes(i, "staging")
     \/ /\ InstallGoes(i, "refused")
        /\ UNCHANGED receipts
  /\ UNCHANGED <<shelf, disk, asks, leaving, copies, rows, folders, verified, collided, killed>>

\* stage and validateStaged, with markPackageInstallStaged or the rollback
Stage(i) ==
  /\ step[i] = "staging"
  /\ \/ receipts' = [receipts EXCEPT ![i] = "staged"] /\ InstallGoes(i, "staged")
     \/ receipts' = [receipts EXCEPT ![i] = "rolled-back"] /\ InstallGoes(i, "failed")
  /\ UNCHANGED <<shelf, disk, asks, leaving, copies, rows, folders, verified, collided, killed>>

\* activate: the staged directory is renamed, unless another is in its place.
MoveIn(i) ==
  LET r == Release(i) IN
  /\ step[i] = "staged"
  /\ IF disk[r] = Absent
     THEN /\ disk' = [disk EXCEPT ![r] = asks[i].content]
          /\ InstallGoes(i, "moved")
          /\ UNCHANGED collided
     ELSE /\ collided' = collided \cup {r}
          /\ InstallGoes(i, "clearing")
          /\ UNCHANGED disk
  /\ UNCHANGED <<shelf, asks, receipts, leaving, copies, rows, folders, verified, killed>>

\* verifyInstalledFiles and the pointer
Point(i) ==
  /\ step[i] = "moved"
  /\ InstallGoes(i, IF disk[Release(i)] = asks[i].content THEN "pointed" ELSE "clearing")
  /\ UNCHANGED <<shelf, disk, asks, receipts, leaving, copies, rows, folders, verified, collided, killed>>

\* What was active of the package is superseded.
Shelved(i) ==
  [r \in Releases |->
     IF r = Release(i) THEN [status |-> "active", content |-> asks[i].content]
     ELSE IF r \in Same(Release(i)) /\ IsActive(r) THEN [shelf[r] EXCEPT !.status = "superseded"]
     ELSE shelf[r]]

\* completePackageInstall, which may fail
Complete(i) ==
  /\ step[i] = "pointed"
  /\ \/ /\ shelf' = Shelved(i)
        /\ receipts' = [receipts EXCEPT ![i] = "activated"]
        /\ InstallGoes(i, IF i \in Builds THEN "building" ELSE "done")
     \/ /\ InstallGoes(i, "clearing")
        /\ UNCHANGED <<shelf, receipts>>
  /\ UNCHANGED <<disk, asks, leaving, copies, rows, folders, verified, collided, killed>>

\* An activation that failed removes the directory of the release; then the
\* transaction is rolled back.
Clear(i) ==
  /\ step[i] = "clearing"
  /\ disk' = [disk EXCEPT ![Release(i)] = Absent]
  /\ receipts' = [receipts EXCEPT ![i] = "rolled-back"]
  /\ InstallGoes(i, "failed")
  /\ UNCHANGED <<shelf, asks, leaving, copies, rows, folders, verified, collided, killed>>

-----------------------------------------------------------------------------
(* Removing *)

\* disableInstalledPackage: only what is active
Disabled(S) ==
  [r \in Releases |-> IF r \in S /\ IsActive(r) THEN [shelf[r] EXCEPT !.status = "disabled"] ELSE shelf[r]]

BeginRemoval(p) ==
  /\ leaving[p] = Absent /\ Busy < MaxBusy
  /\ \E r \in Releases : PackageOf[r] = p /\ IsActive(r) /\ leaving' = [leaving EXCEPT ![p] = r]
  /\ UNCHANGED <<shelf, disk, asks, step, receipts, copies, rows, folders, verified, collided, killed>>

\* The worlds are unlocked: their copies are disabled one by one, then the release
\* seen at first, if it still is active.
EndRemoval(p) ==
  /\ leaving[p] # Absent
  /\ rows' = [c \in Copies |->
       IF rows[c] = "active" /\ PackageOf[copies[c].release] = p THEN "disabled" ELSE rows[c]]
  /\ shelf' = Disabled({leaving[p]})
  /\ leaving' = [leaving EXCEPT ![p] = Absent]
  /\ UNCHANGED <<disk, asks, step, receipts, copies, folders, verified, collided, killed>>

-----------------------------------------------------------------------------
(* A copy for a world *)

BeginCopy(c) ==
  /\ copies[c].at = "none" /\ Busy < MaxBusy
  /\ \E r \in Releases, w \in Worlds \cup Builds :
       /\ shelf[r].status # "absent"
       /\ \A b \in Builds : (w = b \/ c = FilledBy[b]) =>
            w = b /\ c = FilledBy[b] /\ step[b] = "filling" /\ r = MadeBy[b]
       /\ copies' = [copies EXCEPT ![c] =
            [at |-> "checking", world |-> w, release |-> r, digest |-> shelf[r].content, files |-> Absent]]
  /\ UNCHANGED <<shelf, disk, asks, step, receipts, leaving, rows, folders, verified, collided, killed>>

\* Active copies of the same package in the same world
Rivals(c) ==
  {d \in Copies \ {c} : /\ rows[d] = "active"
                        /\ copies[d].world = copies[c].world
                        /\ PackageOf[copies[d].release] = PackageOf[copies[c].release]}

\* verifyPackage, once per content; a copy there is returned or is a conflict.
CheckCopy(c) ==
  LET identity == <<copies[c].release, copies[c].digest>> IN
  /\ copies[c].at = "checking"
  /\ IF identity \in verified \/ disk[copies[c].release] = copies[c].digest
     THEN /\ verified' = verified \cup {identity}
          /\ CopyGoes(c, IF Rivals(c) = {} THEN "copying" ELSE "over")
     ELSE /\ CopyGoes(c, "over")
          /\ UNCHANGED verified
  /\ UNCHANGED <<shelf, disk, asks, step, receipts, leaving, rows, folders, collided, killed>>

\* The files of the release can be read.
Copied(c) == disk[copies[c].release] # Absent

\* The files are copied as they are now.
CopyFiles(c) ==
  /\ copies[c].at = "copying"
  /\ IF Copied(c)
     THEN /\ copies' = [copies EXCEPT ![c].at = "copied", ![c].files = disk[copies[c].release]]
          /\ folders' = [folders EXCEPT ![c] = "staging"]
     ELSE /\ CopyGoes(c, "over")
          /\ UNCHANGED folders
  /\ UNCHANGED <<shelf, disk, asks, step, receipts, leaving, rows, verified, collided, killed>>

Place(c) ==
  /\ copies[c].at = "copied"
  /\ CopyGoes(c, "placed")
  /\ folders' = [folders EXCEPT ![c] = "placed"]
  /\ UNCHANGED <<shelf, disk, asks, step, receipts, leaving, rows, verified, collided, killed>>

\* createWorldPackageInstance; the index of active copies refuses a second one.
Register(c) ==
  /\ copies[c].at = "placed"
  /\ CopyGoes(c, "over")
  /\ IF Rivals(c) = {}
     THEN /\ rows' = [rows EXCEPT ![c] = "active"]
          /\ UNCHANGED folders
     ELSE /\ folders' = [folders EXCEPT ![c] = "none"]
          /\ UNCHANGED rows
  /\ UNCHANGED <<shelf, disk, asks, step, receipts, leaving, verified, collided, killed>>

DisableCopy(c) ==
  /\ rows[c] = "active"
  /\ rows' = [rows EXCEPT ![c] = "disabled"]
  /\ UNCHANGED <<shelf, disk, asks, step, receipts, leaving, copies, folders, verified, collided, killed>>

-----------------------------------------------------------------------------
(* A build of the workshop *)

\* createWorld; its copy of the package follows.
BuildWorld(i) ==
  /\ step[i] = "building"
  /\ InstallGoes(i, "filling")
  /\ UNCHANGED <<shelf, disk, asks, receipts, leaving, copies, rows, folders, verified, collided, killed>>

CopyDone(i) == copies[FilledBy[i]].at = "over"

FinishBuild(i) ==
  /\ step[i] = "filling" /\ CopyDone(i) /\ folders[FilledBy[i]] = "placed"
  /\ InstallGoes(i, "done")
  /\ UNCHANGED <<shelf, disk, asks, receipts, leaving, copies, rows, folders, verified, collided, killed>>

\* rollbackWorldCreation cascades to the copies of the world.
WorldRolledBack(i) == [c \in Copies |-> IF copies[c].world = i THEN "none" ELSE rows[c]]
\* worldRoots.remove
WorldRemoved(i) == [c \in Copies |-> IF copies[c].world = i THEN "none" ELSE folders[c]]

FailBuild(i) ==
  /\ \/ step[i] = "building"
     \/ step[i] = "filling" /\ copies[FilledBy[i]].at \in {"none", "over"}
  /\ rows' = WorldRolledBack(i)
  /\ folders' = WorldRemoved(i)
  /\ InstallGoes(i, "clean")
  /\ UNCHANGED <<shelf, disk, asks, receipts, leaving, copies, verified, collided, killed>>

\* compensate: first the files
Compensate(i) ==
  /\ step[i] = "clean"
  /\ disk' = [disk EXCEPT ![Release(i)] = Absent]
  /\ InstallGoes(i, "compensated")
  /\ UNCHANGED <<shelf, asks, receipts, leaving, copies, rows, folders, verified, collided, killed>>

\* compensateActivatedPackageInstall, which fails when the release is not active
\* any more.  A built package has no version before.
CompensateRow(i) ==
  /\ step[i] = "compensated"
  /\ IF IsActive(Release(i))
     THEN /\ shelf' = Disabled({Release(i)})
          /\ receipts' = [receipts EXCEPT ![i] = "rolled-back"]
     ELSE UNCHANGED <<shelf, receipts>>
  /\ InstallGoes(i, "failed")
  /\ UNCHANGED <<disk, asks, leaving, copies, rows, folders, verified, collided, killed>>

-----------------------------------------------------------------------------
(* The process dies; the next one sweeps the staging directories of worlds. *)

Restarted(i) == IF step[i] \in Settled THEN step[i] ELSE "gone"

RestartLibrary ==
  /\ ~killed /\ Busy > 0
  /\ killed' = TRUE
  /\ step' = [i \in Installs |-> Restarted(i)]
  /\ copies' = [c \in Copies |->
       IF copies[c].at \in {"none", "over"} THEN copies[c] ELSE [copies[c] EXCEPT !.at = "gone"]]
  /\ folders' = [c \in Copies |-> IF folders[c] = "staging" THEN "none" ELSE folders[c]]
  /\ leaving' = [p \in Packages |-> Absent]
  /\ verified' = {}
  /\ UNCHANGED <<shelf, disk, asks, receipts, rows, collided>>

InstallStep(i) ==
  \/ PreviewPackage(i) \/ BeginInstall(i) \/ Stage(i) \/ MoveIn(i) \/ Point(i) \/ Complete(i) \/ Clear(i)
  \/ BuildWorld(i) \/ FinishBuild(i) \/ FailBuild(i) \/ Compensate(i) \/ CompensateRow(i)

CopyStep(c) ==
  BeginCopy(c) \/ CheckCopy(c) \/ CopyFiles(c) \/ Place(c) \/ Register(c) \/ DisableCopy(c)

LibraryNext ==
  \/ \E i \in Installs : InstallStep(i)
  \/ \E c \in Copies : CopyStep(c)
  \/ \E p \in Packages : BeginRemoval(p) \/ EndRemoval(p)
  \/ RestartLibrary

-----------------------------------------------------------------------------
(* Properties *)

\* Releases whose files a compensation has removed before their rows
Undone == {MadeBy[b] : b \in {b \in Builds : step[b] \in {"compensated", "gone"}}}

\* What the library offers as active is on the disk as it was approved, one
\* release of a package at a time; what a world runs is the content it was
\* pinned to.  An activation that finds the directory of its release taken
\* breaks both (ActiveIsKept), so such releases are set aside.
FilesMatchRows ==
  /\ \A r \in Releases \ (collided \cup Undone) : IsActive(r) => disk[r] = shelf[r].content
  /\ \A r \in Releases : IsActive(r) => \A q \in Same(r) \ {r} : ~IsActive(q)
  /\ \A c \in Copies :
       rows[c] = "active" /\ copies[c].release \notin collided => copies[c].files = copies[c].digest

\* A build that failed leaves nothing: no world, no directory, no package that
\* could be recruited from, whatever the owner did with it meanwhile.
FailedBuildLeavesNothing ==
  \A i \in Builds : step[i] = "failed" =>
    /\ ~IsActive(MadeBy[i]) /\ disk[MadeBy[i]] = Absent
    /\ \A c \in Copies : copies[c].world = i => rows[c] = "none" /\ folders[c] = "none"

\* "A failure keeps the current active version": an installation that fails
\* leaves the files of an active release alone.
ActiveIsKept ==
  [][\A i \in Installs : Clear(i) => ~(IsActive(Release(i)) /\ disk[Release(i)] # Absent)]_libraryVars

\* After a crash no directory of a world is left that no row refers to.
NoOrphans ==
  killed => \A c \in Copies : folders[c] = "placed" /\ copies[c].at = "gone" => rows[c] # "none"
=============================================================================
