---------------------------- MODULE WorldSettings ----------------------------
(***************************************************************************)
(* The settings of a world: the file settings.json with its revision, the  *)
(* row of the model the world is assigned, the pages of the browser that   *)
(* edit both and the character that edits them as the administrator.       *)
(*                                                                         *)
(*   server/src/services/world-settings-service.ts                         *)
(*   server/src/routes/world-settings-routes.ts                            *)
(*   server/src/skills/world-management-adapter.ts, server/src/server.ts   *)
(*   web/src/App.tsx, web/src/components/WorldSettingsDialog.tsx           *)
(*                                                                         *)
(* A value of a field is the number of the edit that wrote it, 0 the       *)
(* default.  Reading the file and the row for one answer is one step; the  *)
(* answer travels on its own.  Saving reads the file, checks the revision, *)
(* and only after the directories are made and the temporary file is       *)
(* written renames it over the file: other requests run in between.  The   *)
(* rename and what follows it up to the answer is one step, since a reader *)
(* of the new file is called back after the writer; a crash may still come *)
(* between them.  The password of a world is not modelled.                 *)
(***************************************************************************)
EXTENDS Integers, FiniteSets

CONSTANTS Places,      \* worlds
          Pages,       \* pages of the browser, each showing one world
          Clerks,      \* skill actions of administrators, each used once
          Fields,      \* fields of the file
          MaxEdits,    \* bound: saves and assignments of all authors
          MaxUpsets    \* bound: failed writes, failed requests, crashes

ASSUME SettingsAssumption ==
  /\ MaxEdits \in Nat
  /\ MaxUpsets \in Nat
  /\ IsFiniteSet(Places)
  /\ IsFiniteSet(Fields)

VARIABLES
  file,     \* of each world: its settings.json
  assigned, \* of each world: the model of its row, 0 none
  pages,    \* of each page: the world it is at, what it shows, the dialog
  saves,    \* of each author: the save it has under way
  done,     \* administrators' actions that have been started
  edits,    \* number of them so far
  upsets,   \* number of mishaps
  lost,     \* history: worlds with a change overwritten unseen
  mixed     \* history: worlds where saves crossed, or another world's settings were saved

settingsVars == <<file, assigned, pages, saves, done, edits, upsets, lost, mixed>>

Authors == Pages \union Clerks
Odd == 0 - 1
Values == 0 .. MaxEdits
Contents == [Fields -> Values]
NoSave == [phase |-> "none"]
Nothing == [of |-> "none", model |-> 0]

(***************************************************************************)
(* The file                                                                *)
(***************************************************************************)

Fresh == [rev |-> 0, has |-> [f \in Fields |-> 0]]

\* A value of the wrong kind is replaced by the default, not refused.
MutNormal(v) == v
Normal(v) == IF v \in Values THEN v ELSE 0

\* A patch replaces the fields it names.
Merged(current, patch) ==
  [f \in Fields |-> Normal(IF f \in DOMAIN patch THEN patch[f] ELSE current[f])]

\* The answer to a question for the settings, and to a save.
Snapshot(w) == [of |-> w, rev |-> file[w].rev, has |-> file[w].has, model |-> assigned[w]]

\* A save may go on when it was made on the revision that is in the file.
MutUpToDate(s) == TRUE
UpToDate(s) == file[s.to].rev = s.expected

\* A draft without a model says nothing of the model: the row stays.
RowAfter(s) == IF s.model = 0 THEN assigned[s.to] ELSE s.model

(***************************************************************************)
(* The page                                                                *)
(***************************************************************************)

\* The owner goes to a world.  The dialog covers the page, so it is closed;
\* a save under way goes on.
GoTo(p, w) ==
  /\ ~pages[p].open
  /\ pages' = [pages EXCEPT ![p] = [at |-> w, load |-> "asked", shows |-> Nothing,
                                    answer |-> Nothing, open |-> FALSE]]
  /\ UNCHANGED <<file, assigned, saves, done, edits, upsets, lost, mixed>>

AnswerLoad(p) ==
  /\ pages[p].load = "asked"
  /\ pages' = [pages EXCEPT ![p].load = "answered", ![p].answer = Snapshot(pages[p].at)]
  /\ UNCHANGED <<file, assigned, saves, done, edits, upsets, lost, mixed>>

TakeLoad(p) ==
  /\ pages[p].load = "answered"
  /\ pages' = [pages EXCEPT ![p].load = "done", ![p].shows = pages[p].answer,
                            ![p].answer = Nothing]
  /\ UNCHANGED <<file, assigned, saves, done, edits, upsets, lost, mixed>>

OpenDialog(p) ==
  /\ pages[p].load = "done"
  /\ ~pages[p].open
  /\ pages' = [pages EXCEPT ![p].open = TRUE]
  /\ UNCHANGED <<file, assigned, saves, done, edits, upsets, lost, mixed>>

\* Cancelling is possible while a save is under way.
CloseDialog(p) ==
  /\ pages[p].open
  /\ pages' = [pages EXCEPT ![p].open = FALSE]
  /\ UNCHANGED <<file, assigned, saves, done, edits, upsets, lost, mixed>>

\* The draft is what the page shows and the owner's changes to it, which any
\* newly shown settings replace: it is made here.  The whole of it is sent,
\* with the revision the page shows, for the world the page is at.
Save(p, F, m) ==
  /\ pages[p].open
  /\ saves[p] = NoSave
  /\ edits < MaxEdits
  /\ edits' = edits + 1
  /\ saves' = [saves EXCEPT ![p] =
       [phase |-> "sent", to |-> pages[p].at,
        patch |-> [f \in Fields |-> IF f \in F THEN edits + 1 ELSE pages[p].shows.has[f]],
        model |-> m, expected |-> pages[p].shows.rev,
        base |-> pages[p].shows.has, read |-> Fresh,
        astray |-> pages[p].shows.of # pages[p].at]]
  /\ UNCHANGED <<file, assigned, pages, done, upsets, lost, mixed>>

(***************************************************************************)
(* The administrator                                                       *)
(***************************************************************************)

\* An action that changes one field; its parameters may be of any kind.
StartClerk(a, w, f) ==
  /\ a \notin done
  /\ edits < MaxEdits
  /\ done' = done \union {a}
  /\ edits' = edits + 1
  /\ \E v \in {Odd, edits + 1} :
       saves' = [saves EXCEPT ![a] =
         [phase |-> "sent", to |-> w, patch |-> [g \in {f} |-> v], model |-> 0,
          expected |-> file[w].rev, base |-> file[w].has, read |-> Fresh,
          astray |-> FALSE]]
  /\ UNCHANGED <<file, assigned, pages, upsets, lost, mixed>>

\* An action that assigns the world a model writes the row and nothing else.
AssignModel(a, w) ==
  /\ a \notin done
  /\ edits < MaxEdits
  /\ done' = done \union {a}
  /\ edits' = edits + 1
  /\ assigned' = [assigned EXCEPT ![w] = edits + 1]
  /\ UNCHANGED <<file, pages, saves, upsets, lost, mixed>>

(***************************************************************************)
(* The server                                                              *)
(***************************************************************************)

ReadCurrent(a) ==
  /\ saves[a].phase = "sent"
  /\ saves' = [saves EXCEPT ![a] =
       IF UpToDate(saves[a])
       THEN [saves[a] EXCEPT !.phase = "writing", !.read = file[saves[a].to]]
       ELSE [phase |-> IF a \in Pages THEN "refused" ELSE "failed", to |-> saves[a].to]]
  /\ UNCHANGED <<file, assigned, pages, done, edits, upsets, lost, mixed>>

\* What a save makes of the file it read.
MutWritten(s) == [rev |-> s.read.rev, has |-> Merged(s.read.has, s.patch)]
Written(s) == [rev |-> s.read.rev + 1, has |-> Merged(s.read.has, s.patch)]

\* Some field has a value the author had not seen and did not write.
Overwrites(s) ==
  \E f \in Fields : file[s.to].has[f] \notin {s.base[f], Written(s).has[f]}

Land(s) ==
  /\ file' = [file EXCEPT ![s.to] = Written(s)]
  /\ lost' = IF Overwrites(s) THEN lost \union {s.to} ELSE lost
  /\ mixed' = IF s.astray \/ file[s.to] # s.read THEN mixed \union {s.to} ELSE mixed

Commit(a) ==
  /\ saves[a].phase = "writing"
  /\ LET s == saves[a] IN
     /\ Land(s)
     /\ assigned' = [assigned EXCEPT ![s.to] = RowAfter(s)]
     /\ saves' = [saves EXCEPT ![a] =
          [phase |-> "answered", to |-> s.to,
           answer |-> [of |-> s.to, rev |-> Written(s).rev, has |-> Written(s).has,
                       model |-> RowAfter(s)]]]
  /\ UNCHANGED <<pages, done, edits, upsets>>

FailWrite(a) ==
  /\ saves[a].phase = "writing"
  /\ upsets < MaxUpsets
  /\ upsets' = upsets + 1
  /\ saves' = [saves EXCEPT ![a] = [phase |-> "failed", to |-> saves[a].to]]
  /\ UNCHANGED <<file, assigned, pages, done, edits, lost, mixed>>

\* A page that was refused asks for the latest settings of that world.
AnswerAgain(p) ==
  /\ saves[p].phase = "refused"
  /\ saves' = [saves EXCEPT ![p] = [phase |-> "reread", to |-> saves[p].to,
                                    answer |-> Snapshot(saves[p].to)]]
  /\ UNCHANGED <<file, assigned, pages, done, edits, upsets, lost, mixed>>

FailAgain(p) ==
  /\ saves[p].phase = "refused"
  /\ upsets < MaxUpsets
  /\ upsets' = upsets + 1
  /\ saves' = [saves EXCEPT ![p] = [phase |-> "failed", to |-> saves[p].to]]
  /\ UNCHANGED <<file, assigned, pages, done, edits, lost, mixed>>

\* The process dies: no request is answered.  The file one of them was
\* renaming may be in place, the row it had to write is not.
Unanswered(a) == IF a \in Pages /\ saves[a] # NoSave
                 THEN [phase |-> "failed", to |-> saves[a].to] ELSE NoSave

DieSaving ==
  /\ upsets < MaxUpsets
  /\ upsets' = upsets + 1
  /\ saves' = [a \in Authors |-> Unanswered(a)]
  /\ \/ \E a \in Authors : saves[a].phase = "writing" /\ Land(saves[a])
     \/ UNCHANGED <<file, lost, mixed>>
  /\ UNCHANGED <<assigned, pages, done, edits>>

(***************************************************************************)
(* The answers                                                             *)
(***************************************************************************)

\* The answer is shown whatever world the page is at by now, and closes the
\* dialog.
TakeSaved(p) ==
  /\ saves[p].phase = "answered"
  /\ pages' = [pages EXCEPT ![p].shows = saves[p].answer, ![p].open = FALSE]
  /\ saves' = [saves EXCEPT ![p] = NoSave]
  /\ UNCHANGED <<file, assigned, done, edits, upsets, lost, mixed>>

\* The latest settings replace the draft; the owner is to look and save again.
TakeReread(p) ==
  /\ saves[p].phase = "reread"
  /\ pages' = [pages EXCEPT ![p].shows = saves[p].answer]
  /\ saves' = [saves EXCEPT ![p] = NoSave]
  /\ UNCHANGED <<file, assigned, done, edits, upsets, lost, mixed>>

TakeFailure(p) ==
  /\ saves[p].phase = "failed"
  /\ saves' = [saves EXCEPT ![p] = NoSave]
  /\ UNCHANGED <<file, assigned, pages, done, edits, upsets, lost, mixed>>

\* The administrator reads the settings back and tells what it found.
EndClerk(a) ==
  /\ saves[a].phase \in {"answered", "failed"}
  /\ saves' = [saves EXCEPT ![a] = NoSave]
  /\ UNCHANGED <<file, assigned, pages, done, edits, upsets, lost, mixed>>

SettingsInit ==
  /\ file = [w \in Places |-> Fresh]
  /\ assigned = [w \in Places |-> 0]
  /\ pages \in [Pages -> {[at |-> w, load |-> "asked", shows |-> Nothing, answer |-> Nothing,
                           open |-> FALSE] : w \in Places}]
  /\ saves = [a \in Authors |-> NoSave]
  /\ done = {}
  /\ edits = 0
  /\ upsets = 0
  /\ lost = {}
  /\ mixed = {}

PageStep(p) ==
  \/ \E w \in Places : GoTo(p, w)
  \/ AnswerLoad(p) \/ TakeLoad(p) \/ OpenDialog(p) \/ CloseDialog(p)
  \/ \E F \in SUBSET Fields, m \in {0, pages[p].shows.model, edits + 1} : Save(p, F, m)
  \/ AnswerAgain(p) \/ FailAgain(p)
  \/ TakeSaved(p) \/ TakeReread(p) \/ TakeFailure(p)

ClerkStep(a) ==
  \/ \E w \in Places, f \in Fields : StartClerk(a, w, f)
  \/ \E w \in Places : AssignModel(a, w)
  \/ EndClerk(a)

SettingsNext ==
  \/ \E p \in Pages : PageStep(p)
  \/ \E a \in Clerks : ClerkStep(a)
  \/ \E a \in Authors : ReadCurrent(a) \/ Commit(a) \/ FailWrite(a)
  \/ DieSaving

SettingsSpec == SettingsInit /\ [][SettingsNext]_settingsVars

(***************************************************************************)
(* Properties                                                              *)
(***************************************************************************)

\* The states the settings, the pages and the saves can be in.
SettingsTypes ==
  /\ file \in [Places -> [rev : Nat, has : Contents]]
  /\ assigned \in [Places -> Values]
  /\ \A p \in Pages :
       /\ pages[p].at \in Places
       /\ pages[p].load \in {"asked", "answered", "done"}
       /\ pages[p].load = "done" => pages[p].shows # Nothing
       /\ pages[p].open => pages[p].load = "done"
  /\ \A a \in Authors :
       saves[a].phase \in {"none", "sent", "writing", "refused", "reread", "answered", "failed"}
  /\ lost \subseteq Places
  /\ mixed \subseteq Places

\* A save never overwrites a change its author had not seen, unless two saves
\* of that world were between reading the file and renaming it at the same
\* time, or a page sent the settings of another world: the revision a page
\* gives protects everything else, crashes and failed saves included.
SeenBeforeReplaced == lost \subseteq mixed

\* What docs/architecture/world-management-adapter-v1.md:81-83 promises: the
\* settings of another editor are never silently overwritten.
NothingOverwritten == lost = {}

\* A page shows the settings of the world it is at.
ShowsItsWorld == \A p \in Pages : pages[p].shows.of \in {"none", pages[p].at}
==============================================================================
