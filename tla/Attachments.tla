----------------------------- MODULE Attachments -----------------------------
(***************************************************************************)
(* The files an owner uploads: attachments kept in a world's directory     *)
(* beside a description, and assets of the instance kept in the state      *)
(* directory beside a row, from the composer of the page that picks them   *)
(* to the message that carries them and the page that shows them.          *)
(*                                                                         *)
(*   server/src/services/world-file-service.ts, asset-service.ts           *)
(*   server/src/routes/workspace-file-routes.ts, asset-routes.ts           *)
(*   server/src/routes/conversation-routes.ts                              *)
(*   persistence/src/sqlite-store.ts, web/src/components/ChatWorkbench.tsx *)
(*                                                                         *)
(* A file on disk is absent, whole, or no longer what was uploaded.  A     *)
(* file is written under another name and renamed, so a part of one is     *)
(* never found under its own; the directory checks that come first are     *)
(* not modelled.  The name, type and size of a file are one question: is   *)
(* it acceptable.  Only one file at a time is uploaded by the composer.    *)
(***************************************************************************)
EXTENDS Integers, FiniteSets

CONSTANTS Uploads,     \* files picked, each once
          OfInstance,  \* those of them that are assets of the instance
          Worlds,
          MaxHarms     \* bound: failures, crashes and files damaged

ASSUME AttachmentsAssumption ==
  /\ OfInstance \subseteq Uploads
  /\ IsFiniteSet(Uploads)
  /\ MaxHarms \in Nat

VARIABLES
  disk,      \* of each upload: what is at its path
  described, \* uploads with a description or a row
  upload,    \* of each upload: where it is in being stored, and its world
  composer,  \* the world the composer is in, and its attachments
  posts,     \* messages on their way to the server
  messages,  \* messages stored
  served,    \* what pages were shown of uploads
  damaged,   \* uploads whose file somebody else changed
  harms      \* number of mishaps

fileVars == <<disk, described, upload, composer, posts, messages, served, damaged, harms>>

NoWorld == "none"
UploadSteps == {"unused", "sent", "writing", "placed", "stored", "failed", "over"}

\* The description names the world by where it is; a row stands for all.
Belongs(i, w) == i \in OfInstance \/ upload[i].home = w

(***************************************************************************)
(* The composer                                                            *)
(***************************************************************************)

Uploading == \E i \in Uploads : upload[i].step \notin {"unused", "over"}

\* A file is picked for the world the composer is in.
Pick(i) ==
  /\ upload[i].step = "unused"
  /\ ~Uploading
  /\ upload' = [upload EXCEPT ![i] = [step |-> "sent", home |-> composer.at]]
  /\ UNCHANGED <<disk, described, composer, posts, messages, served, damaged, harms>>

\* Going to another world or conversation does not empty the composer.
Visit(w) ==
  /\ w # composer.at
  /\ composer' = [composer EXCEPT !.at = w]
  /\ UNCHANGED <<disk, described, upload, posts, messages, served, damaged, harms>>

TakeBack(i) ==
  /\ i \in composer.tray
  /\ composer' = [composer EXCEPT !.tray = @ \ {i}]
  /\ UNCHANGED <<disk, described, upload, posts, messages, served, damaged, harms>>

\* Without a character to write to nothing is sent, yet the tray is emptied.
Submit(addressed) ==
  /\ ~Uploading
  /\ composer.tray # {}
  /\ composer' = [composer EXCEPT !.tray = {}]
  /\ posts' = IF addressed THEN posts \union {[to |-> composer.at, with |-> composer.tray]}
              ELSE posts
  /\ UNCHANGED <<disk, described, upload, messages, served, damaged, harms>>

\* The attachment comes into the composer wherever it is by now.
TakeStored(i) ==
  /\ upload[i].step = "stored"
  /\ upload' = [upload EXCEPT ![i].step = "over"]
  /\ composer' = [composer EXCEPT !.tray = @ \union {i}]
  /\ UNCHANGED <<disk, described, posts, messages, served, damaged, harms>>

MissStored(i) ==
  /\ upload[i].step = "failed"
  /\ upload' = [upload EXCEPT ![i].step = "over"]
  /\ UNCHANGED <<disk, described, composer, posts, messages, served, damaged, harms>>

(***************************************************************************)
(* Storing                                                                 *)
(***************************************************************************)

UploadTo(i, step) == upload' = [upload EXCEPT ![i].step = step]

\* The type, the coding, the size and the first bytes are looked at.
AcceptAsset(i) == i \in OfInstance /\ UploadTo(i, "writing")
AcceptFile(i)  == i \notin OfInstance /\ UploadTo(i, "writing")

Receive(i) ==
  /\ upload[i].step = "sent"
  /\ AcceptAsset(i) \/ AcceptFile(i) \/ UploadTo(i, "failed")
  /\ UNCHANGED <<disk, described, composer, posts, messages, served, damaged, harms>>

\* The file is put in its place; nothing names it yet.
PlaceAsset(i) == i \in OfInstance /\ disk' = [disk EXCEPT ![i] = "whole"]
PlaceFile(i)  == i \notin OfInstance /\ disk' = [disk EXCEPT ![i] = "whole"]

MutPlace(i) ==
  /\ upload[i].step = "writing"
  /\ UploadTo(i, "placed")
  /\ described' = described \union {i}
  /\ UNCHANGED <<disk, composer, posts, messages, served, damaged, harms>>

Place(i) ==
  /\ upload[i].step = "writing"
  /\ UploadTo(i, "placed")
  /\ PlaceAsset(i) \/ PlaceFile(i)
  /\ UNCHANGED <<described, composer, posts, messages, served, damaged, harms>>

DescribeAsset(i) == i \in OfInstance /\ described' = described \union {i}
DescribeFile(i)  == i \notin OfInstance /\ described' = described \union {i}

Describe(i) ==
  /\ upload[i].step = "placed"
  /\ UploadTo(i, "stored")
  /\ DescribeAsset(i) \/ DescribeFile(i)
  /\ UNCHANGED <<disk, composer, posts, messages, served, damaged, harms>>

\* Writing fails, or describing does, and then the file is taken away again,
\* which may itself fail and is not looked at.
Undo(i) == \/ disk' = [disk EXCEPT ![i] = "none"]
           \/ UNCHANGED disk

FailStoring(i) ==
  /\ upload[i].step \in {"writing", "placed"}
  /\ harms < MaxHarms
  /\ harms' = harms + 1
  /\ UploadTo(i, "failed")
  /\ Undo(i)
  /\ UNCHANGED <<described, composer, posts, messages, served, damaged>>

(***************************************************************************)
(* Messages and pages                                                      *)
(***************************************************************************)

\* An asset needs its row and nothing else, an attachment its description
\* under that world and a file in its place.
KnownAsset(i) == i \in OfInstance /\ i \in described
DescribedIn(i, w) == i \in described /\ upload[i].home = w
KnownFile(i, w) == i \notin OfInstance /\ DescribedIn(i, w) /\ disk[i] # "none"

MutKnown(i, w) == i \in described
Known(i, w) == KnownAsset(i) \/ KnownFile(i, w)

\* A message with an attachment that is not known is refused as a whole.
StoreMessage(m) ==
  /\ posts' = posts \ {m}
  /\ messages' = IF \A i \in m.with : Known(i, m.to) THEN messages \union {m} ELSE messages
  /\ UNCHANGED <<disk, described, upload, composer, served, damaged, harms>>

\* The content is compared with the description before it is served.
MutIntact(i) == disk[i] # "none"
Intact(i) == disk[i] = "whole"

Show(i, m) ==
  /\ i \in m.with
  /\ Known(i, m.to)
  /\ Intact(i)
  /\ served' = served \union {[of |-> i, was |-> disk[i]]}
  /\ UNCHANGED <<disk, described, upload, composer, posts, messages, damaged, harms>>

(***************************************************************************)
(* Mishaps                                                                 *)
(***************************************************************************)

\* Somebody else changes a file or takes it away.
Damage(i) ==
  /\ disk[i] = "whole"
  /\ upload[i].step \in {"stored", "over"}
  /\ harms < MaxHarms
  /\ harms' = harms + 1
  /\ \E s \in {"changed", "none"} : disk' = [disk EXCEPT ![i] = s]
  /\ damaged' = damaged \union {i}
  /\ UNCHANGED <<described, upload, composer, posts, messages, served>>

\* The process dies: what was being stored stays as far as it came, requests
\* fail.
DieStoring ==
  /\ harms < MaxHarms
  /\ harms' = harms + 1
  /\ upload' = [i \in Uploads |->
       IF upload[i].step \in {"sent", "writing", "placed", "stored"}
       THEN [upload[i] EXCEPT !.step = "failed"] ELSE upload[i]]
  /\ posts' = {}
  /\ UNCHANGED <<disk, described, composer, messages, served, damaged>>

FilesInit ==
  /\ disk = [i \in Uploads |-> "none"]
  /\ described = {}
  /\ upload = [i \in Uploads |-> [step |-> "unused", home |-> NoWorld]]
  /\ composer \in [at : Worlds, tray : {{}}]
  /\ posts = {}
  /\ messages = {}
  /\ served = {}
  /\ damaged = {}
  /\ harms = 0

UploadStep(i) ==
  \/ Pick(i) \/ TakeBack(i) \/ TakeStored(i) \/ MissStored(i)
  \/ Receive(i) \/ Place(i) \/ Describe(i) \/ FailStoring(i) \/ Damage(i)

FilesNext ==
  \/ \E i \in Uploads : UploadStep(i)
  \/ \E w \in Worlds : Visit(w)
  \/ \E addressed \in BOOLEAN : Submit(addressed)
  \/ \E m \in posts : StoreMessage(m)
  \/ \E m \in messages : \E i \in Uploads : Show(i, m)
  \/ DieStoring

FilesSpec == FilesInit /\ [][FilesNext]_fileVars

(***************************************************************************)
(* Properties                                                              *)
(***************************************************************************)

\* The states files, uploads and messages can be in.
FileTypes ==
  /\ disk \in [Uploads -> {"none", "whole", "changed"}]
  /\ described \subseteq Uploads
  /\ \A i \in Uploads : upload[i].step \in UploadSteps
  /\ composer.at \in Worlds /\ composer.tray \subseteq Uploads
  /\ \A m \in posts \union messages : m.to \in Worlds /\ m.with \subseteq Uploads

\* Whatever fails and whenever the process dies, a file that has a description
\* or a row is in its place unless somebody else touched it; every attachment
\* of a stored message belongs to its world and was described; and what a page
\* shows is what was uploaded.
CarriedIsReal ==
  /\ \A i \in described : disk[i] = "whole" \/ i \in damaged
  /\ \A m \in messages : \A i \in m.with : i \in described /\ Belongs(i, m.to)
  /\ \A s \in served : s.was = "whole"

\* The attachments in the composer belong to the world it is in.
TrayBelongs == \A i \in composer.tray : Belongs(i, composer.at)
==============================================================================
