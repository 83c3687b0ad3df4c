--------------------------- MODULE WorldAuthority ---------------------------
(***************************************************************************)
(* Who may do what in one world: the authority row of each character (its  *)
(* role and permissions), the world's pointer to its first administrator,  *)
(* and how recruiting, promoting, demoting and archiving change them       *)
(* (world-character-authority-service.ts, its repository, sqlite-store.ts).*)
(*                                                                         *)
(* Every operation is one synchronous stretch of the process and commits   *)
(* in one transaction (archiving in two, the second of which repairs what  *)
(* the first left and finds nothing to repair), so each is one action.     *)
(* Characters are numbered in the order they are recruited.  Permissions   *)
(* are told apart by what the rules tell apart: whether they manage, and   *)
(* whether a new member, a member under the legacy settings file or a new  *)
(* administrator holds them.                                               *)
(***************************************************************************)
EXTENDS Naturals, FiniteSets

CONSTANTS
  Chars,        \* characters, numbered in the order of their creation
  Permissions,  \* world permissions
  Management,   \* those only an administrator may hold
  Recommended,  \* those a new administrator gets
  Newcomer,     \* those a new member gets
  Legacy,       \* those the settings file of an older version gives a member
  Nobody        \* no character

ASSUME AuthorityAssumption ==
  /\ Chars \subseteq Nat
  /\ Management \subseteq Permissions
  /\ Recommended \subseteq Permissions
  /\ Newcomer \subseteq Permissions \ Management
  /\ Legacy \subseteq Permissions \ Management
  /\ Nobody \notin Chars

VARIABLES
  staff,      \* employee_instances: absent, active or archived
  authority,  \* world_character_authorities: role and permissions
  decided,    \* the characters with a row in world_authority_changes
  adminPointer  \* worlds.administrator_employee_id

authorityVars == <<staff, authority, decided, adminPointer>>

Roles      == {"member", "administrator"}
\* The repository reads no row of a member that manages.
Authority  == [role : {"administrator"}, grants : SUBSET Permissions]
              \cup [role : {"member"}, grants : SUBSET (Permissions \ Management)]
NewMember  == [role |-> "member", grants |-> Newcomer]
NewAdmin   == [role |-> "administrator", grants |-> Recommended]

AuthorityTypes ==
  /\ staff \in [Chars -> {"absent", "active", "archived"}]
  /\ authority \in [Chars -> Authority]
  /\ decided \subseteq Chars
  /\ adminPointer \in Chars \cup {Nobody}

-----------------------------------------------------------------------------
(* Mutated forms of operators below *)

\* OthersAdminister: counts the archived ones, too.
MutOthersAdminister(c) == \E d \in Chars \ {c} : authority[d].role = "administrator"
\* Capped: demoting leaves the permissions as requested.
MutCapped(role, grants) == grants

-----------------------------------------------------------------------------
(* What the rows say *)

Active         == {c \in Chars : staff[c] = "active"}
Administers(c) == staff[c] = "active" /\ authority[c].role = "administrator"

\* hasPermission of the service
Holds(c, p) == staff[c] = "active" /\ p \in authority[c].grants

\* An active administrator other than c: c may be demoted or archived.
OthersAdminister(c) == \E d \in Chars \ {c} : Administers(d)

\* The eldest active administrator, by the rows given
Successor(status, rows) ==
  LET able == {c \in Chars : status[c] = "active" /\ rows[c].role = "administrator"} IN
  IF able = {} THEN Nobody ELSE CHOOSE c \in able : \A d \in able : c <= d

\* #syncCompatibilityPrimaryAdministrator: a pointer that still fits is kept.
Synced(status, rows) ==
  IF adminPointer # Nobody /\ status[adminPointer] = "active" /\ rows[adminPointer].role = "administrator"
  THEN adminPointer ELSE Successor(status, rows)

\* A member keeps no permission to manage.
Capped(role, grants) == IF role = "member" THEN grants \ Management ELSE grants

\* updateAuthority's guards: the target is active, the last administrator is not
\* demoted, and an actor that is a character manages permissions, is not the
\* target and hands out only what it holds itself.
MayUpdate(actor, c, role, grants) ==
  /\ staff[c] = "active"
  /\ authority[c].role = "administrator" /\ role = "member" => OthersAdminister(c)
  /\ actor # Nobody =>
       /\ actor # c
       /\ Administers(actor)
       /\ "manage" \in authority[actor].grants
       /\ grants \subseteq authority[actor].grants

\* commitWorldAuthorityChange: the row, its audit row and the pointer; nothing
\* is written when the row is as asked for already.
Commit(c, role, grants) ==
  LET row  == [role |-> role, grants |-> Capped(role, grants)]
      rows == [authority EXCEPT ![c] = row]
  IN IF row = authority[c] THEN UNCHANGED authorityVars
     ELSE /\ authority' = rows
          /\ decided' = decided \cup {c}
          /\ adminPointer' = Synced(staff, rows)
          /\ UNCHANGED staff

-----------------------------------------------------------------------------
(* The operations of the owner *)

\* recruitEmployee: the first character of a world without administrator
\* becomes it.
Recruit(c) ==
  /\ staff[c] = "absent"
  /\ \A d \in Chars : d < c => staff[d] # "absent"
  /\ staff' = [staff EXCEPT ![c] = "active"]
  /\ authority' = [authority EXCEPT ![c] = IF adminPointer = Nobody THEN NewAdmin ELSE NewMember]
  /\ adminPointer' = IF adminPointer = Nobody THEN c ELSE adminPointer
  /\ UNCHANGED decided

\* PUT .../authorities, and PUT .../administrator with the recommended grants
Assign(c, role, grants) == MayUpdate(Nobody, c, role, grants) /\ Commit(c, role, grants)

\* archiveEmployee of the service, then of the store: the pointer moves on.
Archive(c) ==
  /\ staff[c] = "active"
  /\ Administers(c) => OthersAdminister(c)
  /\ staff' = [staff EXCEPT ![c] = "archived"]
  /\ adminPointer' = IF adminPointer = c THEN Successor(staff', authority) ELSE Synced(staff', authority)
  /\ UNCHANGED <<authority, decided>>

\* setEmployeeStatus at the end of a run that began before its character was
\* archived (any character may be in one): the status is written whatever it is
\* by now.
Revive(c) ==
  /\ staff[c] = "archived"
  /\ staff' = [staff EXCEPT ![c] = "active"]
  /\ UNCHANGED <<authority, decided, adminPointer>>

\* WorldAuthorityBackfillService.run, at every start: the rows nobody decided
\* about yet get what the settings file of the older version gives.
Inheritors == {c \in Active : c \notin decided}
Inherited(c) ==
  IF authority[c].role = "administrator" THEN NewAdmin ELSE [NewMember EXCEPT !.grants = Legacy]
Backfill ==
  /\ authority' = [c \in Chars |-> IF c \in Inheritors THEN Inherited(c) ELSE authority[c]]
  /\ decided' = decided \cup {c \in Inheritors : Inherited(c) # authority[c]}
  /\ UNCHANGED <<staff, adminPointer>>
=============================================================================
