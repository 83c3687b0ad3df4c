-------------------------- MODULE CharacterGrowth --------------------------
(***************************************************************************)
(* The dossier of the characters: milestones, daily journals, skills and   *)
(* their evidence, profiles and relationships, which the owner edits       *)
(* (employee-routes.ts, sqlite-store.ts) and which the projection of the   *)
(* completed turns fills in (employee-activity-projection-service.ts).     *)
(*                                                                         *)
(* The projection of one character runs without giving up the thread, but  *)
(* each milestone and each journal is a transaction of its own: a crash    *)
(* may fall between any two, and so may the command line's prune, which    *)
(* is another process on the same database.                                *)
(*                                                                         *)
(* One session is modelled, its messages in order; a turn's kind is        *)
(* the interactionKind of its prompt.  What texts say is left out.         *)
(***************************************************************************)
EXTENDS Integers, FiniteSets, Sequences

CONSTANTS
    Folk,          \* the characters
    Turns,         \* the agent runs
    ByOf,          \* the character of each run
    KindOf,        \* the interactionKind of each run's prompt: "chat" or "task"
    DayOf,         \* the local date at which each run completes
    Days,          \* the local dates
    ListLimit,     \* how many milestones the projection reads (500 in the code)
    MaxWrites,     \* bound: records the owner writes by hand
    MaxDeaths      \* bound: crashes of the server

GrowthKinds == [Turns -> {"chat", "task"}]

ASSUME GrowthAssumption ==
    /\ ByOf \in [Turns -> Folk]
    /\ KindOf \in GrowthKinds
    /\ DayOf \in [Turns -> Days]
    /\ ListLimit \in Nat \ {0} /\ MaxWrites \in Nat /\ MaxDeaths \in Nat

VARIABLES
    told,          \* the session's messages: who speaks, in which run
    closed,        \* the turn.completed events, in order
    pruned,        \* the runs whose event was pruned
    marks,         \* for each run, the milestones the projection made of it
    ownMarks,      \* the runs a milestone of the owner's names
    diary,         \* for each character and date, the newest journal
    notes,         \* for each run, the journals the projection wrote of it
    proofs,        \* the outcomes of the evidence of each character's skill
    skill,         \* the newest revision of each character's skill
    profile,       \* the number of each character's newest profile
    bonds,         \* interactions counted on each side of a pair
    owed,          \* the characters whose projection is due
    walk,          \* the projection under way
    booting,       \* the server is starting: nothing is served
    writes,        \* records written by the owner
    deaths         \* crashes so far

growthVars == <<told, closed, pruned, marks, ownMarks, diary, notes, proofs, skill,
                profile, bonds, owed, walk, booting, writes, deaths>>

dossierVars == <<marks, ownMarks, diary, notes, proofs, skill, profile, bonds>>

Outcomes == {"observed", "passed", "failed"}
SkillStatuses == {"none", "learning", "verified", "suspended"}

\* A projection: of whom, the places in closed still to be looked at, and the
\* runs it takes for marked and for noted.
NoWalk == [who |-> "nobody", left |-> {}, marked |-> {}, noted |-> {}]
Blank == [rev |-> 0, of |-> {}]

GrowthTypes ==
    /\ told \in Seq([by : {"owner", "self"}, run : Turns])
    /\ closed \in Seq(Turns)
    /\ pruned \subseteq Turns
    /\ marks \in [Turns -> 0 .. 2]
    /\ ownMarks \subseteq Turns
    /\ diary \in [Folk -> [Days -> [rev : Nat, of : SUBSET Turns]]]
    /\ notes \in [Turns -> Nat]
    /\ proofs \in [Folk -> SUBSET Outcomes]
    /\ skill \in [Folk -> [rev : Nat, st : SkillStatuses]]
    /\ profile \in [Folk -> Nat]
    /\ bonds \in [Folk \X Folk -> Nat]
    /\ owed \subseteq Folk
    /\ walk = NoWalk \/ walk.who \in Folk
    /\ booting \in BOOLEAN
    /\ writes \in 0 .. MaxWrites
    /\ deaths \in 0 .. MaxDeaths

\* Recruitment writes revision 1 of the profile and the joining milestone,
\* which names no run.
GrowthInit ==
    /\ told = << >>
    /\ closed = << >>
    /\ pruned = {}
    /\ marks = [t \in Turns |-> 0]
    /\ ownMarks = {}
    /\ diary = [c \in Folk |-> [d \in Days |-> Blank]]
    /\ notes = [t \in Turns |-> 0]
    /\ proofs = [c \in Folk |-> {}]
    /\ skill = [c \in Folk |-> [rev |-> 0, st |-> "none"]]
    /\ profile = [c \in Folk |-> 1]
    /\ bonds = [p \in Folk \X Folk |-> 0]
    /\ owed = {}
    /\ walk = NoWalk
    /\ booting = FALSE
    /\ writes = 0
    /\ deaths = 0

-----------------------------------------------------------------------------
\* The transcript.

Ended == {closed[i] : i \in 1 .. Len(closed)}
Events == Ended \ pruned

At(by, t) == {i \in 1 .. Len(told) : told[i] = [by |-> by, run |-> t]}
Asked(t) == At("owner", t) # {}
Spoken(t) == At("self", t) # {}

\* The prompt the projection takes for a run: the owner's last message before
\* the run's first, whichever run that message began.
FirstSaid(t) == CHOOSE i \in At("self", t) : \A j \in At("self", t) : i <= j
PromptsBefore(t) == {i \in 1 .. FirstSaid(t) - 1 : told[i].by = "owner"}
PromptOf(t) ==
    told[CHOOSE i \in PromptsBefore(t) : \A j \in PromptsBefore(t) : j <= i].run

\* An ordinary exchange makes no milestone.
Notable(t) == KindOf[PromptOf(t)] = "task"

-----------------------------------------------------------------------------
\* A run of a character.

Serving == walk = NoWalk /\ ~booting

Ask(t) ==
    /\ Serving
    /\ ~Asked(t)
    /\ told' = Append(told, [by |-> "owner", run |-> t])
    /\ UNCHANGED <<closed, pruned, dossierVars, owed, walk, booting, writes, deaths>>

\* The answer is stored when the runtime sends it, or, when it sent none, after
\* the turn has ended.
Answer(t) ==
    /\ Serving
    /\ Asked(t)
    /\ ~Spoken(t)
    /\ told' = Append(told, [by |-> "self", run |-> t])
    /\ UNCHANGED <<closed, pruned, dossierVars, owed, walk, booting, writes, deaths>>

EndTurn(t) ==
    /\ Serving
    /\ Asked(t)
    /\ t \notin Ended
    /\ closed' = Append(closed, t)
    /\ UNCHANGED <<told, pruned, dossierVars, owed, walk, booting, writes, deaths>>

\* The handler of the conversation projects its characters at its end; a
\* schedule's run does the same.
Conclude(t) ==
    /\ Serving
    /\ Spoken(t)
    /\ t \in Ended
    /\ owed' = owed \cup {ByOf[t]}
    /\ UNCHANGED <<told, closed, pruned, dossierVars, walk, booting, writes, deaths>>

-----------------------------------------------------------------------------
\* The projection.

Before(t, u) ==
    \E i, j \in 1 .. Len(closed) : i < j /\ closed[i] = t /\ closed[j] = u

\* The runs named by the newest ListLimit milestones of a character.
Marked(c) == {t \in Turns : ByOf[t] = c /\ (marks[t] > 0 \/ t \in ownMarks)}
MutListed(c) == {}
Listed(c) ==
    {t \in Marked(c) : Cardinality({u \in Marked(c) : Before(t, u)}) < ListLimit}

\* The runs named by the newest journal of each date.
Journaled(c) == UNION {diary[c][d].of : d \in Days}

BeginWalk(c) ==
    /\ walk = NoWalk
    /\ c \in owed
    /\ walk' = [who    |-> c,
                left   |-> {i \in DOMAIN closed : ByOf[closed[i]] = c /\ closed[i] \in Events},
                marked |-> Listed(c),
                noted  |-> Journaled(c)]
    /\ UNCHANGED <<told, closed, pruned, dossierVars, owed, booting, writes, deaths>>

\* The events are taken in their order.
Nearest == CHOOSE i \in walk.left : \A j \in walk.left : i <= j
Here == closed[Nearest]
Passed == walk.left \ {Nearest}

\* A growth record whose source is gone is refused; the projection throws, and
\* the server that is starting does not come up.
Refused ==
    /\ owed' = IF booting THEN owed ELSE owed \ {walk.who}
    /\ walk' = NoWalk
    /\ UNCHANGED <<told, closed, pruned, dossierVars, booting, writes, deaths>>

Silent ==
    /\ walk.left # {}
    /\ ~Spoken(Here)
    /\ walk' = [walk EXCEPT !.left = Passed]
    /\ UNCHANGED <<told, closed, pruned, dossierVars, owed, booting, writes, deaths>>

ToMark == Notable(Here) /\ Here \notin walk.marked

Mark ==
    /\ walk.left # {}
    /\ Spoken(Here)
    /\ ToMark
    /\ IF Here \in pruned
       THEN Refused
       ELSE /\ marks' = [marks EXCEPT ![Here] = @ + 1]
            /\ walk' = [walk EXCEPT !.marked = @ \cup {Here}]
            /\ UNCHANGED <<told, closed, pruned, ownMarks, diary, notes, proofs, skill,
                           profile, bonds, owed, booting, writes, deaths>>

\* The newest journal of the date is read again, and what it names must still
\* exist.
Page(c, d, runs) == [rev |-> diary[c][d].rev + 1, of |-> runs]
MutNewPage(c, d, t) == Page(c, d, {t})
NewPage(c, d, t) == Page(c, d, diary[c][d].of \cup {t})

Note ==
    /\ walk.left # {}
    /\ Spoken(Here)
    /\ ~ToMark
    /\ LET page == NewPage(walk.who, DayOf[Here], Here) IN
       CASE Here \in walk.noted ->
              /\ walk' = [walk EXCEPT !.left = Passed]
              /\ UNCHANGED <<diary, notes, owed>>
         [] Here \notin walk.noted /\ page.of \cap pruned # {} ->
              /\ owed' = IF booting THEN owed ELSE owed \ {walk.who}
              /\ walk' = NoWalk
              /\ UNCHANGED <<diary, notes>>
         [] OTHER ->
              /\ diary' = [diary EXCEPT ![walk.who][DayOf[Here]] = page]
              /\ notes' = [notes EXCEPT ![Here] = @ + 1]
              /\ walk' = [walk EXCEPT !.left = Passed, !.noted = @ \cup {Here}]
              /\ UNCHANGED owed
    /\ UNCHANGED <<told, closed, pruned, marks, ownMarks, proofs, skill, profile,
                   bonds, booting, writes, deaths>>

\* The last character projected, a starting server serves.
EndWalk ==
    /\ walk # NoWalk
    /\ walk.left = {}
    /\ walk' = NoWalk
    /\ owed' = owed \ {walk.who}
    /\ booting' = (booting /\ owed' # {})
    /\ UNCHANGED <<told, closed, pruned, dossierVars, writes, deaths>>

-----------------------------------------------------------------------------
\* What the owner writes.  Each record names a source that exists.

\* The store's own conditions and effects.
Proved(c, o) == [proofs EXCEPT ![c] = @ \cup {o}]
MayRevise(c, st) == st = "verified" => "passed" \in proofs[c]
Revised(c, st) == [skill EXCEPT ![c] = [rev |-> @.rev + 1, st |-> st]]
Rewritten(c) == [profile EXCEPT ![c] = @ + 1]

ByHand ==
    /\ Serving
    /\ writes < MaxWrites
    /\ writes' = writes + 1
    /\ UNCHANGED <<told, closed, pruned, owed, walk, booting, deaths>>

WriteJournal(c, d) ==
    /\ ByHand
    /\ \E t \in Events : diary' = [diary EXCEPT ![c][d] = Page(c, d, {t})]
    /\ UNCHANGED <<marks, ownMarks, notes, proofs, skill, profile, bonds>>

AppendMilestone ==
    /\ ByHand
    /\ \E t \in Events : ownMarks' = ownMarks \cup {t}
    /\ UNCHANGED <<marks, diary, notes, proofs, skill, profile, bonds>>

RecordEvidence(c) ==
    /\ ByHand
    /\ Events # {} \/ told # << >>
    /\ \E o \in Outcomes : proofs' = Proved(c, o)
    /\ UNCHANGED <<marks, ownMarks, diary, notes, skill, profile, bonds>>

ReviseSkill(c) ==
    /\ ByHand
    /\ \E st \in SkillStatuses \ {"none"} :
          /\ MayRevise(c, st)
          /\ skill' = Revised(c, st)
    /\ UNCHANGED <<marks, ownMarks, diary, notes, proofs, profile, bonds>>

ReviseProfile(c) ==
    /\ ByHand
    /\ profile' = Rewritten(c)
    /\ UNCHANGED <<marks, ownMarks, diary, notes, proofs, skill, bonds>>

\* Two characters of one session worked together: both sides are counted.
Interact(c, d) ==
    /\ ByHand
    /\ c # d
    /\ bonds' = [bonds EXCEPT ![<<c, d>>] = @ + 1, ![<<d, c>>] = @ + 1]
    /\ UNCHANGED <<marks, ownMarks, diary, notes, proofs, skill, profile>>

-----------------------------------------------------------------------------
\* The command line deletes the events before a cutoff.
Prune ==
    /\ \E n \in 1 .. Len(closed) :
          LET old == {closed[i] : i \in 1 .. n} IN
          /\ ~ old \subseteq pruned
          /\ pruned' = pruned \cup old
    /\ UNCHANGED <<told, closed, dossierVars, owed, walk, booting, writes, deaths>>

\* A starting server projects every character before it serves.
CrashInGrowth ==
    /\ deaths < MaxDeaths
    /\ deaths' = deaths + 1
    /\ owed' = Folk
    /\ walk' = NoWalk
    /\ booting' = TRUE
    /\ UNCHANGED <<told, closed, pruned, dossierVars, writes>>

GrowthNext ==
    \/ \E t \in Turns : Ask(t) \/ Answer(t) \/ EndTurn(t) \/ Conclude(t)
    \/ \E c \in Folk : BeginWalk(c)
    \/ Silent \/ Mark \/ Note \/ EndWalk
    \/ \E c \in Folk, d \in Days : WriteJournal(c, d)
    \/ AppendMilestone
    \/ \E c \in Folk : RecordEvidence(c) \/ ReviseSkill(c) \/ ReviseProfile(c)
    \/ \E c, d \in Folk : Interact(c, d)
    \/ Prune
    \/ CrashInGrowth

GrowthSpec == GrowthInit /\ [][GrowthNext]_growthVars

-----------------------------------------------------------------------------
(***************************************************************************)
(* A completed run makes at most one milestone, however often the          *)
(* projection is repeated, wherever it was cut off, and whatever the owner *)
(* and the prune did in between; and a projection that goes through leaves *)
(* every run of the character that ended and spoke named by the newest     *)
(* journal of a date.  That is its own date, unless the owner wrote of it  *)
(* under another.                                                          *)
(***************************************************************************)
Written(c) ==
    \A t \in Events : ByOf[t] = c /\ Spoken(t) => t \in Journaled(c)

GrowthIsKept ==
    /\ \A t \in Turns : marks[t] <= 1
    /\ walk # NoWalk /\ walk.left = {} => Written(walk.who)

(***************************************************************************)
(* "Re-running the projection is safe: a completed turn event is consumed  *)
(* at most once by each growth record" (employee-activity-projection-      *)
(* service.ts:6).                                                          *)
(***************************************************************************)
ConsumedOnce == \A t \in Turns : marks[t] <= 1 /\ notes[t] <= 1
=============================================================================
