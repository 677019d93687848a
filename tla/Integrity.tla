----------------------------- MODULE Integrity -----------------------------
(***************************************************************************)
(* Reporting's orphan checks (module-reporting/src/job.rs and sql.rs).     *)
(* Four references cross from one module's table to another's with no      *)
(* foreign key.  A run takes the checks in order: one statement opens a    *)
(* finding for every row whose reference points at nothing, unless one is  *)
(* open; one resolves the open findings whose row is an orphan no more;    *)
(* at the end the open findings are counted.                               *)
(*                                                                         *)
(* Each statement reads on one snapshot and writes a moment later, and is  *)
(* a transaction of its own, while the modules go on: an administrator     *)
(* deletes a genre, someone restores a row by hand.  A host's runs, the    *)
(* nightly one and those asked for, go through one work queue and never    *)
(* overlap; those of two hosts may.  A run may end at any statement.       *)
(***************************************************************************)
EXTENDS Integers, Sequences, FiniteSets, SequencesExt

CONSTANTS
    Hosts,
    ORPHAN_CHECKS, \* the checks' names, in order
    Reference,     \* [Range(ORPHAN_CHECKS) -> [source row -> target id or Null]]
    Targets,       \* [Range(ORPHAN_CHECKS) -> the target ids there are at first]
    Null,
    MaxChanges,    \* bound: target rows deleted or restored
    MaxFaults      \* bound: runs cut short

CheckNames == Range(ORPHAN_CHECKS)

ASSUME IntegrityAssumption ==
    /\ MaxChanges \in Nat /\ MaxFaults \in Nat
    /\ ORPHAN_CHECKS \in Seq(CheckNames) /\ ORPHAN_CHECKS # <<>>
    /\ DOMAIN Reference = CheckNames
    /\ Targets \in [CheckNames -> SUBSET UNION {Targets[c] : c \in CheckNames}]

VARIABLES
    targets,  \* the target rows there are
    open,     \* the findings with no ResolvedAt: <<check, source row>>
    phase,    \* [Hosts -> where the run is]
    at,       \* [Hosts -> the check it is at]
    seen,     \* [Hosts -> what the statement under way has read]
    detected, \* [Hosts -> Nat]
    resolved, \* [Hosts -> Nat]
    counted,  \* [Hosts -> the open findings it reports]
    lasting,  \* [Hosts -> orphans since the run began] (history)
    sound,    \* [Hosts -> rows that were no orphan since the run began] (history)
    alone,    \* [Hosts -> no other run was under way since it began] (history)
    before,   \* [Hosts -> findings open when it began] (history)
    changes, faults

resultVars  == <<detected, resolved, counted>>
historyVars == <<lasting, sound, alone, before>>
jobVars     == <<targets, open, phase, at, seen, resultVars, historyVars, changes, faults>>

-----------------------------------------------------------------------------

Rows == UNION {{<<c, s>> : s \in DOMAIN Reference[c]} : c \in CheckNames}

ASSUME TablesAssumption == IsFiniteSet(Rows)

\* A null reference is no orphan's.
IsOrphan(row, there) ==
    /\ Reference[row[1]][row[2]] # Null
    /\ Reference[row[1]][row[2]] \notin there[row[1]]

Orphans(there) == {row \in Rows : IsOrphan(row, there)}

Of(check, rows) == {row \in rows : row[1] = check}

Check(h) == ORPHAN_CHECKS[at[h]]

Running(h) == phase[h] # "idle"

-----------------------------------------------------------------------------
(* The modules *)

\* A target row goes, or comes back.
Change(c, ids) ==
    /\ changes < MaxChanges
    /\ changes' = changes + 1
    /\ targets' = [targets EXCEPT ![c] = ids]
    /\ lasting' = [h \in Hosts |-> lasting[h] \cap Orphans(targets')]
    /\ sound' = [h \in Hosts |-> sound[h] \ Orphans(targets')]
    /\ UNCHANGED <<open, phase, at, seen, resultVars, alone, before, faults>>

DeleteTarget(c, id)  == id \in targets[c] /\ Change(c, targets[c] \ {id})
RestoreTarget(c, id) == id \in Targets[c] \ targets[c] /\ Change(c, targets[c] \cup {id})

-----------------------------------------------------------------------------
(* A run *)

\* The queue's consumer takes the run.
Begin(h) ==
    /\ phase[h] = "idle"
    /\ phase' = [phase EXCEPT ![h] = "detect"]
    /\ at' = [at EXCEPT ![h] = 1]
    /\ detected' = [detected EXCEPT ![h] = 0]
    /\ resolved' = [resolved EXCEPT ![h] = 0]
    /\ counted' = [counted EXCEPT ![h] = 0]
    /\ lasting' = [lasting EXCEPT ![h] = Orphans(targets)]
    /\ sound' = [sound EXCEPT ![h] = Rows \ Orphans(targets)]
    /\ alone' = [o \in Hosts |-> IF o = h THEN \A other \in Hosts : ~Running(other)
                                 ELSE alone[o] /\ ~Running(o)]
    /\ before' = [before EXCEPT ![h] = Cardinality(open)]
    /\ UNCHANGED <<targets, open, seen, changes, faults>>

\* SELECT ... WHERE orphan: the rows to record.
ReadOrphans(h) ==
    /\ phase[h] = "detect"
    /\ seen' = [seen EXCEPT ![h] = Of(Check(h), Orphans(targets))]
    /\ phase' = [phase EXCEPT ![h] = "open"]
    /\ UNCHANGED <<targets, open, at, resultVars, historyVars, changes, faults>>

\* INSERT ... ON CONFLICT ... WHERE "ResolvedAt" IS NULL DO NOTHING
OpenFindings(h) ==
    /\ phase[h] = "open"
    /\ open' = open \cup seen[h]
    /\ detected' = [detected EXCEPT ![h] = @ + Cardinality(seen[h] \ open)]
    /\ seen' = [seen EXCEPT ![h] = {}]
    /\ phase' = [phase EXCEPT ![h] = "resolve"]
    /\ UNCHANGED <<targets, at, resolved, counted, historyVars, changes, faults>>

\* Without f."CheckName" = $1.
Resolvable_AnyCheck(h) == open \ Of(Check(h), Orphans(targets))

Resolvable(h) == Of(Check(h), open \ Orphans(targets))

\* UPDATE ... WHERE "ResolvedAt" IS NULL AND NOT EXISTS orphan: the findings to
\* resolve.
ReadResolved(h) ==
    /\ phase[h] = "resolve"
    /\ seen' = [seen EXCEPT ![h] = Resolvable(h)]
    /\ phase' = [phase EXCEPT ![h] = "close"]
    /\ UNCHANGED <<targets, open, at, resultVars, historyVars, changes, faults>>

\* The checks after the first are left for the next run.
NextCheck_OnlyOne(h) == phase' = [phase EXCEPT ![h] = "count"] /\ UNCHANGED at

NextCheck(h) ==
    IF at[h] < Len(ORPHAN_CHECKS)
    THEN /\ at' = [at EXCEPT ![h] = @ + 1]
         /\ phase' = [phase EXCEPT ![h] = "detect"]
    ELSE phase' = [phase EXCEPT ![h] = "count"] /\ UNCHANGED at

\* Another host's UPDATE finds a row resolved meanwhile and passes it over, also
\* when a new finding of the same row is open by then.
CloseFindings(h) ==
    /\ phase[h] = "close"
    /\ open' = open \ seen[h]
    /\ resolved' = [resolved EXCEPT ![h] = @ + Cardinality(seen[h] \cap open)]
    /\ seen' = [o \in Hosts |-> IF o = h THEN {}
                                ELSE IF phase[o] = "close" THEN seen[o] \ seen[h] ELSE seen[o]]
    /\ NextCheck(h)
    /\ UNCHANGED <<targets, detected, counted, historyVars, changes, faults>>

\* SELECT COUNT(*) ... WHERE "ResolvedAt" IS NULL
OpenCount(h) == Cardinality(open)

Tally(h) ==
    /\ phase[h] = "count"
    /\ counted' = [counted EXCEPT ![h] = OpenCount(h)]
    /\ phase' = [phase EXCEPT ![h] = "done"]
    /\ UNCHANGED <<targets, open, at, seen, detected, resolved, historyVars, changes, faults>>

\* The result is answered or logged.
Rest(h) ==
    /\ phase' = [phase EXCEPT ![h] = "idle"]
    /\ at' = [at EXCEPT ![h] = 0]
    /\ seen' = [seen EXCEPT ![h] = {}]
    /\ detected' = [detected EXCEPT ![h] = 0]
    /\ resolved' = [resolved EXCEPT ![h] = 0]
    /\ counted' = [counted EXCEPT ![h] = 0]
    /\ lasting' = [lasting EXCEPT ![h] = {}]
    /\ sound' = [sound EXCEPT ![h] = {}]
    /\ alone' = [alone EXCEPT ![h] = FALSE]
    /\ before' = [before EXCEPT ![h] = 0]
    /\ UNCHANGED <<targets, open, changes>>

Report(h) == phase[h] = "done" /\ Rest(h) /\ UNCHANGED faults

\* A statement fails, or the host ends: what is committed stays.
Fail(h) ==
    /\ phase[h] \notin {"idle", "done"}
    /\ faults < MaxFaults
    /\ faults' = faults + 1
    /\ Rest(h)

Step(h) ==
    \/ ReadOrphans(h) \/ OpenFindings(h) \/ ReadResolved(h) \/ CloseFindings(h)
    \/ Tally(h) \/ Report(h)

-----------------------------------------------------------------------------

IntegrityInit ==
    /\ targets = Targets
    /\ open = {}
    /\ phase = [h \in Hosts |-> "idle"]
    /\ at = [h \in Hosts |-> 0]
    /\ seen = [h \in Hosts |-> {}]
    /\ detected = [h \in Hosts |-> 0] /\ resolved = [h \in Hosts |-> 0]
    /\ counted = [h \in Hosts |-> 0]
    /\ lasting = [h \in Hosts |-> {}] /\ sound = [h \in Hosts |-> {}]
    /\ alone = [h \in Hosts |-> FALSE] /\ before = [h \in Hosts |-> 0]
    /\ changes = 0 /\ faults = 0

IntegrityNext ==
    \/ \E c \in CheckNames : \E id \in Targets[c] : DeleteTarget(c, id) \/ RestoreTarget(c, id)
    \/ \E h \in Hosts : Begin(h) \/ Step(h) \/ Fail(h)

IntegritySpec == IntegrityInit /\ [][IntegrityNext]_jobVars

\* The job runs every night, and a statement under way comes to an end.
IntegrityFairness == \A h \in Hosts : WF_jobVars(Begin(h)) /\ WF_jobVars(Step(h))

IntegrityFairSpec == IntegritySpec /\ IntegrityFairness

-----------------------------------------------------------------------------
(* Properties *)

IntegrityTypeOK ==
    /\ targets \in [CheckNames -> SUBSET UNION {Targets[c] : c \in CheckNames}]
    /\ open \subseteq Rows
    /\ phase \in [Hosts -> {"idle", "detect", "open", "resolve", "close", "count", "done"}]
    /\ at \in [Hosts -> 0..Len(ORPHAN_CHECKS)]
    /\ seen \in [Hosts -> SUBSET Rows]
    /\ detected \in [Hosts -> Nat] /\ resolved \in [Hosts -> Nat] /\ counted \in [Hosts -> Nat]
    /\ lasting \in [Hosts -> SUBSET Rows] /\ sound \in [Hosts -> SUBSET Rows]
    /\ alone \in [Hosts -> BOOLEAN] /\ before \in [Hosts -> Nat]
    /\ changes \in 0..MaxChanges /\ faults \in 0..MaxFaults

\* A run that had the table to itself ends with a finding open for every row
\* that was an orphan throughout, and none for a row that never was, whatever
\* happened to the others between its statements; and its three numbers add up:
\* what was open, and was detected, is resolved or still open.
RunsAreExact ==
    \A h \in Hosts : phase[h] = "done" /\ alone[h] =>
        /\ lasting[h] \subseteq open
        /\ sound[h] \cap open = {}
        /\ before[h] + detected[h] = resolved[h] + counted[h]

\* Once the modules' rows stay as they are, the open findings come to be exactly
\* the orphans, and stay so: through runs that overlap, and read what another
\* had not written, and runs cut short.
FindingsConverge == <>[](open = Orphans(targets))
=============================================================================
