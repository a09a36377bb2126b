----------------------------- MODULE HookConfig -----------------------------
(***************************************************************************)
(* The two columns of a job and the metadata row that say which on_finish  *)
(* hook it has: what `job add', `job update' and `scheduler on-finish'     *)
(* accept and store (internal/app/job.go, on_finish_support.go, scheduler  *)
(* .go; internal/domain/on_finish.go; validateJob of internal/sqlite), and *)
(* what the daemon makes of it (internal/daemon/on_finish.go).  One        *)
(* command at a time: their races are the subject of OnFinish and Service. *)
(***************************************************************************)
EXTENDS Integers

CONSTANTS
    Configs,        \* the configurations that may be given as JSON, good or bad
    Null,           \* no configuration, and no row
    Malformed,      \* an argument of --on-finish-config-json that is not JSON
    Empty, Absent,  \* an empty argument, and the flag not given
    DefaultCommandTimeoutMS, DefaultHTTPTimeoutMS, DefaultRetryCount, DefaultRetryBackoffMS

\* on_finish_json, and a row's two columns.
Config ==
    [type : {"command", "http", "other"}, timeout : Int, retries : Int, backoff : Int,
     command : {"none", "blank", "program"}, http : {"none", "blank", "remote", "loopback"}]
Columns == [json : Config \cup {Null}, disabled : BOOLEAN]

ASSUME ConfigsAssumption == Configs \subseteq Config
ASSUME DistinctAssumption ==
    /\ \A x \in {Null, Malformed, Empty, Absent} : x \notin Config /\ x \notin Columns
    /\ Null \notin {Malformed, Empty, Absent} /\ Malformed \notin {Empty, Absent}
    /\ Empty # Absent
ASSUME NumbersAssumption ==
    {DefaultCommandTimeoutMS, DefaultHTTPTimeoutMS, DefaultRetryCount,
     DefaultRetryBackoffMS} \subseteq Nat \ {0}

VARIABLES
    row,            \* on_finish_json and disable_inherited_on_finish of the job,
                    \* or Null
    meta,           \* on_finish_json of the instance
    last            \* the last command, and what came of it

vars == <<row, meta, last>>

-----------------------------------------------------------------------------
(* Configurations.                                                         *)

\* Mutant: retries are counted from one.
NormalizeCounting(c) == [c EXCEPT !.retries = @ + 1]

\* Mutant: no retry_count is kept as -1, for no limit.
NormalizeUnlimited(c) == [c EXCEPT !.retries = IF @ = 0 THEN -1 ELSE @]

\* NormalizeOnFinishConfig: what it refuses, and the defaults it fills in.
IsValid(c) ==
    /\ c.timeout >= 0 /\ c.retries >= 0 /\ c.backoff >= 0
    /\ \/ c.type = "command" /\ c.command = "program" /\ c.http = "none"
       \/ c.type = "http" /\ c.http = "loopback" /\ c.command = "none"

DefaultTimeoutMS(c) ==
    IF c.type = "command" THEN DefaultCommandTimeoutMS ELSE DefaultHTTPTimeoutMS

Normalize(c) ==
    [c EXCEPT !.timeout = IF @ = 0 THEN DefaultTimeoutMS(c) ELSE @,
              !.retries = IF @ = 0 THEN DefaultRetryCount ELSE @,
              !.backoff = IF @ = 0 THEN DefaultRetryBackoffMS ELSE @]

\* ParseOnFinishConfigJSON; a zero is left out of the JSON and read back as zero.
Parses(raw) == raw # Malformed /\ IsValid(raw)

\* MarshalOnFinishConfigJSON
Marshal(c) == IF c = Null THEN Null ELSE Normalize(c)

-----------------------------------------------------------------------------
(* The commands.                                                           *)

\* The flags of `job update' about hooks: the argument of the first, if any,
\* and whether each of the others is given.
Flags ==
    [config : Configs \cup {Malformed, Empty, Absent}, clear : BOOLEAN,
     disable : BOOLEAN, inherit : BOOLEAN]

Conflict(f) ==
    \/ f.config # Absent /\ f.clear
    \/ f.disable /\ f.inherit
    \/ f.config # Absent /\ f.disable

GivesConfig(f) == f.config \notin {Empty, Absent}

\* parseOptionalOnFinishConfig
Given(f) == IF GivesConfig(f) THEN Normalize(f.config) ELSE Null

\* Mutant: a new hook leaves the other column alone.
AskedOnlyConfig(f) ==
    [json     |-> IF f.config # Absent THEN Given(f)
                  ELSE IF f.clear \/ f.disable THEN Null ELSE row.json,
     disabled |-> f.disable \/ (row.disabled /\ ~f.inherit)]

\* The row as the flags change it, in the order of newJobUpdateCommand.
Asked(f) ==
    [json     |-> CASE f.config # Absent                            -> Given(f)
                    [] f.config = Absent /\ (f.clear \/ f.disable)  -> Null
                    [] f.config = Absent /\ ~(f.clear \/ f.disable) -> row.json,
     disabled |-> f.disable \/ (row.disabled /\ ~f.inherit /\ f.config = Absent)]

\* Mutant: --inherit-on-finish counts as a change when there is a hook.
ChangedMisread(f) ==
    \/ f.config # Absent /\ Asked(f) # row
    \/ (f.clear \/ f.disable \/ f.inherit) /\ row.json # Null

\* Whether the command has anything to write (`changed').
Changed(f) ==
    \/ f.config # Absent /\ (Marshal(Asked(f).json) # Marshal(row.json) \/ row.disabled)
    \/ f.clear /\ row.json # Null
    \/ f.disable /\ (~row.disabled \/ row.json # Null)
    \/ f.inherit /\ row.disabled

\* validateJob
Refused(r) == r.json # Null /\ r.disabled

Command(op, f, outcome) == last' = [op |-> op, flags |-> f, outcome |-> outcome]

\* The name of job add is taken, or its configuration bad: nothing is stored.
JobAdd(f) ==
    /\ ~f.clear /\ ~f.inherit
    /\ LET r == [json |-> Marshal(Given(f)), disabled |-> f.disable] IN
       IF \/ row # Null \/ (GivesConfig(f) /\ f.disable)
          \/ GivesConfig(f) /\ ~Parses(f.config)
       THEN Command("add", f, "error") /\ UNCHANGED row
       ELSE IF Refused(r) THEN Command("add", f, "refused") /\ UNCHANGED row
       ELSE Command("add", f, "ok") /\ row' = r
    /\ UNCHANGED meta

JobUpdate(f) ==
    /\ row # Null
    /\ f # [config |-> Absent, clear |-> FALSE, disable |-> FALSE, inherit |-> FALSE]
    /\ IF Conflict(f) \/ (GivesConfig(f) /\ ~Parses(f.config))
       THEN Command("update", f, "error") /\ UNCHANGED row
       ELSE IF ~Changed(f) THEN Command("update", f, "ok") /\ UNCHANGED row
       ELSE IF Refused(Asked(f)) THEN Command("update", f, "refused") /\ UNCHANGED row
       ELSE /\ Command("update", f, "ok")
            /\ row' = [Asked(f) EXCEPT !.json = Marshal(@)]
    /\ UNCHANGED meta

\* Every other update writes the two columns back as it has read them.
JobRewrite ==
    /\ row # Null
    /\ row' = [row EXCEPT !.json = Marshal(@)]
    /\ last' = [op |-> "rewrite"] /\ UNCHANGED meta

\* scheduler on-finish set and clear; a start of the daemon writes it back.
SetDefault(c) ==
    /\ c = Null \/ (c # Null /\ Parses(c))
    /\ meta' = Marshal(c)
    /\ last' = [op |-> "default"] /\ UNCHANGED row

DefaultRewrite ==
    /\ meta' = Marshal(meta)
    /\ last' = [op |-> "start"] /\ UNCHANGED row

\* OnFinishDispatcher.resolveConfig
ResolvedHook ==
    CASE row.json # Null                  -> Normalize(row.json)
      [] row.json = Null /\ row.disabled  -> Null
      [] row.json = Null /\ ~row.disabled -> Marshal(meta)

-----------------------------------------------------------------------------
Init == row = Null /\ meta = Null /\ last = [op |-> "none"]

Next ==
    \/ \E f \in Flags : JobAdd(f) \/ JobUpdate(f)
    \/ JobRewrite \/ DefaultRewrite
    \/ \E c \in Configs \cup {Null} : SetDefault(c)

Spec == Init /\ [][Next]_vars

-----------------------------------------------------------------------------
(* Properties.                                                             *)

Stored(json) == json = Null \/ (json # Null /\ Parses(json))

\* The columns hold nothing, or JSON that scanJob and MetadataStore.Get can
\* parse: one row that they could not would make ListDue fail for all jobs.
StoredHooksParse ==
    /\ row = Null \/ (row # Null /\ Stored(row.json) /\ row.disabled \in BOOLEAN)
    /\ Stored(meta)

\* What is stored does not change by being read and written back.
RewritesChangeNothing ==
    [][last'.op \in {"rewrite", "start"} => UNCHANGED <<row, meta>>]_vars

\* A combination of flags that `job update' lets pass is not refused by the
\* store, whatever the row was before.
LegalFlagsSucceed == last.op \in {"add", "update"} => last.outcome # "refused"

\* After a command that succeeded, also one that found nothing to change, the
\* daemon resolves the hook its flags ask for.
HookIsAsAsked ==
    last.op \in {"add", "update"} /\ last.outcome = "ok" =>
        LET f == last.flags IN
        /\ GivesConfig(f) => ResolvedHook = Normalize(f.config)
        /\ f.disable => ResolvedHook = Null
        /\ f.config = Empty \/ (f.clear /\ f.inherit) => f.disable \/ ResolvedHook = meta
        /\ f.clear => row.json = Null
        /\ f.inherit => ~row.disabled

=============================================================================
