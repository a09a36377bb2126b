-------------------------- MODULE HookConfigProofs --------------------------
(***************************************************************************)
(* Proofs about HookConfig, for any set of configurations, any defaults    *)
(* and any sequence of commands.                                           *)
(***************************************************************************)
EXTENDS HookConfig, TLAPS

\* A configuration that normalizing leaves as it is: what the columns hold.
Normal(c) ==
    c \in Config /\ IsValid(c) /\ c.timeout > 0 /\ c.retries > 0 /\ c.backoff > 0

NormalOrNull(json) == json = Null \/ Normal(json)

\* Nothing but normal configurations is stored, and never one beside a set
\* disable column.
GoodRow(r) == r \in Columns /\ NormalOrNull(r.json) /\ ~(r.json # Null /\ r.disabled)

HookInv ==
    /\ row = Null \/ GoodRow(row)
    /\ NormalOrNull(meta)

USE DEF vars

-----------------------------------------------------------------------------
(* The operators on configurations.                                        *)

LEMMA NamesDiffer ==
    /\ Null \notin Config /\ Malformed \notin Config /\ Null \notin Columns
    /\ \A c \in Configs : c \in Config /\ c \notin {Null, Malformed, Empty, Absent}
    /\ Null # Malformed /\ Empty # Absent
  BY DistinctAssumption, ConfigsAssumption

\* The three numbers are filled in, and nothing else changes.
LEMMA NormalizeFields ==
    ASSUME NEW c \in Config
    PROVE  /\ Normalize(c) \in Config
           /\ \A g \in {"type", "command", "http"} : Normalize(c)[g] = c[g]
           /\ \A g \in {"timeout", "retries", "backoff"} :
                 IF c[g] = 0 THEN Normalize(c)[g] > 0 ELSE Normalize(c)[g] = c[g]
<1> DEFINE t == IF c.timeout = 0 THEN DefaultTimeoutMS(c) ELSE c.timeout
           r == IF c.retries = 0 THEN DefaultRetryCount ELSE c.retries
           b == IF c.backoff = 0 THEN DefaultRetryBackoffMS ELSE c.backoff
<1>1. Normalize(c) = [c EXCEPT !.timeout = t, !.retries = r, !.backoff = b]
  BY Zenon DEF Normalize
<1>2. /\ t \in Int /\ (IF c.timeout = 0 THEN t > 0 ELSE t = c.timeout)
      /\ r \in Int /\ (IF c.retries = 0 THEN r > 0 ELSE r = c.retries)
      /\ b \in Int /\ (IF c.backoff = 0 THEN b > 0 ELSE b = c.backoff)
  BY NumbersAssumption DEF DefaultTimeoutMS, Config
<1> HIDE DEF t, r, b
<1>3. /\ Normalize(c) \in Config
      /\ Normalize(c).type = c.type /\ Normalize(c).command = c.command
      /\ Normalize(c).http = c.http
      /\ Normalize(c).timeout = t /\ Normalize(c).retries = r /\ Normalize(c).backoff = b
  BY <1>1, <1>2 DEF Config
<1> QED BY <1>2, <1>3

LEMMA SameFields ==
    ASSUME NEW c \in Config, NEW d \in Config,
           c.type = d.type, c.timeout = d.timeout, c.retries = d.retries,
           c.backoff = d.backoff, c.command = d.command, c.http = d.http
    PROVE  c = d
<1>1. \A x \in Config : x = [type |-> x.type, timeout |-> x.timeout, retries |-> x.retries,
                             backoff |-> x.backoff, command |-> x.command, http |-> x.http]
  BY DEF Config
<1> QED BY <1>1

\* What IsValid lets pass is normal once normalized ...
LEMMA NormalizeMakesNormal ==
    ASSUME NEW c \in Config, IsValid(c)
    PROVE  Normal(Normalize(c))
  BY NormalizeFields DEF Normal, IsValid, Config

\* ... and normalizing it again, or marshalling it, changes nothing.
LEMMA NormalStays ==
    ASSUME NEW c, Normal(c)
    PROVE  Normalize(c) = c /\ Marshal(c) = c /\ Parses(c) /\ c # Null
<1>1. Normalize(c) = c
  BY NormalizeFields, SameFields DEF Normal, Config
<1> QED BY <1>1, NamesDiffer DEF Normal, Marshal, Parses

LEMMA MarshalStays ==
    ASSUME NEW json, NormalOrNull(json)
    PROVE  Marshal(json) = json
  BY NormalStays DEF NormalOrNull, Marshal

-----------------------------------------------------------------------------
(* The rows the commands write.                                            *)

\* The argument of a command that got as far as writing.
LEMMA GivenIsNormal ==
    ASSUME NEW f \in Flags, GivesConfig(f) => Parses(f.config)
    PROVE  /\ NormalOrNull(Given(f)) /\ Marshal(Given(f)) = Given(f)
           /\ GivesConfig(f) => Given(f) # Null
<1>1. CASE GivesConfig(f)
  <2>1. f.config \in Config /\ IsValid(f.config)
    BY <1>1, NamesDiffer DEF GivesConfig, Flags, Parses
  <2> QED BY <1>1, <2>1, NormalizeMakesNormal, NormalStays DEF Given, NormalOrNull
<1>2. CASE ~GivesConfig(f)
  BY <1>2 DEF Given, NormalOrNull, Marshal
<1> QED BY <1>1, <1>2

\* A row written with a configuration has it resolved, one without falls back
\* to the instance's unless it says not to.
LEMMA ResolvedFromColumns ==
    ASSUME NormalOrNull(meta), GoodRow(row)
    PROVE  ResolvedHook = IF row.json # Null THEN row.json
                          ELSE IF row.disabled THEN Null ELSE meta
  BY NormalStays, MarshalStays DEF GoodRow, NormalOrNull, ResolvedHook, Columns

\* job add writes a good row, and the hook is the one its flags ask for.
LEMMA AddedIsGood ==
    ASSUME NEW f \in Flags, GivesConfig(f) => Parses(f.config), ~(GivesConfig(f) /\ f.disable)
    PROVE  GoodRow([json |-> Marshal(Given(f)), disabled |-> f.disable])
<1>1. Given(f) \in Config \cup {Null}
  BY GivenIsNormal DEF NormalOrNull, Normal
<1>2. Given(f) # Null => GivesConfig(f)
  BY DEF Given
<1> QED BY <1>1, <1>2, GivenIsNormal DEF GoodRow, Columns, Flags

\* Whatever the row was, the flags of job update that do not conflict make a
\* good row of it.
LEMMA AskedIsGood ==
    ASSUME GoodRow(row), NEW f \in Flags, ~Conflict(f), GivesConfig(f) => Parses(f.config)
    PROVE  GoodRow(Asked(f)) /\ Marshal(Asked(f).json) = Asked(f).json
<1>1. f.clear \in BOOLEAN /\ f.disable \in BOOLEAN /\ f.inherit \in BOOLEAN
  BY DEF Flags
<1>2. row.json \in Config \cup {Null} /\ row.disabled \in BOOLEAN /\ NormalOrNull(row.json)
  BY DEF GoodRow, Columns
<1>3. CASE f.config # Absent
  <2>1. Asked(f) = [json |-> Given(f), disabled |-> FALSE]
    BY <1>1, <1>3 DEF Asked, Conflict
  <2>2. Given(f) \in Config \cup {Null}
    BY GivenIsNormal DEF NormalOrNull, Normal
  <2> QED BY <2>1, <2>2, GivenIsNormal DEF GoodRow, Columns
<1>4. CASE f.config = Absent
  <2>1. Asked(f) = [json     |-> IF f.clear \/ f.disable THEN Null ELSE row.json,
                    disabled |-> f.disable \/ (row.disabled /\ ~f.inherit)]
    BY <1>1, <1>4 DEF Asked
  <2>2. NormalOrNull(Asked(f).json) /\ ~(Asked(f).json # Null /\ Asked(f).disabled)
    BY <1>1, <1>2, <2>1 DEF GoodRow, NormalOrNull
  <2> QED BY <1>1, <1>2, <2>1, <2>2, MarshalStays DEF GoodRow, Columns
<1> QED BY <1>3, <1>4

\* When job update finds nothing to change, the row is what was asked for.
LEMMA UnchangedIsAsked ==
    ASSUME GoodRow(row), NEW f \in Flags, ~Conflict(f), GivesConfig(f) => Parses(f.config),
           ~Changed(f)
    PROVE  Asked(f) = row
<1>1. row = [json |-> row.json, disabled |-> row.disabled] /\ row.disabled \in BOOLEAN
  BY DEF GoodRow, Columns
<1>2. f.clear \in BOOLEAN /\ f.disable \in BOOLEAN /\ f.inherit \in BOOLEAN
  BY DEF Flags
<1>3. CASE f.config # Absent
  <2>1. Asked(f) = [json |-> Given(f), disabled |-> FALSE]
    BY <1>2, <1>3 DEF Asked, Conflict
  <2>2. Given(f) = row.json /\ ~row.disabled
    BY <1>3, <2>1, GivenIsNormal, MarshalStays DEF Changed, GoodRow
  <2> QED BY <1>1, <2>1, <2>2
<1>4. CASE f.config = Absent
  <2>1. Asked(f) = [json     |-> IF f.clear \/ f.disable THEN Null ELSE row.json,
                    disabled |-> f.disable \/ (row.disabled /\ ~f.inherit)]
    BY <1>2, <1>4 DEF Asked
  <2>2. /\ f.clear => row.json = Null
        /\ f.disable => row.disabled /\ row.json = Null
        /\ f.inherit => ~row.disabled
    BY <1>4 DEF Changed
  <2>3. Asked(f).json = row.json /\ Asked(f).disabled = row.disabled
    BY <1>1, <1>2, <2>1, <2>2
  <2> QED BY <1>1, <2>1, <2>3
<1> QED BY <1>3, <1>4

-----------------------------------------------------------------------------
(* The steps.                                                              *)

\* The last command was `f', succeeded, and left the row the flags ask for.
AsAsked(f) ==
    /\ GivesConfig(f) => row.json = Given(f) /\ row.json # Null
    /\ f.config = Empty => row.json = Null /\ (~f.disable => ~row.disabled)
    /\ f.clear => row.json = Null
    /\ f.disable => row.json = Null /\ row.disabled
    /\ f.inherit => ~row.disabled

LastAsAsked ==
    last.op \in {"add", "update"} /\ last.outcome = "ok" =>
        last.flags \in Flags /\ row # Null /\ AsAsked(last.flags)

LEMMA AsAskedMeansAsked == HookInv /\ LastAsAsked => HookIsAsAsked
<1> SUFFICES ASSUME HookInv, LastAsAsked, last.op \in {"add", "update"}, last.outcome = "ok"
             PROVE  LET f == last.flags IN
                    /\ GivesConfig(f) => ResolvedHook = Normalize(f.config)
                    /\ f.disable => ResolvedHook = Null
                    /\ f.config = Empty \/ (f.clear /\ f.inherit)
                          => f.disable \/ ResolvedHook = meta
                    /\ f.clear => row.json = Null
                    /\ f.inherit => ~row.disabled
  BY DEF HookIsAsAsked
<1>1. ResolvedHook = IF row.json # Null THEN row.json
                     ELSE IF row.disabled THEN Null ELSE meta
  BY ResolvedFromColumns DEF HookInv, LastAsAsked
<1> QED BY <1>1 DEF AsAsked, Given, LastAsAsked

LEMMA HookAdd ==
    ASSUME HookInv, NEW f \in Flags, JobAdd(f)
    PROVE  HookInv' /\ LegalFlagsSucceed' /\ LastAsAsked'
<1> DEFINE r == [json |-> Marshal(Given(f)), disabled |-> f.disable]
           Bad == \/ row # Null \/ (GivesConfig(f) /\ f.disable)
                  \/ GivesConfig(f) /\ ~Parses(f.config)
<1>1. CASE Bad
  <2>1. last' = [op |-> "add", flags |-> f, outcome |-> "error"] /\ UNCHANGED <<row, meta>>
    BY <1>1 DEF JobAdd, Command
  <2> QED BY <2>1 DEF HookInv, LegalFlagsSucceed, LastAsAsked
<1>2. CASE ~Bad
  <2>1. GoodRow(r)
    BY <1>2, AddedIsGood
  <2>2. ~Refused(r)
    BY <2>1 DEF GoodRow, Refused
  <2>3. last' = [op |-> "add", flags |-> f, outcome |-> "ok"] /\ row' = r /\ UNCHANGED meta
    BY <1>2, <2>2 DEF JobAdd, Command
  <2>4. row' # Null
    BY <2>1, <2>3, NamesDiffer DEF GoodRow
  <2>5. r.json = Given(f) /\ (GivesConfig(f) => Given(f) # Null) /\ (~GivesConfig(f) => Given(f) = Null)
    BY <1>2, GivenIsNormal DEF Given
  <2>6. ~f.clear /\ ~f.inherit /\ r.disabled = f.disable
    BY DEF JobAdd
  <2>7. AsAsked(f)'
    BY <1>2, <2>3, <2>5, <2>6 DEF AsAsked, GivesConfig
  <2> QED BY <2>1, <2>3, <2>4, <2>7 DEF HookInv, LegalFlagsSucceed, LastAsAsked
<1> QED BY <1>1, <1>2

LEMMA HookUpdate ==
    ASSUME HookInv, NEW f \in Flags, JobUpdate(f)
    PROVE  HookInv' /\ LegalFlagsSucceed' /\ LastAsAsked'
<1>0. row # Null /\ GoodRow(row)
  BY DEF JobUpdate, HookInv
<1>1. CASE Conflict(f) \/ (GivesConfig(f) /\ ~Parses(f.config))
  <2>1. last' = [op |-> "update", flags |-> f, outcome |-> "error"] /\ UNCHANGED <<row, meta>>
    BY <1>1 DEF JobUpdate, Command
  <2> QED BY <2>1 DEF HookInv, LegalFlagsSucceed, LastAsAsked
<1>2. CASE ~Conflict(f) /\ (GivesConfig(f) => Parses(f.config))
  <2>1. GoodRow(Asked(f)) /\ Marshal(Asked(f).json) = Asked(f).json
    BY <1>0, <1>2, AskedIsGood
  <2>2. ~Refused(Asked(f))
    BY <2>1 DEF GoodRow, Refused
  <2>3. [Asked(f) EXCEPT !.json = Marshal(@)] = Asked(f)
    BY <2>1 DEF GoodRow, Columns
  <2>4. /\ last' = [op |-> "update", flags |-> f, outcome |-> "ok"]
        /\ row' = Asked(f) /\ UNCHANGED meta
    BY <1>0, <1>2, <2>2, <2>3, UnchangedIsAsked DEF JobUpdate, Command
  <2>5. row' # Null
    BY <2>1, <2>4, NamesDiffer DEF GoodRow
  <2>6. AsAsked(f)'
    <3>1. f.clear \in BOOLEAN /\ f.disable \in BOOLEAN /\ f.inherit \in BOOLEAN
      BY DEF Flags
    <3>2. f.config # Absent =>
             /\ Asked(f) = [json |-> Given(f), disabled |-> FALSE]
             /\ ~f.clear /\ ~f.disable
      BY <1>2, <3>1 DEF Asked, Conflict
    <3>3. f.config = Absent =>
             Asked(f) = [json     |-> IF f.clear \/ f.disable THEN Null ELSE row.json,
                         disabled |-> f.disable \/ (row.disabled /\ ~f.inherit)]
      BY <3>1 DEF Asked
    <3>4. (GivesConfig(f) => Given(f) # Null) /\ (f.config = Empty => Given(f) = Null)
      BY <1>2, GivenIsNormal DEF Given, GivesConfig
    <3>5. ~(f.disable /\ f.inherit)
      BY <1>2 DEF Conflict
    <3> QED BY <2>4, <3>1, <3>2, <3>3, <3>4, <3>5, NamesDiffer DEF AsAsked, GivesConfig
  <2> QED BY <2>1, <2>4, <2>5, <2>6 DEF HookInv, LegalFlagsSucceed, LastAsAsked
<1> QED BY <1>1, <1>2

\* A row or a default that is only read and written back stays what it was.
LEMMA HookRewrite ==
    ASSUME HookInv, JobRewrite \/ DefaultRewrite
    PROVE  UNCHANGED <<row, meta>>
<1>1. CASE JobRewrite
  <2>1. GoodRow(row)
    BY <1>1 DEF JobRewrite, HookInv
  <2>2. [row EXCEPT !.json = Marshal(@)] = row
    BY <2>1, MarshalStays DEF GoodRow, Columns
  <2> QED BY <1>1, <2>2 DEF JobRewrite
<1>2. CASE DefaultRewrite
  BY <1>2, MarshalStays DEF DefaultRewrite, HookInv
<1> QED BY <1>1, <1>2

LEMMA HookSetDefault ==
    ASSUME HookInv, NEW c \in Configs \cup {Null}, SetDefault(c)
    PROVE  HookInv' /\ last'.op = "default"
<1>1. NormalOrNull(Marshal(c))
  BY NormalizeMakesNormal, NamesDiffer DEF SetDefault, NormalOrNull, Marshal, Parses
<1> QED BY <1>1 DEF SetDefault, HookInv

HookSafe == HookInv /\ LegalFlagsSucceed /\ LastAsAsked

LEMMA HookNext == HookSafe /\ [Next]_vars => HookSafe'
<1> SUFFICES ASSUME HookSafe, [Next]_vars PROVE HookSafe'
  OBVIOUS
<1>1. ASSUME NEW f \in Flags, JobAdd(f) \/ JobUpdate(f)
      PROVE  HookSafe'
  BY <1>1, HookAdd, HookUpdate DEF HookSafe
<1>2. CASE JobRewrite \/ DefaultRewrite
  <2>1. last'.op \in {"rewrite", "start"}
    BY <1>2 DEF JobRewrite, DefaultRewrite
  <2> QED BY <1>2, <2>1, HookRewrite DEF HookSafe, HookInv, LegalFlagsSucceed, LastAsAsked
<1>3. ASSUME NEW c \in Configs \cup {Null}, SetDefault(c)
      PROVE  HookSafe'
  BY <1>3, HookSetDefault DEF HookSafe, LegalFlagsSucceed, LastAsAsked
<1>4. CASE UNCHANGED vars
  BY <1>4 DEF HookSafe, HookInv, LegalFlagsSucceed, LastAsAsked, AsAsked
<1> QED BY <1>1, <1>2, <1>3, <1>4 DEF Next

LEMMA HooksAreSafe == Spec => []HookSafe
<1>1. Init => HookSafe
  BY DEF Init, HookSafe, HookInv, NormalOrNull, LegalFlagsSucceed, LastAsAsked
<1> QED BY <1>1, HookNext, PTL DEF Spec

-----------------------------------------------------------------------------
(* The theorems.                                                           *)

\* StoredHooksParse of HookConfig: whatever commands were given, scanJob and
\* MetadataStore.Get can parse what the columns hold, so that one job's hook
\* never makes ListDue fail for all jobs.
THEOREM HooksCanBeReadBack == Spec => []StoredHooksParse
<1>1. HookSafe => StoredHooksParse
  BY NormalStays, NamesDiffer
  DEF HookSafe, HookInv, StoredHooksParse, Stored, GoodRow, NormalOrNull, Columns
<1> QED BY <1>1, HooksAreSafe, PTL

\* A combination of flags that the CLI lets pass never meets validateJob's
\* refusal, whatever the row was before.
THEOREM FlagsAreEnough == Spec => []LegalFlagsSucceed
<1>1. HookSafe => LegalFlagsSucceed
  BY DEF HookSafe
<1> QED BY <1>1, HooksAreSafe, PTL

\* After a command that succeeded the dispatcher resolves the hook its flags
\* ask for, also when the command wrote nothing.
THEOREM HooksAreAsAsked == Spec => []HookIsAsAsked
<1>1. HookSafe => HookIsAsAsked
  BY AsAskedMeansAsked DEF HookSafe
<1> QED BY <1>1, HooksAreSafe, PTL

\* A command that reads the columns and writes them back leaves them alone:
\* NormalizeOnFinishConfig is idempotent on all that was ever stored.
THEOREM RewritesAreHarmless == Spec => RewritesChangeNothing
<1>1. HookSafe /\ [Next]_vars => [last'.op \in {"rewrite", "start"} => UNCHANGED <<row, meta>>]_vars
  <2> SUFFICES ASSUME HookSafe, Next, last'.op \in {"rewrite", "start"}
               PROVE  UNCHANGED <<row, meta>>
    OBVIOUS
  <2>1. ASSUME NEW f \in Flags, JobAdd(f) \/ JobUpdate(f)
        PROVE  FALSE
    BY <2>1 DEF JobAdd, JobUpdate, Command
  <2>2. ASSUME NEW c \in Configs \cup {Null}, SetDefault(c)
        PROVE  FALSE
    BY <2>2 DEF SetDefault
  <2> QED BY <2>1, <2>2, HookRewrite DEF Next, HookSafe
<1> QED BY <1>1, HooksAreSafe, PTL DEF Spec, RewritesChangeNothing

=============================================================================
