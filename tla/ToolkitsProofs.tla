--------------------------- MODULE ToolkitsProofs ---------------------------
(***************************************************************************)
(* What the commands about the toolkit keep, whatever else a project's     *)
(* workspace goes through: the lock pins what the manifest declares, a     *)
(* failed installation is undone, a protected file is left alone. The      *)
(* invariant is the plan of the command under way, what the lock pins,     *)
(* whether the guardrail was asked, and what a rollback has to undo.       *)
(***************************************************************************)
EXTENDS Workspace, ListProofs

-----------------------------------------------------------------------------
(* The manifest and the lock.                                              *)

Dependencies == {Dependency(v, s) : v \in Versions, s \in Scopes}

\* A lock entry is of a dependency, or of none.
Pins(entry, dependency) ==
  IF dependency = NoToolkit THEN entry = NoToolkit
  ELSE entry # NoToolkit /\ Dependency(entry.version, entry.scope) = dependency

\* While the manifest is written and the lock is not, it pins what was declared before.
LockInv ==
  /\ kills \in Nat
  /\ kills = 0 => Pins(locked, IF pc = "relock" THEN kit.previous ELSE toolkit)

LEMMA DependencyFields ==
  ASSUME NEW d \in Dependencies
  PROVE  d # NoToolkit /\ d.version \in Versions /\ d.scope \in Scopes /\ d = Dependency(d.version, d.scope)
<1>1. PICK v \in Versions, s \in Scopes : d = Dependency(v, s)
  BY DEF Dependencies
<1>2. d.version = v /\ d.scope = s
  BY <1>1 DEF Dependency
<1>3. d # NoToolkit
  BY <1>2, VersionAssumption DEF NoToolkit
<1>4. QED
  BY <1>1, <1>2, <1>3

LEMMA BuiltPins ==
  ASSUME NEW d \in Dependencies \cup {NoToolkit}, NEW ids
  PROVE  Pins(BuildToolkitLockEntries(d, ids), d)
<1>1. CASE d = NoToolkit
  BY <1>1 DEF Pins, BuildToolkitLockEntries
<1>2. CASE d # NoToolkit
  <2> DEFINE e == BuildToolkitLockEntries(d, ids)
  <2>1. e.version = d.version /\ e.scope = d.scope
    BY <1>2 DEF BuildToolkitLockEntries
  <2> HIDE DEF e
  <2>2. d \in Dependencies
    BY <1>2
  <2>3. e # NoToolkit
    BY <2>1, <2>2, DependencyFields, VersionAssumption DEF NoToolkit
  <2>4. Pins(e, d)
    BY <1>2, <2>1, <2>2, <2>3, DependencyFields DEF Pins
  <2>5. QED
    BY <2>4 DEF e
<1>3. QED
  BY <1>1, <1>2

KitSteps == {"proceed", "run", "rollback", "record", "relock", "question", "uninstall"}

-----------------------------------------------------------------------------
(* The command under way, and the files.                                   *)

Runs == {"installGlobalTool", "initProject", "addIntegration", "removeIntegration"}
Commands == [run : Runs, key : Keys \cup {""}]
AgentNames == STRING \cup Agents
Entries ==
  [version : Versions, scope : Scopes, integrations : Seq(Keys), paths : SUBSET ToolkitPatterns]
Kits ==
  [mode : {"none", "install", "remove", "restore"},
   goal : Dependencies \cup {NoToolkit}, previous : Dependencies \cup {NoToolkit},
   entry : Entries \cup {NoToolkit}, before : SUBSET PathsOf(ToolkitPatterns),
   patterns : SUBSET ToolkitPatterns, queue : Seq(Commands), switching : BOOLEAN,
   blocked : SUBSET PathsOf(ToolkitPatterns)]

KitTyped ==
  /\ kit \in Kits
  /\ locked \in Entries \cup {NoToolkit}
  /\ toolkit \in Dependencies \cup {NoToolkit}
  /\ disk \in [Paths -> Contents]
  /\ agents \in Seq(AgentNames)
  /\ menu \in Menus
  /\ locked # NoToolkit => locked.paths = CollectToolkitPathPatterns(locked.integrations)

\* A command that runs writes only under the patterns the installation covers.
Covered(command, patterns) ==
  /\ Speckit.projectPaths \subseteq patterns
  /\ command.key # "" => Speckit.integrationPaths[command.key] \in patterns
Running ==
  pc \in {"proceed", "run", "rollback"} =>
    /\ kit.mode \in {"install", "restore"}
    /\ IF kit.mode = "install" THEN kit.goal # NoToolkit ELSE locked # NoToolkit
    /\ \A i \in DOMAIN kit.queue : Covered(kit.queue[i], kit.patterns)
InKitMenu == pc \in KitSteps \/ kit.mode # "none" => menu = "toolkits"
Proceeding ==
  /\ pc \in {"proceed", "record"} => kit.mode = "install" /\ kit.goal # NoToolkit
  /\ pc \in {"question", "uninstall"} => kit.mode = "remove"
  /\ pc = "relock" => kit.mode \in {"install", "remove"} /\ (kit.mode = "install" => kit.goal # NoToolkit)
  /\ pc = "uninstall" => \A i \in DOMAIN kit.queue : kit.queue[i].key \in Keys

\* The guardrail was asked before the first command of a switch.
Asked ==
  pc \in {"proceed", "run"} /\ kit.switching /\ ~touched =>
    \A f \in Under(kit.patterns) : disk[f] # Gone /\ Guarded(f) => disk[f] = Expected.version

\* The version file is as expected, or will be when the project is initialized.
Initializes ==
  \/ ProjectVersion(disk) = Expected.version
  \/ \E i \in DOMAIN kit.queue : kit.queue[i].run = "initProject"

Unharmed == \A f \in Paths : found.disk[f] # Gone => disk[f] # Gone
NewUnder == \A f \in Paths : disk[f] # Gone /\ found.disk[f] = Gone => f \in Under(kit.patterns)
Unchanged == toolkit = found.toolkit /\ locked = found.locked
Undone ==
  /\ Unharmed
  /\ \A f \in Paths : disk[f] # Gone /\ found.disk[f] = Gone =>
       \/ KeptByGuardrail(f)
       \/ \E p \in kit.before : IsPrefix(p, f)
       \/ InstallerRan
  /\ kit.mode = "install" =>
       Unchanged \/ (toolkit # NoToolkit /\ ProjectVersion(disk) = toolkit.version)

Steps == {"proceed", "run", "rollback", "record", "relock"}
UndoneInv ==
  kit.mode \in {"install", "restore"} /\ ~touched =>
    /\ pc = "proceed" => disk = found.disk /\ Unchanged /\ Initializes
    /\ pc \in {"run", "rollback"} =>
         /\ Unharmed /\ NewUnder
         /\ kit.before = SnapshotToolkitPaths(found.disk, kit.patterns)
         /\ kit.mode = "install" => Unchanged
    /\ pc = "run" => Initializes
    /\ pc = "record" => Unharmed /\ Unchanged /\ ProjectVersion(disk) = kit.goal.version /\ kit.queue = <<>>
    /\ pc = "relock" =>
         /\ Unharmed /\ ProjectVersion(disk) = kit.goal.version /\ toolkit = kit.goal /\ kit.queue = <<>>
         /\ kit.previous = found.toolkit /\ locked = found.locked
    /\ pc \notin Steps /\ ~(pc = "idle" /\ outcome = "killed") => Undone

-----------------------------------------------------------------------------
(* The paths of the toolkit: no two of them begin alike.                   *)

Dirs == {<<".claude", "skills">>, <<".github", "skills">>, <<".cursor", "skills">>,
         <<".agents", "skills">>, <<".clinerules", "workflows">>}

LEMMA DirsDiffer ==
  \A d, e \in Dirs : Len(d) = 2 /\ d[1] # ".specify" /\ (d[1] = e[1] => d = e)
  BY DEF Dirs

LEMMA PatternFields ==
  \A pat \in ToolkitPatterns :
    (pat.dir = <<>> /\ pat.names = {".specify"}) \/ (pat.dir \in Dirs /\ pat.names = {"speckit-plan"})
  BY DEF Speckit, Pattern, SpeckitSkills, Keys, ToolkitPatterns, Dirs

LEMMA PlaceFields ==
  ASSUME NEW p \in PathsOf(ToolkitPatterns)
  PROVE  p = Append(<<>>, ".specify") \/ \E d \in Dirs : p = Append(d, "speckit-plan")
  BY PatternFields DEF PathsOf

LEMMA AppendFirst ==
  ASSUME NEW T, NEW d \in Seq(T), NEW c \in T, d # <<>>
  PROVE  Append(d, c)[1] = d[1] /\ Len(Append(d, c)) = Len(d) + 1
  OBVIOUS

LEMMA AppendTwo ==
  ASSUME NEW a, NEW b, NEW c
  PROVE  Append(<<a, b>>, c)[1] = a /\ Len(Append(<<a, b>>, c)) = 3
<1> DEFINE T == {a, b, c}
           d == <<a, b>>
<1>1. d \in Seq(T) /\ c \in T /\ d # <<>>
  OBVIOUS
<1>2. d[1] = a /\ Len(d) = 2
  OBVIOUS
<1> HIDE DEF d, T
<1>3. Append(d, c)[1] = d[1] /\ Len(Append(d, c)) = Len(d) + 1
  BY <1>1, AppendFirst
<1>4. QED
  BY <1>2, <1>3 DEF d

LEMMA AppendOne ==
  ASSUME NEW c
  PROVE  Append(<<>>, c)[1] = c /\ Len(Append(<<>>, c)) = 1
<1> DEFINE T == {c}
           d == <<>>
<1>1. d \in Seq(T) /\ c \in T /\ Len(d) = 0
  OBVIOUS
<1> HIDE DEF d, T
<1>2. Append(d, c)[1] = c /\ Len(Append(d, c)) = 1
  BY <1>1
<1>3. QED
  BY <1>2 DEF d

LEMMA Pairs ==
  \A d \in Dirs : \E a, b : d = <<a, b>> /\ d[1] = a
<1> USE DEF Dirs
<1>1. /\ <<".claude", "skills">>[1] = ".claude" /\ <<".github", "skills">>[1] = ".github"
      /\ <<".cursor", "skills">>[1] = ".cursor" /\ <<".agents", "skills">>[1] = ".agents"
      /\ <<".clinerules", "workflows">>[1] = ".clinerules"
  OBVIOUS
<1>2. QED
  BY <1>1, Zenon

LEMMA PlaceHeads ==
  ASSUME NEW p \in PathsOf(ToolkitPatterns)
  PROVE  /\ Len(p) \in Nat \ {0}
         /\ p = Append(<<>>, ".specify") => p[1] = ".specify"
         /\ \A d \in Dirs : p = Append(d, "speckit-plan") => p[1] = d[1]
<1> DEFINE w == "speckit-plan"
           u == ".specify"
<1>1. p = Append(<<>>, u) \/ \E d \in Dirs : p = Append(d, w)
  BY PlaceFields
<1> HIDE DEF w, u
<1>2. ASSUME NEW d \in Dirs PROVE Append(d, w)[1] = d[1] /\ Len(Append(d, w)) = 3
  <2>1. PICK a, b : d = <<a, b>> /\ d[1] = a
    BY Pairs
  <2>2. Append(<<a, b>>, w)[1] = a /\ Len(Append(<<a, b>>, w)) = 3
    BY AppendTwo
  <2>3. QED
    BY <2>1, <2>2, Zenon
<1>3. Append(<<>>, u)[1] = u /\ Len(Append(<<>>, u)) = 1
  BY AppendOne
<1> DEFINE x == Append(<<>>, u)
           y(d) == Append(d, w)
<1>a. /\ p = x \/ \E d \in Dirs : p = y(d)
      /\ x[1] = u /\ Len(x) = 1
      /\ \A d \in Dirs : y(d)[1] = d[1] /\ Len(y(d)) = 3
  BY <1>1, <1>2, <1>3, Zenon
<1> HIDE DEF x, y
<1>4. /\ Len(p) = 1 \/ Len(p) = 3
      /\ p = x => p[1] = u
      /\ \A d \in Dirs : p = y(d) => p[1] = d[1]
  BY <1>a
<1>5. Len(p) \in Nat \ {0}
  BY <1>4
<1>6. QED
  BY <1>4, <1>5, Zenon DEF u, w, x, y

LEMMA PlacesDiffer ==
  ASSUME NEW p \in PathsOf(ToolkitPatterns), NEW q \in PathsOf(ToolkitPatterns), p[1] = q[1]
  PROVE  p = q
<1> DEFINE w == "speckit-plan"
           u == ".specify"
           x == Append(<<>>, u)
           y(d) == Append(d, w)
<1>1. /\ p = x \/ \E d \in Dirs : p = y(d)
      /\ q = x \/ \E d \in Dirs : q = y(d)
  BY PlaceFields
<1>2. /\ p = x => p[1] = u
      /\ \A d \in Dirs : p = y(d) => p[1] = d[1]
      /\ q = x => q[1] = u
      /\ \A d \in Dirs : q = y(d) => q[1] = d[1]
  BY PlaceHeads
<1>3. \A d, e \in Dirs : d[1] # u /\ (d[1] = e[1] => d = e)
  BY DirsDiffer
<1> HIDE DEF x, y, u, w
<1>4. QED
  BY <1>1, <1>2, <1>3

LEMMA PrefixHead ==
  ASSUME NEW p \in PathsOf(ToolkitPatterns), NEW f \in Seq(STRING), IsPrefix(p, f)
  PROVE  Len(p) <= Len(f) /\ f # <<>> /\ p[1] = f[1]
  BY PlaceHeads DEF IsPrefix

LEMMA PartPrefix ==
  ASSUME NEW p, Len(p) \in Nat, NEW f \in Seq(STRING), IsPrefix(p, f), NEW n \in Len(p)..Len(f)
  PROVE  SubSeq(f, 1, n) \in Prefixes(f) /\ IsPrefix(p, SubSeq(f, 1, n))
<1> DEFINE q == SubSeq(f, 1, n)
<1>1. n \in 0..Len(f) /\ Len(p) <= n
  OBVIOUS
<1>2. Len(q) = n /\ q \in Seq(STRING) /\ \A i \in 1..n : q[i] = f[i]
  BY <1>1
<1>3. SubSeq(q, 1, Len(p)) = SubSeq(f, 1, Len(p))
  BY <1>1, <1>2
<1>4. QED
  BY <1>1, <1>2, <1>3 DEF IsPrefix, Prefixes

-----------------------------------------------------------------------------
(* What a plan is made of.                                                 *)

Offered == DOMAIN Speckit.integrations
LEMMA IntegrationKeys ==
  \A id \in Offered : Speckit.integrations[id].key \in Keys
  BY DEF Offered, Keys, Speckit
LEMMA ResolveType ==
  ASSUME NEW T, NEW ids \in Seq(T)
  PROVE  ResolveToolkitIntegrations(ids) \in Seq(Keys)
<1> DEFINE supported == Keep(ids, Offered)
           safe == Keep(supported, {id \in Offered : Speckit.integrations[id].multiInstallSafe})
           first == SubSeq(supported, 1, IF supported = <<>> THEN 0 ELSE 1)
           chosen == IF safe # <<>> THEN safe ELSE first
           keys == [i \in DOMAIN chosen |-> Speckit.integrations[chosen[i]].key]
<1>1. supported \in Seq(Offered)
  <2>1. supported \in Seq(T \cap Offered)
    BY KeepType, Zenon
  <2>2. QED
    BY <2>1
<1> HIDE DEF supported
<1>2. safe \in Seq(Offered)
  <2> DEFINE S == {id \in Offered : Speckit.integrations[id].multiInstallSafe}
  <2> HIDE DEF S
  <2>1. Keep(supported, S) \in Seq(Offered \cap S)
    BY <1>1, KeepType
  <2>2. QED
    BY <2>1 DEF S
<1> HIDE DEF safe
<1>3. first \in Seq(Offered)
  BY <1>1
<1>4. chosen \in Seq(Offered)
  BY <1>2, <1>3
<1> HIDE DEF chosen
<1>5. keys \in Seq(Keys)
  BY <1>4, IntegrationKeys
<1>6. ResolveToolkitIntegrations(ids) = keys
  BY Zenon DEF ResolveToolkitIntegrations, keys, chosen, safe, supported, Offered
<1>7. QED
  BY <1>5, <1>6

LEMMA CollectType ==
  ASSUME NEW keys \in Seq(Keys)
  PROVE  /\ CollectToolkitPathPatterns(keys) \in SUBSET ToolkitPatterns
         /\ Speckit.projectPaths \subseteq CollectToolkitPathPatterns(keys)
         /\ \A i \in DOMAIN keys : Speckit.integrationPaths[keys[i]] \in CollectToolkitPathPatterns(keys)
<1>1. ToSet(keys) \subseteq Keys /\ \A i \in DOMAIN keys : keys[i] \in ToSet(keys)
  BY DEF ToSet
<1>2. QED
  BY <1>1 DEF CollectToolkitPathPatterns, ToolkitPatterns

LEMMA BuiltType ==
  ASSUME NEW d \in Dependencies \cup {NoToolkit}, NEW T, NEW ids \in Seq(T)
  PROVE  LET entry == BuildToolkitLockEntries(d, ids)
         IN /\ entry \in Entries \cup {NoToolkit}
            /\ entry # NoToolkit => entry.paths = CollectToolkitPathPatterns(entry.integrations)
<1> DEFINE entry == BuildToolkitLockEntries(d, ids)
           keys == ResolveToolkitIntegrations(ids)
<1>1. CASE d = NoToolkit
  BY <1>1 DEF BuildToolkitLockEntries
<1>2. CASE d # NoToolkit
  <2>1. keys \in Seq(Keys)
    BY ResolveType
  <2>2. CollectToolkitPathPatterns(keys) \in SUBSET ToolkitPatterns
    BY <2>1, CollectType
  <2>3. entry = [version |-> d.version, scope |-> d.scope, integrations |-> keys,
                 paths |-> CollectToolkitPathPatterns(keys)]
    BY <1>2 DEF BuildToolkitLockEntries
  <2>4. d.version \in Versions /\ d.scope \in Scopes
    BY <1>2, DependencyFields
  <2> HIDE DEF keys
  <2>5. entry \in Entries
    BY <2>1, <2>2, <2>3, <2>4 DEF Entries
  <2>6. entry.paths = CollectToolkitPathPatterns(entry.integrations)
    BY <2>3
  <2>7. QED
    BY <2>5, <2>6
<1>3. QED
  BY <1>1, <1>2

LEMMA CommandFields ==
  ASSUME NEW run \in Runs, NEW key \in Keys \cup {""}
  PROVE  /\ Command(run, key) \in Commands
         /\ Command(run, key).run = run /\ Command(run, key).key = key
  BY DEF Command, Commands

\* The commands for a state the toolkit was found in.
PlanFor(queue, keys, state) ==
  /\ queue \in Seq(Commands)
  /\ \A i \in DOMAIN queue : Covered(queue[i], CollectToolkitPathPatterns(keys))
  /\ state # "global-tool-missing" => \E i \in DOMAIN queue : queue[i].run = "initProject"

LEMMA CommandsType ==
  ASSUME NEW expected, NEW keys \in Seq(Keys), NEW state, NEW tool,
         NEW queue, queue = BuildToolkitInstallCommands(expected, keys, state, tool)
  PROVE  PlanFor(queue, keys, state)
<1> DEFINE global == Command("installGlobalTool", "")
           first == IF expected.scope = "global" /\ tool # expected.version THEN <<global>> ELSE <<>>
           primary == IF keys = <<>> THEN "" ELSE Head(keys)
           project == Command("initProject", primary)
           extras == IF keys = <<>> THEN <<>> ELSE Tail(keys)
           adds == [i \in DOMAIN extras |-> Command("addIntegration", extras[i])]
           all == first \o <<project>> \o adds
           patterns == CollectToolkitPathPatterns(keys)
           C == {c \in Commands : Covered(c, patterns)}
<1>a. /\ Speckit.projectPaths \subseteq patterns
      /\ \A i \in DOMAIN keys : Speckit.integrationPaths[keys[i]] \in patterns
  BY CollectType
<1> HIDE DEF patterns
<1>b. ASSUME NEW run \in Runs, NEW key \in Keys \cup {""}, key # "" => Speckit.integrationPaths[key] \in patterns
      PROVE  Command(run, key) \in C
  <2> DEFINE c == Command(run, key)
  <2>1. c \in Commands /\ c.key = key
    BY CommandFields
  <2> HIDE DEF c
  <2>2. Covered(c, patterns)
    BY <1>a, <1>b, <2>1 DEF Covered
  <2>3. QED
    BY <2>1, <2>2 DEF c
<1>1. global \in C
  <2> DEFINE run == "installGlobalTool"
             key == ""
  <2>1. run \in Runs /\ key \in Keys \cup {""} /\ (key # "" => FALSE)
    BY DEF Runs
  <2> HIDE DEF run, key, C
  <2>2. Command(run, key) \in C
    BY <1>b, <2>1
  <2>3. QED
    BY <2>2 DEF run, key
<1>2. primary = "" \/ \E i \in DOMAIN keys : primary = keys[i]
  <2>1. CASE keys = <<>>
    BY <2>1
  <2>2. CASE keys # <<>>
    <3>1. primary = keys[1] /\ 1 \in DOMAIN keys
      BY <2>2
    <3> HIDE DEF primary
    <3>2. QED
      BY <3>1
  <2>3. QED
    BY <2>1, <2>2
<1>3. project \in C
  <2> HIDE DEF primary
  <2>1. primary \in Keys \cup {""} /\ (primary # "" => Speckit.integrationPaths[primary] \in patterns)
    <3>1. CASE primary = ""
      BY <3>1
    <3>2. ASSUME NEW i \in DOMAIN keys, primary = keys[i]
          PROVE  primary \in Keys /\ Speckit.integrationPaths[primary] \in patterns
      BY <3>2, <1>a
    <3>3. QED
      BY <1>2, <3>1, <3>2, Zenon
  <2> DEFINE run == "initProject"
  <2>2. run \in Runs
    BY DEF Runs
  <2> HIDE DEF run, C
  <2>3. Command(run, primary) \in C
    BY <1>b, <2>1, <2>2
  <2>4. QED
    BY <2>3 DEF run
<1>4. adds \in Seq(C)
  <2>1. extras \in Seq(Keys) /\ \A i \in DOMAIN extras : \E j \in DOMAIN keys : extras[i] = keys[j]
    <3>1. CASE keys = <<>>
      BY <3>1
    <3>2. CASE keys # <<>>
      <4>1. extras = Tail(keys) /\ DOMAIN extras = 1..(Len(keys) - 1)
        BY <3>2
      <4>2. \A i \in DOMAIN extras : extras[i] = keys[i + 1] /\ i + 1 \in DOMAIN keys
        BY <3>2, <4>1
      <4>3. QED
        BY <3>2, <4>1, <4>2
    <3>3. QED
      BY <3>1, <3>2
  <2> HIDE DEF extras
  <2>2. ASSUME NEW i \in DOMAIN extras PROVE Command("addIntegration", extras[i]) \in C
    <3> DEFINE run == "addIntegration"
               key == extras[i]
    <3>1. run \in Runs
      BY DEF Runs
    <3>2. key \in Keys /\ Speckit.integrationPaths[key] \in patterns
      BY <2>1, <1>a
    <3> HIDE DEF run, key, C
    <3>3. Command(run, key) \in C
      BY <1>b, <3>1, <3>2
    <3>4. QED
      BY <3>3 DEF run, key
  <2> HIDE DEF C
  <2>3. adds \in [1..Len(extras) -> C]
    BY <2>1, <2>2
  <2>4. QED
    BY <2>1, <2>3
<1>5. first \in Seq(C) /\ <<project>> \in Seq(C)
  <2> HIDE DEF C, global, project
  <2>1. QED
    BY <1>1, <1>3
<1>6. all \in Seq(C) /\ \E i \in DOMAIN all : all[i] = project
  <2> HIDE DEF C, first, project, adds
  <2>1. all \in Seq(C)
    BY <1>4, <1>5
  <2>2. all[Len(first) + 1] = project /\ Len(first) + 1 \in DOMAIN all
    BY <1>4, <1>5
  <2>3. QED
    BY <2>1, <2>2
<1>7. project.run = "initProject"
  BY DEF Command, project
<1>8. queue = IF state = "global-tool-missing" THEN <<global>> ELSE all
  BY Zenon DEF BuildToolkitInstallCommands
<1>9. queue \in Seq(C) /\ (state # "global-tool-missing" => \E i \in DOMAIN queue : queue[i].run = "initProject")
  <2> HIDE DEF C, all, project, global
  <2>1. QED
    BY <1>1, <1>6, <1>7, <1>8
<1>10. queue \in Seq(Commands) /\ \A i \in DOMAIN queue : Covered(queue[i], patterns)
  BY <1>9
<1>11. QED
  BY <1>9, <1>10 DEF patterns, PlanFor

-----------------------------------------------------------------------------
(* Steps of other commands.                                                *)

\* A kill, or a step of a command that is not about the toolkit.
Aside ==
  /\ locked' = locked /\ menu' = menu
  /\ agents' \in Seq(AgentNames)
  /\ \/ kills' = kills + 1 /\ pc' = "idle" /\ outcome' = "killed"
     \/ kills' = kills /\ pc \notin KitSteps /\ pc' \notin KitSteps
  /\ edits' \in {edits, edits + 1}
  /\ menu = "toolkits" =>
       /\ touched => touched'
       /\ pc = "idle" => pc' = "idle" /\ outcome' \in {outcome, "killed"}

LEMMA FindAgentType ==
  ASSUME NEW name
  PROVE  FindAgent(name) # NoTarget => FindAgent(name) \in Registry /\ FindAgent(name).id \in Agents
<1>1. CASE \E t \in Registry : name = t.id \/ name \in t.aliases
  <2>1. FindAgent(name) \in Registry
    BY <1>1 DEF FindAgent
  <2>2. QED
    BY <2>1 DEF Agents
<1>2. CASE ~ \E t \in Registry : name = t.id \/ name \in t.aliases
  BY <1>2 DEF FindAgent
<1>3. QED
  BY <1>1, <1>2

LEMMA SavedType ==
  ASSUME NEW declared \in Seq(AgentNames), NEW T \in SUBSET AgentNames, NEW names \in Seq(T)
  PROVE  SaveSelectedAgents(declared, names) \in Seq(AgentNames)
<1> DEFINE canonical(name) == IF FindAgent(name) = NoTarget THEN name ELSE FindAgent(name).id
           given == [i \in DOMAIN names |-> canonical(names[i])]
<1>1. ASSUME NEW name \in T PROVE canonical(name) \in AgentNames
  BY FindAgentType DEF AgentNames
<1> HIDE DEF canonical
<1>2. given \in Seq(AgentNames)
  <2>1. \A i \in 1..Len(names) : names[i] \in T /\ canonical(names[i]) \in AgentNames
    BY <1>1
  <2>2. given = [i \in 1..Len(names) |-> canonical(names[i])]
    BY DEF given
  <2>3. given \in [1..Len(names) -> AgentNames]
    BY <2>1, <2>2
  <2>4. QED
    BY <2>3
<1> HIDE DEF given
<1>3. declared \o given \in Seq(AgentNames)
  BY <1>2
<1>4. Distinct(declared \o given) \in Seq(AgentNames)
  BY <1>3, DistinctElements
<1>5. QED
  BY <1>4 DEF SaveSelectedAgents, given, canonical

LEMMA RemovedType ==
  ASSUME NEW declared \in Seq(AgentNames), NEW id
  PROVE  RemoveSelectedAgents(declared, id) \in Seq(AgentNames)
<1> DEFINE S == ToSet(declared) \ {id}
<1> HIDE DEF S
<1>1. Keep(declared, S) \in Seq(AgentNames \cap S)
  BY KeepType
<1>2. QED
  BY <1>1 DEF RemoveSelectedAgents, S

LEMMA AgentAside ==
  ASSUME AgentNext, agents \in Seq(AgentNames)
  PROVE  Aside
<1>1. ASSUME AgentCommand PROVE Aside
  <2>1. ASSUME NEW names \in Requests, AddAgents(names) \/ InitAgents(names) PROVE Aside
    <3>1. agents' \in {agents, SaveSelectedAgents(agents, names)}
      BY <2>1 DEF AddAgents, InitAgents
    <3>2. agents' \in Seq(AgentNames)
      <4>1. names \in Seq(STRING) /\ STRING \in SUBSET AgentNames
        BY AgentAssumption, Zenon DEF AgentNames
      <4>2. SaveSelectedAgents(agents, names) \in Seq(AgentNames)
        BY <4>1, SavedType, Zenon
      <4>3. QED
        BY <3>1, <4>2
    <3>3. QED
      BY <2>1, <3>2 DEF AddAgents, InitAgents, Begin, Configure, Aside, KitSteps
  <2>2. ASSUME NEW names \in Requests, RemoveAgents(names) PROVE Aside
    BY <2>2 DEF RemoveAgents, Begin, RefuseRemoval, StartRemoval, Finish, Aside, KitSteps, records
  <2>3. ASSUME NEW s \in Skills, InstallSkill(s) \/ RemoveSkill(s) PROVE Aside
    BY <2>3 DEF InstallSkill, RemoveSkill, Begin, Configure, RestoreConfiguredAgents, Finish, Aside, KitSteps
  <2>4. ASSUME InitAgain PROVE Aside
    BY <2>4 DEF InitAgain, Begin, Configure, RestoreConfiguredAgents, Finish, Aside, KitSteps, records
  <2>5. QED
    BY <1>1, <2>1, <2>2, <2>3, <2>4 DEF AgentCommand
<1>2. ASSUME ConfigureStep PROVE Aside
  BY <1>2 DEF ConfigureStep, WriteProfile, InjectAgentConfig, ResolveClineRegistration, AnswerOffer,
       OfferClineGlobalRegistration, MigrateLegacyProxyLocations, MaterializeAgentSkills,
       WriteAgentInstructions, Abort, Step, Aside, KitSteps, records, bounds, history
<1>3. ASSUME RemovalStep PROVE Aside
  <2>1. ASSUME DropAgent PROVE Aside
    <3>1. agents' \in Seq(AgentNames)
      BY <2>1, RemovedType DEF DropAgent
    <3>2. QED
      BY <2>1, <3>1 DEF DropAgent, Aside, KitSteps, bounds, history
  <2>2. QED
    BY <1>3, <2>1 DEF RemovalStep, RemoveEntry, RemoveBlock, RemoveProfile, AnswerRemoval,
         RemoveClineGlobalRegistration, NextRemoval, Abort, Step, Aside, KitSteps, records, bounds, history
<1>4. ASSUME Kill PROVE Aside
  BY <1>4 DEF Kill, Aside, records
<1>5. ASSUME NEW f, EditConfig(f) \/ EditNotes(f) PROVE Aside
  BY <1>5 DEF EditConfig, EditNotes, EditFile, Aside, KitSteps, records, control
<1>6. ASSUME NEW i, EditSettings(i) PROVE Aside
  BY <1>6 DEF EditSettings, EditFile, Aside, KitSteps, records, control
<1>7. QED
  BY <1>1, <1>2, <1>3, <1>4, <1>5, <1>6 DEF AgentNext

LEMMA EnvAside ==
  ASSUME EnvNext, agents \in Seq(AgentNames)
  PROVE  Aside
<1>1. ASSUME EnsureInitialized \/ WriteEnvFile \/ RemoveLegacyFile \/ EnsureMcpEnvFile \/ CredentialsAnswered
      PROVE  Aside
  BY <1>1 DEF EnsureInitialized, WriteEnvFile, RemoveLegacyFile, EnsureMcpEnvFile, CredentialsAnswered,
       BeginEnv, Begin, EnvStep, EnvDone, Aside, KitSteps, records, bounds, history
<1>2. ASSUME NEW names, NEW scope, EnsureEntries(names) \/ ConfigureMcpCredentials(names, scope)
      PROVE  Aside
  BY <1>2 DEF EnsureEntries, ConfigureMcpCredentials, BeginEnv, Begin, Aside, KitSteps, records
<1>3. ASSUME NEW n, NEW value, AnswerCredential(n, value) \/ EditEnv(n, value)
      PROVE  Aside
  BY <1>3 DEF AnswerCredential, EditEnv, EnvStep, Aside, KitSteps, records, bounds, control, history
<1>4. ASSUME KillEnv PROVE Aside
  BY <1>4 DEF KillEnv, Aside, records, history
<1>5. QED
  BY <1>1, <1>2, <1>3, <1>4 DEF EnvNext

-----------------------------------------------------------------------------
(* The locals of a command about the toolkit.                              *)

\* What is the same for every command about the toolkit, or is settled by it.
Plan == KitTyped /\ Running /\ InKitMenu /\ Proceeding

LEMMA PlanInit ==
  ASSUME Init
  PROVE  Plan
<1>1. PICK scene \in Scenes : AgentInit(scene) /\ ToolkitInit(scene)
  BY DEF Init
<1>2. /\ kit = NoKit /\ locked = NoToolkit /\ toolkit = NoToolkit
      /\ disk \in [Paths -> Contents] /\ agents \in Seq(STRING) /\ menu \in Menus /\ pc = "idle"
  BY <1>1, SceneAssumption DEF AgentInit, ToolkitInit
<1>3. kit \in Kits /\ kit.mode = "none"
  BY <1>2 DEF NoKit, Kits
<1>4. agents \in Seq(AgentNames)
  BY <1>2 DEF AgentNames
<1>5. QED
  BY <1>2, <1>3, <1>4 DEF Plan, KitTyped, Running, InKitMenu, Proceeding, KitSteps

LEMMA AsideKeepsPlan ==
  ASSUME Plan, Aside, UNCHANGED kitVars
  PROVE  Plan'
<1>1. KitTyped'
  BY DEF Plan, KitTyped, Aside, kitVars
<1>2. Running' /\ InKitMenu' /\ Proceeding'
  BY DEF Plan, Running, InKitMenu, Proceeding, Aside, kitVars, KitSteps
<1>3. QED
  BY <1>1, <1>2 DEF Plan

LEMMA GoalType ==
  ASSUME NEW v \in Versions, NEW g \in BOOLEAN
  PROVE  Dependency(v, ResolveEffectiveScope(g)) \in Dependencies
  BY DEF Dependencies, ResolveEffectiveScope, Scopes

LEMMA NoKitType == NoKit \in Kits /\ NoKit.mode = "none" /\ NoKit.queue = <<>> /\ ~NoKit.switching
  BY DEF NoKit, Kits

LEMMA SnapshotType ==
  ASSUME NEW files1, NEW patterns \in SUBSET ToolkitPatterns
  PROVE  SnapshotToolkitPaths(files1, patterns) \subseteq PathsOf(patterns)
         /\ PathsOf(patterns) \subseteq PathsOf(ToolkitPatterns)
  BY DEF SnapshotToolkitPaths, PathsOf

LEMMA QueueType ==
  ASSUME NEW k \in Kits, NEW q \in Seq(Commands)
  PROVE  [k EXCEPT !.queue = q] \in Kits
  BY DEF Kits

\* What a state of the toolkit says of its version file.
LEMMA StateSays ==
  ASSUME NEW d, NEW files1, NEW tool
  PROVE  LET state == DetectToolkitState(d, files1, tool)
         IN /\ state \in {"global-tool-missing", "installed"} => ProjectVersion(files1) \in {Gone, d.version}
            /\ state \in {"global-tool-missing", "installed"} => ProjectVersion(files1) # Gone
            /\ state = "absent" <=> ProjectVersion(files1) = Gone
            /\ state \in {"absent", "mismatch", "global-tool-missing", "installed"}
  BY DEF DetectToolkitState, ClassifyToolkitState

LEMMA InstallPlans ==
  ASSUME Plan, NEW v \in Versions, NEW g \in BOOLEAN, InstallToolkit(v, g)
  PROVE  LET goal == Dependency(v, ResolveEffectiveScope(g))
             verdict == AssertToolkitPathsAllowed(disk, SnapshotToolkitPaths(disk, kit'.patterns), policy)
         IN /\ kit' \in Kits /\ kit'.mode = "install" /\ kit'.goal = goal /\ goal \in Dependencies
            /\ \A i \in DOMAIN kit'.queue : Covered(kit'.queue[i], kit'.patterns)
            /\ pc' \in {"idle", "proceed", "record"}
            /\ pc' = "idle" => (outcome' = "ok" /\ toolkit = goal /\ ProjectVersion(disk) = goal.version)
                               \/ outcome' = "failed"
            /\ pc' = "record" => ProjectVersion(disk) = goal.version /\ kit'.queue = <<>>
            /\ pc' = "proceed" =>
                 /\ \/ ProjectVersion(disk) = goal.version
                    \/ \E i \in DOMAIN kit'.queue : kit'.queue[i].run = "initProject"
                 /\ ~kit'.switching => ProjectVersion(disk) \in {Gone, goal.version}
                 /\ kit'.switching => ~verdict.throws /\ verdict.blocked = {}
<1> DEFINE goal == Dependency(v, ResolveEffectiveScope(g))
           state == DetectToolkitState(goal, disk, globalTool)
           keys == ResolveToolkitIntegrations(agents)
           patterns == CollectToolkitPathPatterns(keys)
           verdict == AssertToolkitPathsAllowed(disk, SnapshotToolkitPaths(disk, patterns), policy)
           queue == BuildToolkitInstallCommands(goal, keys, state, globalTool)
           switching == state = "mismatch"
           plan == [NoKit EXCEPT !.mode = "install", !.goal = goal, !.entry = locked,
                      !.patterns = patterns, !.switching = switching, !.queue = queue]
<1>1. goal \in Dependencies
  BY GoalType
<1>2. keys \in Seq(Keys)
  BY ResolveType DEF Plan, KitTyped
<1>3. patterns \in SUBSET ToolkitPatterns
  BY <1>2, CollectType
<1>4. /\ queue \in Seq(Commands)
      /\ \A i \in DOMAIN queue : Covered(queue[i], patterns)
      /\ state # "global-tool-missing" => \E i \in DOMAIN queue : queue[i].run = "initProject"
  <2>1. queue = BuildToolkitInstallCommands(goal, keys, state, globalTool)
    OBVIOUS
  <2> HIDE DEF keys, state, goal, queue
  <2>2. PlanFor(queue, keys, state)
    BY <1>2, <2>1, CommandsType
  <2>3. QED
    BY <2>2 DEF PlanFor
<1>5. /\ state \in {"global-tool-missing", "installed"} => ProjectVersion(disk) = goal.version
      /\ state = "absent" <=> ProjectVersion(disk) = Gone
      /\ state \in {"absent", "mismatch", "global-tool-missing", "installed"}
  BY StateSays
<1>6. /\ kit' = IF state = "installed" THEN [plan EXCEPT !.queue = <<>>] ELSE plan
      /\ IF state = "installed"
         THEN IF toolkit = goal THEN Leave("ok")
              ELSE pc' = "record" /\ outcome' = "none"
         ELSE IF plan.switching /\ (verdict.throws \/ verdict.blocked # {}) THEN Leave("failed")
         ELSE pc' = "proceed" /\ outcome' = "none"
  BY Zenon DEF InstallToolkit, goal, state, keys, patterns, verdict, queue, plan
<1> HIDE DEF goal, state, keys, patterns, verdict, queue, switching
<1>7. /\ plan.mode = "install" /\ plan.goal = goal /\ plan.patterns = patterns /\ plan.queue = queue
      /\ plan.switching = switching
  BY DEF NoKit
<1>8. plan \in Kits /\ [plan EXCEPT !.queue = <<>>] \in Kits
  <2>1. locked \in Entries \cup {NoToolkit} /\ switching \in BOOLEAN /\ goal \in Dependencies \cup {NoToolkit}
    BY <1>1 DEF Plan, KitTyped, switching
  <2>2. plan \in Kits
    BY <2>1, <1>3, <1>4, NoKitType DEF Kits
  <2> HIDE DEF plan
  <2>3. [plan EXCEPT !.queue = <<>>] \in Kits
    <3> DEFINE q == <<>>
    <3>1. q \in Seq(Commands)
      OBVIOUS
    <3> HIDE DEF q
    <3>2. [plan EXCEPT !.queue = q] \in Kits
      BY <2>2, <3>1, QueueType
    <3>3. QED
      BY <3>2 DEF q
  <2>4. QED
    BY <2>2, <2>3
<1>9. DOMAIN [plan EXCEPT !.queue = <<>>].queue = {}
      /\ [plan EXCEPT !.queue = <<>>].queue = <<>>
      /\ [plan EXCEPT !.queue = <<>>].mode = "install"
      /\ [plan EXCEPT !.queue = <<>>].goal = goal
  BY DEF NoKit
<1> HIDE DEF plan
<1>10. kit' \in Kits /\ kit'.mode = "install" /\ kit'.goal = goal
       /\ \A i \in DOMAIN kit'.queue : Covered(kit'.queue[i], kit'.patterns)
  BY <1>4, <1>6, <1>7, <1>8, <1>9
<1>11. pc' = "proceed" => kit'.queue = queue /\ kit'.patterns = patterns /\ kit'.switching = switching
                          /\ state # "installed"
  BY <1>6, <1>7 DEF Leave
<1>12. pc' = "proceed" => (switching => ~verdict.throws /\ verdict.blocked = {})
  BY <1>6, <1>7 DEF Leave
<1>13. /\ pc' \in {"idle", "proceed", "record"}
       /\ pc' = "idle" => (outcome' = "ok" /\ toolkit = goal /\ state = "installed") \/ outcome' = "failed"
       /\ pc' = "record" => state = "installed" /\ kit'.queue = <<>>
  BY <1>6, <1>9 DEF Leave
<1>14. pc' = "proceed" =>
         \/ ProjectVersion(disk) = goal.version
         \/ \E i \in DOMAIN kit'.queue : kit'.queue[i].run = "initProject"
  BY <1>4, <1>5, <1>11
<1>15. pc' = "proceed" /\ ~kit'.switching => ProjectVersion(disk) \in {Gone, goal.version}
  BY <1>5, <1>11 DEF switching
<1>16. QED
  BY <1>1, <1>5, <1>10, <1>11, <1>12, <1>13, <1>14, <1>15 DEF goal, verdict

LEMMA RestorePlans ==
  ASSUME Plan, NEW mode \in {"install", "ci"}, RestoreToolkits(mode)
  PROVE  /\ kit' \in Kits /\ kit'.mode \in {"none", "restore"} /\ ~kit'.switching
         /\ \A i \in DOMAIN kit'.queue : Covered(kit'.queue[i], kit'.patterns)
         /\ locked' \in Entries \cup {NoToolkit}
         /\ locked' # NoToolkit => locked'.paths = CollectToolkitPathPatterns(locked'.integrations)
         /\ locked' = BuildToolkitLockEntries(toolkit, agents) \/ locked' = locked
         /\ kit'.mode = "restore" =>
              /\ locked' # NoToolkit /\ pc' = "run"
              /\ kit'.before = SnapshotToolkitPaths(disk, kit'.patterns)
              /\ ProjectVersion(disk) \in {Gone, locked'.version}
              /\ \/ ProjectVersion(disk) = locked'.version
                 \/ \E i \in DOMAIN kit'.queue : kit'.queue[i].run = "initProject"
         /\ kit'.mode # "restore" => pc' \in {"idle", "profile"}
<1> DEFINE built == BuildToolkitLockEntries(toolkit, agents)
           lock == IF mode = "install" THEN built ELSE locked
           state == DetectToolkitState(lock, disk, globalTool)
           queue == IF state = "installed" THEN <<>>
                    ELSE BuildToolkitInstallCommands(lock, lock.integrations, state, globalTool)
           before == SnapshotToolkitPaths(disk, lock.paths)
           plan == [NoKit EXCEPT !.mode = "restore", !.patterns = lock.paths,
                      !.before = before, !.queue = queue]
           refused == (mode = "ci" /\ locked # built) \/ (lock # NoToolkit /\ state = "mismatch")
<1>1. /\ built \in Entries \cup {NoToolkit}
      /\ built # NoToolkit => built.paths = CollectToolkitPathPatterns(built.integrations)
  BY BuiltType DEF Plan, KitTyped
<1> HIDE DEF built
<1>2. /\ lock \in Entries \cup {NoToolkit}
      /\ lock # NoToolkit => lock.paths = CollectToolkitPathPatterns(lock.integrations)
  BY <1>1 DEF Plan, KitTyped
<1>3. /\ locked' = lock
      /\ IF refused THEN Leave("failed") /\ kit' = NoKit
         ELSE IF lock = NoToolkit THEN RestoreConfiguredAgents(FALSE, {}) /\ kit' = NoKit
         ELSE kit' = plan /\ pc' = "run"
  BY Zenon DEF RestoreToolkits, built, lock, state, queue, before, plan, refused
<1>4. lock = built \/ lock = locked
  OBVIOUS
<1> HIDE DEF lock
<1>5. CASE kit' = NoKit
  <2>1. pc' \in {"idle", "profile"}
    <3>1. NoKit # plan
      BY DEF NoKit
    <3> HIDE DEF plan, refused
    <3>2. QED
      BY <1>3, <1>5, <3>1 DEF Leave, RestoreConfiguredAgents, Configure, Finish
  <2>2. kit' \in Kits /\ kit'.mode = "none" /\ ~kit'.switching /\ DOMAIN kit'.queue = {}
    BY <1>5, NoKitType
  <2>3. QED
    BY <1>2, <1>3, <1>4, <2>1, <2>2 DEF built
<1>6. CASE kit' # NoKit
  <2>1. kit' = plan /\ pc' = "run" /\ lock # NoToolkit /\ ~refused
    <3> HIDE DEF plan, refused
    <3>1. QED
      BY <1>3, <1>6
  <2>2. lock \in Entries
    BY <1>2, <2>1
  <2>3. lock.integrations \in Seq(Keys) /\ lock.paths \in SUBSET ToolkitPatterns
        /\ lock.paths = CollectToolkitPathPatterns(lock.integrations)
    BY <1>2, <2>1, <2>2 DEF Entries
  <2>4. /\ state # "mismatch" /\ state \in {"absent", "mismatch", "global-tool-missing", "installed"}
        /\ state \in {"global-tool-missing", "installed"} => ProjectVersion(disk) = lock.version
        /\ state = "absent" => ProjectVersion(disk) = Gone
    <3>1. state # "mismatch"
      BY <2>1 DEF refused
    <3>2. QED
      BY <3>1, StateSays
  <2>5. /\ queue \in Seq(Commands)
        /\ \A i \in DOMAIN queue : Covered(queue[i], lock.paths)
        /\ state = "absent" => \E i \in DOMAIN queue : queue[i].run = "initProject"
    <3> HIDE DEF state
    <3>1. CASE state = "installed"
      BY <3>1
    <3>2. CASE state # "installed"
      <4> DEFINE keys == lock.integrations
                 commands1 == BuildToolkitInstallCommands(lock, keys, state, globalTool)
      <4>1. keys \in Seq(Keys) /\ lock.paths = CollectToolkitPathPatterns(keys)
        BY <2>3
      <4>2. queue = commands1
        BY <3>2
      <4>a. commands1 = BuildToolkitInstallCommands(lock, keys, state, globalTool)
        OBVIOUS
      <4> HIDE DEF keys, queue, commands1
      <4>3. PlanFor(commands1, keys, state)
        BY <4>a, <4>1, CommandsType
      <4>4. QED
        BY <2>4, <4>1, <4>2, <4>3 DEF PlanFor
    <3>3. QED
      BY <3>1, <3>2
  <2>6. before \in SUBSET PathsOf(ToolkitPatterns)
    BY <2>3, SnapshotType
  <2> HIDE DEF state, queue
  <2>7. /\ plan.mode = "restore" /\ plan.patterns = lock.paths /\ plan.queue = queue
        /\ plan.before = before /\ ~plan.switching
    BY DEF NoKit
  <2>8. plan \in Kits
    <3> HIDE DEF before
    <3>1. QED
      BY <2>3, <2>5, <2>6, NoKitType DEF Kits
  <2> HIDE DEF plan, refused
  <2>9. QED
    BY <1>2, <1>3, <1>4, <2>1, <2>4, <2>5, <2>7, <2>8 DEF built
<1>7. QED
  BY <1>5, <1>6

\* What a command about the toolkit does to the files of the workspace.
LEMMA ExpectedType ==
  ASSUME Plan, pc \in {"proceed", "run", "rollback"}
  PROVE  Expected.version \in Versions
<1>1. CASE kit.mode = "restore"
  <2>1. locked \in Entries
    BY <1>1 DEF Plan, KitTyped, Running
  <2>2. QED
    BY <1>1, <2>1 DEF Expected, Entries
<1>2. CASE kit.mode # "restore"
  <2>1. kit.mode = "install" /\ kit.goal # NoToolkit
    BY <1>2 DEF Plan, Running
  <2>2. kit.goal \in Dependencies
    BY <2>1 DEF Plan, KitTyped, Kits
  <2>3. QED
    BY <1>2, <2>2, DependencyFields DEF Expected
<1>3. QED
  BY <1>1, <1>2

LEMMA WrittenType ==
  ASSUME Plan, pc = "run", NEW S
  PROVE  Written(S) \in [Paths -> Contents]
  BY ExpectedType DEF Written, Contents, Plan, KitTyped

LEMMA DeletedType ==
  ASSUME Plan, NEW S
  PROVE  Deleted(S) \in [Paths -> Contents]
  BY DEF Deleted, Contents, Plan, KitTyped

LEMMA HeadTail ==
  ASSUME NEW T, NEW list \in Seq(T), list # <<>>
  PROVE  /\ Tail(list) \in Seq(T) /\ Head(list) = list[1] /\ 1 \in DOMAIN list
         /\ \A i \in DOMAIN Tail(list) : i + 1 \in DOMAIN list /\ Tail(list)[i] = list[i + 1]
  OBVIOUS

\* The end of a command about the toolkit, or of a part of it.
LEMMA RestoreEnds ==
  ASSUME NEW offering, NEW undo, RestoreConfiguredAgents(offering, undo)
  PROVE  pc' \in {"idle", "profile"} /\ outcome' \in {"ok", "none", "failed"}
  BY DEF RestoreConfiguredAgents, Configure, Finish

LEMMA KitBegins ==
  ASSUME Plan, BeginKit
  PROVE  /\ pc = "idle" /\ menu = "toolkits" /\ menu' = menu /\ kills' = kills /\ touched' = FALSE
         /\ agents' = agents /\ disk' = disk /\ policy' = policy
         /\ found' = [toolkit |-> toolkit, locked |-> locked, disk |-> disk, policy |-> policy]
  BY DEF BeginKit, Begin

\* The commands that begin.
LEMMA BeginningsKeepPlan ==
  ASSUME Plan, NEW v, NEW g, NEW mode,
         \/ v \in Versions /\ g \in BOOLEAN /\ InstallToolkit(v, g)
         \/ RefuseToolkit
         \/ RemoveToolkit
         \/ mode \in {"install", "ci"} /\ RestoreToolkits(mode)
  PROVE  Plan'
<1>1. CASE v \in Versions /\ g \in BOOLEAN /\ InstallToolkit(v, g)
  <2>1. toolkit' = toolkit /\ locked' = locked /\ BeginKit
    BY <1>1 DEF InstallToolkit
  <2>2. KitTyped'
    BY <1>1, <2>1, InstallPlans, KitBegins DEF Plan, KitTyped
  <2>3. /\ kit'.mode = "install" /\ kit'.goal # NoToolkit /\ pc' \in {"idle", "proceed", "record"}
        /\ \A i \in DOMAIN kit'.queue : Covered(kit'.queue[i], kit'.patterns)
    BY <1>1, InstallPlans, DependencyFields
  <2>4. QED
    BY <2>1, <2>2, <2>3, KitBegins DEF Plan, Running, InKitMenu, Proceeding
<1>2. CASE RefuseToolkit
  <2>1. kit' \in Kits /\ BeginKit /\ toolkit' = toolkit /\ locked' = locked /\ pc' = "idle"
    <3>1. [NoKit EXCEPT !.mode = "install"] \in Kits
      BY NoKitType DEF Kits
    <3>2. QED
      BY <1>2, <3>1 DEF RefuseToolkit, Leave
  <2>2. QED
    BY <2>1, KitBegins DEF Plan, KitTyped, Running, InKitMenu, Proceeding
<1>3. CASE RemoveToolkit
  <2>1. BeginKit /\ locked' = locked /\ toolkit' \in {toolkit, NoToolkit} /\ pc' \in {"idle", "relock"}
    BY <1>3 DEF RemoveToolkit, Leave
  <2>2. kit' \in Kits /\ (pc' = "relock" => kit'.mode = "remove")
    <3>1. CASE toolkit = NoToolkit
      BY <1>3, <3>1, NoKitType DEF RemoveToolkit, Leave
    <3>2. CASE toolkit # NoToolkit
      <4> DEFINE plan == [NoKit EXCEPT !.mode = "remove", !.previous = toolkit, !.entry = locked]
      <4>1. kit' = plan
        BY <1>3, <3>2 DEF RemoveToolkit
      <4>2. plan \in Kits /\ plan.mode = "remove"
        BY NoKitType DEF Kits, Plan, KitTyped
      <4> HIDE DEF plan
      <4>3. QED
        BY <4>1, <4>2
    <3>3. QED
      BY <3>1, <3>2
  <2>3. QED
    BY <2>1, <2>2, KitBegins DEF Plan, KitTyped, Running, InKitMenu, Proceeding
<1>4. CASE mode \in {"install", "ci"} /\ RestoreToolkits(mode)
  <2>1. BeginKit /\ toolkit' = toolkit
    BY <1>4 DEF RestoreToolkits
  <2>2. KitTyped'
    BY <1>4, <2>1, RestorePlans, KitBegins DEF Plan, KitTyped
  <2>3. pc' \in {"idle", "profile", "run"} /\ (pc' = "run" => kit'.mode = "restore" /\ locked' # NoToolkit)
        /\ \A i \in DOMAIN kit'.queue : Covered(kit'.queue[i], kit'.patterns)
    BY <1>4, RestorePlans
  <2>4. QED
    BY <2>1, <2>2, <2>3, KitBegins DEF Plan, Running, InKitMenu, Proceeding
<1>5. QED
  BY <1>1, <1>2, <1>3, <1>4

\* What the rest of the steps leave alone.
Still == menu' = menu /\ agents' = agents /\ menu = "toolkits" /\ disk' \in [Paths -> Contents]

LEMMA StillKeepsPlan ==
  ASSUME Plan, Still, kit' \in Kits, toolkit' \in Dependencies \cup {NoToolkit}, locked' = locked,
         Running', Proceeding'
  PROVE  Plan'
<1>1. KitTyped'
  BY DEF Plan, Still, KitTyped
<1>2. InKitMenu'
  BY DEF Still, InKitMenu
<1>3. QED
  BY <1>1, <1>2 DEF Plan

LEMMA ToolkitMenu ==
  ASSUME Plan, pc \in KitSteps
  PROVE  menu = "toolkits"
  BY DEF Plan, InKitMenu

\* The commands that run, and what undoes them.
LEMMA RunsKeepPlan ==
  ASSUME Plan, NEW accepted \in BOOLEAN,
         Proceed(accepted) \/ RunToolkitCommand \/ ToolkitCommandFails \/ ToolkitCommandsDone
           \/ RollbackNewToolkitPaths
  PROVE  Plan'
<1>1. CASE Proceed(accepted)
  <2> DEFINE before == SnapshotToolkitPaths(disk, kit.patterns)
  <2>1. kit \in Kits /\ kit.patterns \in SUBSET ToolkitPatterns
    BY DEF Plan, KitTyped, Kits
  <2>2. before \in SUBSET PathsOf(ToolkitPatterns)
    BY <2>1, SnapshotType
  <2>3. kit' = [kit EXCEPT !.before = before]
    BY <1>1 DEF Proceed
  <2> HIDE DEF before
  <2>4. kit' \in Kits /\ kit'.mode = kit.mode /\ kit'.goal = kit.goal /\ kit'.queue = kit.queue
        /\ kit'.patterns = kit.patterns
    BY <2>1, <2>2, <2>3 DEF Kits
  <2>5. Still /\ pc' \in {"run", "idle"} /\ pc = "proceed" /\ locked' = locked /\ toolkit' = toolkit
    BY <1>1, ToolkitMenu DEF Proceed, At, Leave, Still, records, bounds, KitSteps, Plan, KitTyped
  <2>6. Running' /\ Proceeding'
    BY <2>4, <2>5 DEF Plan, Running, Proceeding
  <2>7. toolkit' \in Dependencies \cup {NoToolkit}
    BY <2>5 DEF Plan, KitTyped
  <2>8. QED
    BY <2>4, <2>5, <2>6, <2>7, StillKeepsPlan
<1>2. CASE RunToolkitCommand
  <2>1. kit \in Kits /\ kit.queue \in Seq(Commands) /\ kit.queue # <<>> /\ pc = "run"
    BY <1>2 DEF Plan, KitTyped, Kits, RunToolkitCommand
  <2>2. Tail(kit.queue) \in Seq(Commands) /\ kit' = [kit EXCEPT !.queue = Tail(kit.queue)]
    BY <1>2, <2>1, HeadTail DEF RunToolkitCommand
  <2>3. kit' \in Kits /\ kit'.mode = kit.mode /\ kit'.goal = kit.goal /\ kit'.queue = Tail(kit.queue)
        /\ kit'.patterns = kit.patterns
    BY <2>1, <2>2 DEF Kits
  <2>4. Still /\ pc' = pc /\ locked' = locked /\ toolkit' = toolkit
    BY <1>2, <2>1, ToolkitMenu, WrittenType DEF RunToolkitCommand, Still, records, control, bounds, KitSteps
  <2>5. \A i \in DOMAIN kit'.queue : Covered(kit'.queue[i], kit'.patterns)
    <3>1. \A i \in DOMAIN kit'.queue : i + 1 \in DOMAIN kit.queue /\ kit'.queue[i] = kit.queue[i + 1]
      BY <2>1, <2>3, HeadTail
    <3>2. \A i \in DOMAIN kit.queue : Covered(kit.queue[i], kit.patterns)
      BY <2>1 DEF Plan, Running
    <3>3. QED
      BY <2>3, <3>1, <3>2
  <2>6. Running' /\ Proceeding'
    BY <2>1, <2>3, <2>4, <2>5 DEF Plan, Running, Proceeding
  <2>7. toolkit' \in Dependencies \cup {NoToolkit}
    BY <2>4 DEF Plan, KitTyped
  <2>8. QED
    BY <2>3, <2>4, <2>6, <2>7, StillKeepsPlan
<1>3. CASE ToolkitCommandFails \/ ToolkitCommandsDone \/ RollbackNewToolkitPaths
  <2>1. Still /\ locked' = locked /\ toolkit' = toolkit /\ kit' = kit /\ pc \in {"run", "rollback"}
    <3>1. CASE ToolkitCommandFails
      BY <3>1, ToolkitMenu, WrittenType
      DEF ToolkitCommandFails, Still, records, bounds, KitSteps
    <3>2. CASE ToolkitCommandsDone
      BY <3>2, ToolkitMenu
      DEF ToolkitCommandsDone, Still, records, bounds, KitSteps, Plan, KitTyped
    <3>3. CASE RollbackNewToolkitPaths
      <4>1. disk' \in [Paths -> Contents]
        BY <3>3, DeletedType DEF RollbackNewToolkitPaths, Plan, KitTyped
      <4>2. QED
        BY <3>3, <4>1, ToolkitMenu DEF RollbackNewToolkitPaths, Still, records, bounds, KitSteps
    <3>4. QED
      BY <1>3, <3>1, <3>2, <3>3
  <2>2. pc' \in {"rollback", "record", "idle", "profile"}
        /\ (pc' = "record" => kit.mode = "install")
    BY <1>3, RestoreEnds DEF ToolkitCommandFails, ToolkitCommandsDone, RollbackNewToolkitPaths, At, Leave
  <2>3. Running' /\ Proceeding'
    BY <2>1, <2>2 DEF Plan, Running, Proceeding
  <2>4. toolkit' \in Dependencies \cup {NoToolkit} /\ kit' \in Kits
    BY <2>1 DEF Plan, KitTyped
  <2>5. QED
    BY <2>1, <2>3, <2>4, StillKeepsPlan
<1>4. QED
  BY <1>1, <1>2, <1>3

\* The manifest and the lock are written.
LEMMA RecordsKeepPlan ==
  ASSUME Plan, RecordToolkit \/ Relock \/ RelockFails
  PROVE  Plan'
<1>1. CASE RecordToolkit
  <2>1. /\ kit \in Kits /\ kit.mode = "install" /\ pc = "record"
        /\ kit.goal # NoToolkit /\ toolkit \in Dependencies \cup {NoToolkit}
    BY <1>1 DEF RecordToolkit, Plan, KitTyped, Proceeding
  <2>2. kit' \in Kits /\ kit'.mode = "install" /\ kit'.goal # NoToolkit
    BY <1>1, <2>1 DEF RecordToolkit, Kits
  <2>3. toolkit' \in Dependencies \cup {NoToolkit}
    BY <1>1, <2>1 DEF RecordToolkit, Kits
  <2>4. Still /\ pc' = "relock" /\ locked' = locked
    BY <1>1, ToolkitMenu DEF RecordToolkit, At, Still, records, bounds, KitSteps, Plan, KitTyped
  <2>5. Running' /\ Proceeding'
    BY <2>2, <2>4 DEF Running, Proceeding
  <2>6. QED
    BY <2>2, <2>3, <2>4, <2>5, StillKeepsPlan
<1>2. CASE Relock
  <2>1. pc = "relock" /\ kit' = kit /\ toolkit' = toolkit /\ disk' = disk /\ agents' = agents
        /\ menu' = menu /\ locked' = BuildToolkitLockEntries(toolkit, agents)
    BY <1>2 DEF Relock, kitVars, bounds
  <2>2. pc' \in {"question", "idle", "profile"} /\ (pc' = "question" => kit.mode = "remove")
    BY <1>2, RestoreEnds DEF Relock, At
  <2>3. KitTyped'
    BY <2>1, BuiltType DEF Plan, KitTyped
  <2>4. Running' /\ Proceeding' /\ InKitMenu'
    BY <2>1, <2>2, ToolkitMenu DEF Running, Proceeding, InKitMenu, KitSteps
  <2>5. QED
    BY <2>3, <2>4 DEF Plan
<1>3. CASE RelockFails
  <2>1. Still /\ pc' = "idle" /\ locked' = locked /\ kit' = kit /\ toolkit' = kit.previous
    BY <1>3, ToolkitMenu DEF RelockFails, Leave, Still, records, bounds, KitSteps, Plan, KitTyped
  <2>2. kit' \in Kits /\ toolkit' \in Dependencies \cup {NoToolkit}
    BY <2>1 DEF Plan, KitTyped, Kits
  <2>3. Running' /\ Proceeding'
    BY <2>1 DEF Running, Proceeding
  <2>4. QED
    BY <2>1, <2>2, <2>3, StillKeepsPlan
<1>4. QED
  BY <1>1, <1>2, <1>3

LEMMA UninstallCommands ==
  ASSUME NEW keys \in Seq(Keys)
  PROVE  LET queue == [i \in DOMAIN keys |-> Command("removeIntegration", keys[i])]
         IN queue \in Seq(Commands) /\ \A i \in DOMAIN queue : queue[i].key \in Keys
<1> DEFINE run == "removeIntegration"
<1>1. run \in Runs
  BY DEF Runs
<1> HIDE DEF run
<1>2. ASSUME NEW i \in DOMAIN keys PROVE Command(run, keys[i]) \in {c \in Commands : c.key \in Keys}
  <2>1. keys[i] \in Keys
    OBVIOUS
  <2> DEFINE c == Command(run, keys[i])
  <2>2. c \in Commands /\ c.key = keys[i]
    BY <1>1, <2>1, CommandFields
  <2> HIDE DEF c
  <2>3. QED
    BY <2>1, <2>2 DEF c
<1> DEFINE C == {c \in Commands : c.key \in Keys}
           queue == [i \in DOMAIN keys |-> Command(run, keys[i])]
<1> HIDE DEF C
<1>3. queue \in [1..Len(keys) -> C]
  BY <1>2 DEF C
<1> HIDE DEF queue
<1>4. queue \in Seq(C) /\ \A i \in DOMAIN queue : queue[i] \in C
  BY <1>3
<1>a. queue \in Seq(Commands) /\ \A i \in DOMAIN queue : queue[i].key \in Keys
  BY <1>4 DEF C
<1>5. QED
  BY <1>a DEF run, queue

LEMMA RemovesKeepPlan ==
  ASSUME Plan, NEW accepted \in BOOLEAN,
         AnswerDeletion(accepted) \/ UninstallIntegration \/ DeleteToolkitPaths
  PROVE  Plan'
<1>1. CASE AnswerDeletion(accepted)
  <2>1. Still /\ pc = "question" /\ locked' = locked /\ toolkit' = toolkit
    BY <1>1, ToolkitMenu DEF AnswerDeletion, Still, records, bounds, KitSteps, Plan, KitTyped
  <2>2. kit \in Kits /\ kit.mode = "remove" /\ kit.entry \in Entries \cup {NoToolkit}
    BY <2>1 DEF Plan, KitTyped, Proceeding, Kits
  <2>3. /\ kit' \in Kits /\ kit'.mode = "remove" /\ pc' \in {"uninstall", "idle", "profile"}
        /\ pc' = "uninstall" => \A i \in DOMAIN kit'.queue : kit'.queue[i].key \in Keys
    <3>1. CASE ~(accepted /\ SnapshotToolkitPaths(disk, EntryPaths) # {})
      BY <1>1, <2>2, <3>1, RestoreEnds DEF AnswerDeletion
    <3>2. CASE accepted /\ SnapshotToolkitPaths(disk, EntryPaths) # {}
      <4> DEFINE queue == IF kit.entry = NoToolkit THEN <<>>
                          ELSE [i \in DOMAIN kit.entry.integrations |->
                                  Command("removeIntegration", kit.entry.integrations[i])]
      <4>1. kit' = [kit EXCEPT !.queue = queue] /\ pc' = "uninstall"
        BY <1>1, <3>2 DEF AnswerDeletion, At
      <4>2. queue \in Seq(Commands) /\ \A i \in DOMAIN queue : queue[i].key \in Keys
        <5>1. CASE kit.entry = NoToolkit
          BY <5>1
        <5>2. CASE kit.entry # NoToolkit
          <6>1. kit.entry.integrations \in Seq(Keys)
            BY <2>2, <5>2 DEF Entries
          <6> DEFINE keys == kit.entry.integrations
          <6>2. queue = [i \in DOMAIN keys |-> Command("removeIntegration", keys[i])]
            BY <5>2
          <6> HIDE DEF keys, queue
          <6>3. QED
            BY <6>1, <6>2, UninstallCommands DEF keys
        <5>3. QED
          BY <5>1, <5>2
      <4> HIDE DEF queue
      <4>3. kit' \in Kits
        BY <2>2, <4>1, <4>2, QueueType
      <4>4. kit'.mode = kit.mode /\ kit'.queue = queue
        BY <2>2, <4>1 DEF Kits
      <4>5. QED
        BY <2>2, <4>1, <4>2, <4>3, <4>4
    <3>3. QED
      BY <3>1, <3>2
  <2>4. Running' /\ Proceeding' /\ toolkit' \in Dependencies \cup {NoToolkit}
    BY <2>1, <2>3 DEF Running, Proceeding, Plan, KitTyped
  <2>5. QED
    BY <2>1, <2>3, <2>4, StillKeepsPlan
<1>2. CASE UninstallIntegration
  <2> DEFINE command == Head(kit.queue)
             pattern == {Speckit.integrationPaths[command.key]}
             verdict == AssertToolkitPathsAllowed(disk, SnapshotToolkitPaths(disk, pattern), policy)
             places == SnapshotToolkitPaths(disk, pattern)
  <2>1. /\ menu' = menu /\ agents' = agents /\ menu = "toolkits"
        /\ pc = "uninstall" /\ locked' = locked /\ toolkit' = toolkit /\ kit.queue # <<>>
    BY <1>2, ToolkitMenu DEF UninstallIntegration, records, bounds, KitSteps
  <2>2. kit \in Kits /\ kit.mode = "remove" /\ kit.queue \in Seq(Commands)
    BY <2>1 DEF Plan, KitTyped, Proceeding, Kits
  <2>a. \A i \in DOMAIN kit.queue : kit.queue[i].key \in Keys
    BY <2>1 DEF Plan, Proceeding
  <2>3. /\ Tail(kit.queue) \in Seq(Commands) /\ command \in Commands /\ command.key \in Keys
        /\ \A i \in DOMAIN Tail(kit.queue) : Tail(kit.queue)[i].key \in Keys
    BY <2>1, <2>2, <2>a, HeadTail
  <2>4. disk' \in [Paths -> Contents]
    <3>1. disk' = disk \/ \E S : disk' = [f \in Paths |-> IF f \in S THEN Gone ELSE disk[f]]
      BY <1>2 DEF UninstallIntegration
    <3>2. QED
      BY <3>1 DEF Plan, KitTyped, Contents
  <2>5. IF verdict.throws THEN kit' = kit
        ELSE kit' = [kit EXCEPT !.queue = Tail(kit.queue), !.blocked = @ \cup verdict.blocked]
    BY <1>2, Zenon DEF UninstallIntegration
  <2>6. verdict.blocked \subseteq PathsOf(ToolkitPatterns)
    <3>1. verdict.blocked \subseteq places
      BY DEF AssertToolkitPathsAllowed
    <3>2. pattern \in SUBSET ToolkitPatterns
      BY <2>3 DEF ToolkitPatterns
    <3>3. places \subseteq PathsOf(ToolkitPatterns)
      BY <3>2, SnapshotType
    <3>4. QED
      BY <3>1, <3>3
  <2> DEFINE blocked == kit.blocked \cup verdict.blocked
             rest == Tail(kit.queue)
             next == [kit EXCEPT !.queue = rest, !.blocked = blocked]
  <2>7. /\ kit' \in Kits /\ kit'.mode = "remove"
        /\ \A i \in DOMAIN kit'.queue : kit'.queue[i].key \in Keys
    <3>1. blocked \in SUBSET PathsOf(ToolkitPatterns)
      BY <2>2, <2>6 DEF Kits
    <3>2. kit' = kit \/ kit' = next
      BY <2>5
    <3>3. rest \in Seq(Commands)
      BY <2>3
    <3> HIDE DEF blocked, verdict, rest
    <3>4. next \in Kits /\ next.mode = "remove" /\ next.queue = rest
      BY <2>2, <3>1, <3>3 DEF Kits
    <3> HIDE DEF next
    <3>5. QED
      BY <2>a, <2>2, <2>3, <3>2, <3>4 DEF rest
  <2> HIDE DEF verdict
  <2>8. pc' \in {"uninstall", "idle"}
    BY <1>2, <2>1 DEF UninstallIntegration, LeaveBehind, control
  <2>9. Still /\ Running' /\ Proceeding' /\ toolkit' \in Dependencies \cup {NoToolkit}
    BY <2>1, <2>4, <2>7, <2>8 DEF Still, Running, Proceeding, Plan, KitTyped
  <2>10. QED
    BY <2>1, <2>7, <2>9, StillKeepsPlan
<1>3. CASE DeleteToolkitPaths
  <2>1. disk' \in [Paths -> Contents]
    BY <1>3, DeletedType DEF DeleteToolkitPaths, Plan, KitTyped
  <2>2. Still /\ pc = "uninstall" /\ locked' = locked /\ toolkit' = toolkit /\ kit' = kit
    BY <1>3, <2>1, ToolkitMenu DEF DeleteToolkitPaths, Still, records, bounds, KitSteps
  <2>3. pc' \in {"idle", "profile"}
    BY <1>3, RestoreEnds DEF DeleteToolkitPaths, LeaveBehind
  <2>4. Running' /\ Proceeding' /\ toolkit' \in Dependencies \cup {NoToolkit} /\ kit' \in Kits
    BY <2>2, <2>3 DEF Running, Proceeding, Plan, KitTyped
  <2>5. QED
    BY <2>2, <2>4, StillKeepsPlan
<1>4. QED
  BY <1>1, <1>2, <1>3

LEMMA FaultsKeepPlan ==
  ASSUME Plan, KillToolkit \/ \E f \in Paths : EditDisk(f)
  PROVE  Plan'
<1>1. CASE KillToolkit
  <2>1. kit' = NoKit /\ pc' = "idle" /\ locked' = locked /\ toolkit' = toolkit /\ agents' = agents /\ menu' = menu
        /\ menu = "toolkits"
    BY <1>1, ToolkitMenu DEF KillToolkit, records, KitSteps
  <2>2. disk' \in [Paths -> Contents]
    <3>1. disk' = disk \/ (pc = "run" /\ \E S : disk' = Written(S))
      BY <1>1 DEF KillToolkit
    <3>2. QED
      BY <3>1, WrittenType DEF Plan, KitTyped
  <2>3. Still /\ Running' /\ Proceeding' /\ kit' \in Kits /\ toolkit' \in Dependencies \cup {NoToolkit}
    BY <2>1, <2>2, NoKitType DEF Still, Running, Proceeding, Plan, KitTyped
  <2>4. QED
    BY <2>1, <2>3, StillKeepsPlan
<1>2. ASSUME NEW f \in Paths, EditDisk(f) PROVE Plan'
  <2>1. /\ pc \in {"proceed", "question"} /\ pc' = pc /\ locked' = locked /\ toolkit' = toolkit
        /\ agents' = agents /\ menu' = menu /\ menu = "toolkits" /\ kit' = kit
    BY <1>2, ToolkitMenu DEF EditDisk, records, control, KitSteps
  <2>2. disk' \in [Paths -> Contents]
    BY <1>2 DEF EditDisk, Plan, KitTyped, Contents
  <2>3. Still /\ Running' /\ Proceeding' /\ kit' \in Kits /\ toolkit' \in Dependencies \cup {NoToolkit}
    BY <2>1, <2>2 DEF Still, Running, Proceeding, Plan, KitTyped
  <2>4. QED
    BY <2>1, <2>3, StillKeepsPlan
<1>3. QED
  BY <1>1, <1>2

LEMMA KitKeepsPlan ==
  ASSUME Plan, ToolkitNext
  PROVE  Plan'
<1>1. ASSUME NEW v \in Versions, NEW g \in BOOLEAN, InstallToolkit(v, g) PROVE Plan'
  BY <1>1, BeginningsKeepPlan
<1>2. ASSUME RefuseToolkit \/ RemoveToolkit PROVE Plan'
  BY <1>2, BeginningsKeepPlan
<1>3. ASSUME NEW mode \in {"install", "ci"}, RestoreToolkits(mode) PROVE Plan'
  BY <1>3, BeginningsKeepPlan
<1>4. QED
  BY <1>1, <1>2, <1>3, RunsKeepPlan, RecordsKeepPlan, RemovesKeepPlan, FaultsKeepPlan DEF ToolkitNext

-----------------------------------------------------------------------------
(* The lock and the manifest.                                              *)


LEMMA AsideKeepsLock ==
  ASSUME LockInv, Aside, UNCHANGED kitVars
  PROVE  LockInv'
  BY DEF LockInv, Aside, KitSteps, kitVars, Pins

LEMMA LockInvInit ==
  ASSUME Init
  PROVE  LockInv
<1>1. PICK scene \in Scenes : AgentInit(scene) /\ ToolkitInit(scene)
  BY DEF Init
<1>2. QED
  BY <1>1 DEF AgentInit, ToolkitInit, LockInv, Pins

LEMMA InstallKeepsLock ==
  ASSUME Plan, LockInv, NEW v \in Versions, NEW g \in BOOLEAN, InstallToolkit(v, g)
  PROVE  LockInv'
<1>1. toolkit' = toolkit /\ locked' = locked /\ BeginKit
  BY DEF InstallToolkit
<1>2. pc' \in {"idle", "record", "proceed"}
  BY InstallPlans
<1>3. QED
  BY <1>1, <1>2, KitBegins DEF LockInv

LEMMA RestoreKeepsLock ==
  ASSUME Plan, LockInv, NEW mode \in {"install", "ci"}, RestoreToolkits(mode)
  PROVE  LockInv'
<1>1. toolkit' = toolkit /\ BeginKit
  BY DEF RestoreToolkits
<1>2. locked' = BuildToolkitLockEntries(toolkit, agents) \/ locked' = locked
  BY RestorePlans
<1>3. pc' \in {"idle", "profile", "run"}
  BY RestorePlans
<1>4. QED
  BY <1>1, <1>2, <1>3, KitBegins, BuiltPins DEF LockInv, Plan, KitTyped

LEMMA KitKeepsLock ==
  ASSUME Plan, LockInv, ToolkitNext
  PROVE  LockInv'
<1>1. ASSUME RefuseToolkit PROVE LockInv'
  BY <1>1, KitBegins DEF RefuseToolkit, Leave, LockInv
<1>2. ASSUME NEW accepted \in BOOLEAN, Proceed(accepted) PROVE LockInv'
  BY <1>2 DEF Proceed, At, Leave, LockInv, records, bounds
<1>3. ASSUME NEW accepted \in BOOLEAN, AnswerDeletion(accepted) PROVE LockInv'
  <2>1. pc' \in {"uninstall", "profile", "idle"} /\ pc = "question"
    BY <1>3 DEF AnswerDeletion, At, RestoreConfiguredAgents, Configure, Finish
  <2>2. QED
    BY <1>3, <2>1 DEF AnswerDeletion, LockInv, records, bounds
<1>4. ASSUME RunToolkitCommand \/ ToolkitCommandFails PROVE LockInv'
  <2>1. pc = "run" /\ pc' \in {"run", "rollback"} /\ kills' = kills /\ locked' = locked /\ toolkit' = toolkit
    BY <1>4 DEF RunToolkitCommand, ToolkitCommandFails, At, records, bounds, control
  <2>2. QED
    BY <2>1 DEF LockInv
<1>5. ASSUME ToolkitCommandsDone PROVE LockInv'
  <2>1. pc = "run" /\ (pc' \in {"profile", "idle"} \/ (pc' = "record" /\ kit.mode = "install"))
    BY <1>5 DEF ToolkitCommandsDone, At, RestoreConfiguredAgents, Configure, Finish
  <2>2. QED
    BY <1>5, <2>1 DEF ToolkitCommandsDone, LockInv, records, bounds
<1>6. ASSUME RollbackNewToolkitPaths PROVE LockInv'
  BY <1>6 DEF RollbackNewToolkitPaths, Leave, LockInv, records, bounds
<1>7. ASSUME RecordToolkit PROVE LockInv'
  <2>1. kit \in Kits /\ kit' = [kit EXCEPT !.previous = toolkit]
    BY <1>7 DEF RecordToolkit, Plan, KitTyped
  <2>2. kit'.previous = toolkit
    BY <2>1 DEF Kits
  <2>3. pc' = "relock" /\ pc = "record" /\ kills' = kills /\ locked' = locked
    BY <1>7 DEF RecordToolkit, At, records, bounds
  <2>4. QED
    BY <2>2, <2>3 DEF LockInv
<1>8. ASSUME Relock PROVE LockInv'
  <2>1. pc = "relock" /\ pc' \in {"question", "profile", "idle"}
    BY <1>8 DEF Relock, At, RestoreConfiguredAgents, Configure, Finish
  <2>2. toolkit' = toolkit /\ kit' = kit /\ locked' = BuildToolkitLockEntries(toolkit, agents)
    BY <1>8 DEF Relock, kitVars
  <2>3. kills' = kills
    BY <1>8 DEF Relock, bounds
  <2>4. QED
    BY <2>1, <2>2, <2>3, BuiltPins DEF LockInv, Plan, KitTyped
<1>9. ASSUME RelockFails PROVE LockInv'
  <2>1. pc = "relock" /\ pc' = "idle" /\ toolkit' = kit.previous /\ kills' = kills /\ locked' = locked
    BY <1>9 DEF RelockFails, Leave, bounds, records
  <2>2. QED
    BY <2>1 DEF LockInv
<1>10. ASSUME RemoveToolkit PROVE LockInv'
  <2>1. locked' = locked /\ BeginKit
    BY <1>10 DEF RemoveToolkit
  <2>2. CASE toolkit = NoToolkit
    BY <1>10, <2>1, <2>2, KitBegins DEF RemoveToolkit, Leave, LockInv
  <2>3. CASE toolkit # NoToolkit
    <3>1. pc' = "relock" /\ kit' = [NoKit EXCEPT !.mode = "remove", !.previous = toolkit, !.entry = locked]
      BY <1>10, <2>3 DEF RemoveToolkit
    <3>a. kit'.previous = toolkit
      BY <3>1, NoKitType DEF NoKit
    <3>2. QED
      BY <2>1, <3>1, <3>a, KitBegins DEF LockInv
  <2>4. QED
    BY <2>2, <2>3
<1>11. ASSUME UninstallIntegration \/ DeleteToolkitPaths PROVE LockInv'
  <2>1. pc = "uninstall" /\ pc' \in {"uninstall", "profile", "idle"}
    BY <1>11 DEF UninstallIntegration, DeleteToolkitPaths, LeaveBehind, RestoreConfiguredAgents,
         Configure, Finish, control
  <2>2. QED
    BY <1>11, <2>1 DEF UninstallIntegration, DeleteToolkitPaths, LockInv, records, bounds
<1>12. ASSUME KillToolkit PROVE LockInv'
  BY <1>12 DEF KillToolkit, LockInv
<1>13. ASSUME NEW f, EditDisk(f) PROVE LockInv'
  BY <1>13 DEF EditDisk, LockInv, records, control
<1>14. QED
  BY <1>1, <1>2, <1>3, <1>4, <1>5, <1>6, <1>7, <1>8, <1>9, <1>10, <1>11, <1>12, <1>13,
     InstallKeepsLock, RestoreKeepsLock DEF ToolkitNext

-----------------------------------------------------------------------------
(* The guardrail.                                                          *)

LEMMA PlacePrefix ==
  ASSUME NEW p \in PathsOf(ToolkitPatterns), NEW f \in Paths, IsPrefix(p, f)
  PROVE  Len(p) \in Nat /\ f \in Seq(STRING) /\ p[1] = f[1]
  BY PlaceHeads, PrefixHead, PathAssumption

\* A path the guardrail allows to be deleted holds no file it protects.
LEMMA AllowedUnguarded ==
  ASSUME NEW places \in SUBSET PathsOf(ToolkitPatterns),
         NEW p \in AssertToolkitPathsAllowed(disk, places, policy).allowed,
         NEW f \in Paths, disk[f] # Gone, IsPrefix(p, f)
  PROVE  ~Guarded(f)
<1>1. p \in places /\ \A q \in ListPathsUnder(disk, p) : AssertPathAllowed(q, policy) = 0
  BY DEF AssertToolkitPathsAllowed
<1>2. p \in PathsOf(ToolkitPatterns)
  BY <1>1
<1>3. ASSUME NEW p2 \in PathsOf(ToolkitPatterns), IsPrefix(p2, f), Denied(f, p2)
      PROVE  FALSE
  <2>1. p2 = p
    BY <1>2, <1>3, PlacePrefix, PlacesDiffer
  <2>2. PICK n \in Len(p)..Len(f) : AssertPathAllowed(SubSeq(f, 1, n), policy) # 0
    BY <1>3, <2>1 DEF Denied
  <2>3. SubSeq(f, 1, n) \in Prefixes(f) /\ IsPrefix(p, SubSeq(f, 1, n))
    BY <1>2, PlacePrefix, PartPrefix
  <2>4. SubSeq(f, 1, n) \in ListPathsUnder(disk, p)
    BY <2>3 DEF ListPathsUnder
  <2>5. QED
    BY <1>1, <2>2, <2>4
<1>4. QED
  BY <1>3 DEF Guarded

LEMMA UnblockedUnguarded ==
  ASSUME NEW patterns \in SUBSET ToolkitPatterns, NEW f \in Under(patterns), disk[f] # Gone,
         AssertToolkitPathsAllowed(disk, SnapshotToolkitPaths(disk, patterns), policy).blocked = {}
  PROVE  ~Guarded(f)
<1> DEFINE places == SnapshotToolkitPaths(disk, patterns)
<1>1. PICK p \in PathsOf(patterns) : IsPrefix(p, f) /\ f \in Paths
  BY DEF Under
<1>2. p \in places /\ places \in SUBSET PathsOf(ToolkitPatterns)
  BY <1>1, SnapshotType DEF SnapshotToolkitPaths, Exists
<1>3. p \in AssertToolkitPathsAllowed(disk, places, policy).allowed
  BY <1>2 DEF AssertToolkitPathsAllowed
<1>4. QED
  BY <1>1, <1>2, <1>3, AllowedUnguarded

LEMMA UnderMore ==
  ASSUME NEW some, NEW more, some \subseteq more
  PROVE  Under(some) \subseteq Under(more) /\ Under(some) \subseteq Paths
  BY DEF Under, PathsOf

\* What a command writes is under the patterns of the installation.
LEMMA WritesCovered ==
  ASSUME NEW command, NEW patterns, Covered(command, patterns)
  PROVE  Writes(command) \subseteq Under(patterns) /\ Writes(command) \subseteq Paths
<1> DEFINE project == IF command.run = "initProject" THEN Speckit.projectPaths ELSE {}
           own == IF command.key = "" THEN {} ELSE {Speckit.integrationPaths[command.key]}
<1>1. project \subseteq patterns /\ own \subseteq patterns
  BY DEF Covered
<1>2. Writes(command) = (Under(project) \cup Under(own)) \ UserPaths
  BY DEF Writes
<1> HIDE DEF project, own
<1>3. QED
  BY <1>1, <1>2, UnderMore

GuardInv == edits \in Nat /\ Asked

LEMMA AsideKeepsAsked ==
  ASSUME Plan, GuardInv, Aside, UNCHANGED kitVars
  PROVE  GuardInv'
<1>1. edits' \in Nat
  BY DEF GuardInv, Aside
<1>2. pc' \notin KitSteps
  BY DEF Aside, KitSteps
<1>3. QED
  BY <1>1, <1>2 DEF GuardInv, Asked, KitSteps

LEMMA AskedSame ==
  ASSUME GuardInv, edits' = edits, pc \in {"proceed", "run"}, touched' = touched, policy' = policy,
         kit'.switching = kit.switching, kit'.patterns = kit.patterns, Expected' = Expected,
         \A f \in Under(kit.patterns) : disk'[f] \in {disk[f], Expected.version}
  PROVE  GuardInv'
  BY DEF GuardInv, Asked, Guarded, Denied, Under

LEMMA KitKeepsAsked ==
  ASSUME Plan, GuardInv, ToolkitNext
  PROVE  GuardInv'
<1>a. ASSUME pc' \notin {"proceed", "run"}, edits' \in {edits, edits + 1} PROVE GuardInv'
  BY <1>a DEF GuardInv, Asked
<1>1. ASSUME NEW v \in Versions, NEW g \in BOOLEAN, InstallToolkit(v, g) PROVE GuardInv'
  <2>1. BeginKit /\ edits' = edits
    BY <1>1 DEF InstallToolkit, BeginKit, Begin
  <2>2. /\ disk' = disk /\ policy' = policy /\ kit' \in Kits /\ kit'.patterns \in SUBSET ToolkitPatterns
        /\ pc' = "proceed" /\ kit'.switching =>
             AssertToolkitPathsAllowed(disk, SnapshotToolkitPaths(disk, kit'.patterns), policy).blocked = {}
        /\ pc' # "run"
    BY <1>1, <2>1, InstallPlans, KitBegins DEF Kits
  <2>3. CASE pc' = "proceed" /\ kit'.switching
    <3>1. \A f \in Under(kit'.patterns) : disk[f] # Gone => ~Guarded(f)
      BY <2>2, <2>3, UnblockedUnguarded
    <3>2. \A f \in Under(kit'.patterns) : disk'[f] # Gone => ~Guarded(f)'
      BY <2>2, <3>1 DEF Guarded, Denied
    <3>3. QED
      BY <2>1, <3>2 DEF GuardInv, Asked, Under
  <2>4. CASE ~(pc' = "proceed" /\ kit'.switching)
    BY <2>1, <2>2, <2>4 DEF GuardInv, Asked
  <2>5. QED
    BY <2>3, <2>4
<1>2. ASSUME NEW mode \in {"install", "ci"}, RestoreToolkits(mode) PROVE GuardInv'
  <2>1. BeginKit /\ edits' = edits
    BY <1>2 DEF RestoreToolkits, BeginKit, Begin
  <2>2. ~kit'.switching
    BY <1>2, RestorePlans
  <2>3. QED
    BY <2>1, <2>2 DEF GuardInv, Asked
<1>3. ASSUME NEW accepted \in BOOLEAN, Proceed(accepted) PROVE GuardInv'
  <2>1. /\ kit \in Kits /\ kit' = [kit EXCEPT !.before = SnapshotToolkitPaths(disk, kit.patterns)]
        /\ disk' = disk /\ edits' = edits /\ locked' = locked /\ pc = "proceed"
        /\ touched' = touched /\ policy' = policy
    BY <1>3 DEF Proceed, Plan, KitTyped, bounds, records, history
  <2>2. /\ kit'.switching = kit.switching /\ kit'.patterns = kit.patterns
        /\ kit'.mode = kit.mode /\ kit'.goal = kit.goal
    BY <2>1 DEF Kits
  <2>3. Expected' = Expected
    BY <2>1, <2>2 DEF Expected
  <2>4. QED
    BY <2>1, <2>2, <2>3, AskedSame
<1>4. ASSUME RunToolkitCommand PROVE GuardInv'
  <2>1. /\ kit \in Kits /\ kit' = [kit EXCEPT !.queue = Tail(@)]
        /\ edits' = edits /\ locked' = locked /\ pc = "run" /\ pc' = pc
        /\ touched' = touched /\ policy' = policy
    BY <1>4 DEF RunToolkitCommand, Plan, KitTyped, bounds, records, history, control
  <2>2. /\ kit'.switching = kit.switching /\ kit'.patterns = kit.patterns
        /\ kit'.mode = kit.mode /\ kit'.goal = kit.goal
    BY <2>1 DEF Kits
  <2>3. Expected' = Expected
    BY <2>1, <2>2 DEF Expected
  <2>4. \A f \in Paths : disk'[f] \in {disk[f], Expected.version}
    BY <1>4 DEF RunToolkitCommand, Written
  <2>5. QED
    BY <2>1, <2>2, <2>3, <2>4, AskedSame DEF Under
<1>5. ASSUME NEW f, EditDisk(f) PROVE GuardInv'
  BY <1>5 DEF EditDisk, GuardInv, Asked
<1>6. ASSUME RefuseToolkit \/ RemoveToolkit \/ RollbackNewToolkitPaths \/ RecordToolkit \/ Relock
               \/ RelockFails \/ DeleteToolkitPaths \/ KillToolkit
      PROVE  GuardInv'
  <2>1. edits' = edits
    BY <1>6 DEF RefuseToolkit, RemoveToolkit, BeginKit, Begin, RollbackNewToolkitPaths, RecordToolkit,
         Relock, RelockFails, DeleteToolkitPaths, KillToolkit, bounds
  <2>2. pc' \notin {"proceed", "run"}
    BY <1>6, RestoreEnds DEF RefuseToolkit, RemoveToolkit, RollbackNewToolkitPaths, RecordToolkit,
         Relock, RelockFails, DeleteToolkitPaths, KillToolkit, Leave, At, LeaveBehind
  <2>3. QED
    BY <2>1, <2>2, <1>a
<1>7. ASSUME NEW accepted, AnswerDeletion(accepted) \/ ToolkitCommandFails \/ ToolkitCommandsDone
               \/ UninstallIntegration
      PROVE  GuardInv'
  <2>1. edits' = edits
    BY <1>7 DEF AnswerDeletion, ToolkitCommandFails, ToolkitCommandsDone, UninstallIntegration, bounds
  <2>2. pc' \notin {"proceed", "run"}
    BY <1>7, RestoreEnds DEF AnswerDeletion, ToolkitCommandFails, ToolkitCommandsDone,
         UninstallIntegration, At, LeaveBehind, control
  <2>3. QED
    BY <2>1, <2>2, <1>a
<1>8. QED
  BY <1>1, <1>2, <1>3, <1>4, <1>5, <1>6, <1>7 DEF ToolkitNext

\* What a step does to the files the guardrail protects.
GuardStep ==
  \A f \in Paths : disk[f] # Gone /\ disk'[f] # disk[f] /\ edits' = edits /\ Guarded(f) =>
    pc = "run" /\ (~kit.switching \/ touched) /\ disk'[f] # Gone

LEMMA CommandGuarded ==
  ASSUME Plan, GuardInv, pc = "run", kit.queue # <<>>,
         NEW S \in SUBSET Writes(Head(kit.queue)), disk' = Written(S)
  PROVE  GuardStep
<1>1. kit.queue \in Seq(Commands)
  BY DEF Plan, KitTyped, Kits
<1>2. Covered(Head(kit.queue), kit.patterns)
  <2>1. Head(kit.queue) = kit.queue[1] /\ 1 \in DOMAIN kit.queue
    BY <1>1, HeadTail
  <2>2. QED
    BY <2>1 DEF Plan, Running
<1>3. S \subseteq Under(kit.patterns)
  BY <1>2, WritesCovered
<1>4. Expected.version # Gone
  BY ExpectedType, VersionAssumption DEF Gone
<1>5. \A f \in Paths : disk'[f] # disk[f] => f \in Under(kit.patterns) /\ disk'[f] = Expected.version
  BY <1>3 DEF Written
<1>6. QED
  BY <1>4, <1>5 DEF GuardStep, GuardInv, Asked

LEMMA DeletionGuarded ==
  ASSUME NEW places \in SUBSET PathsOf(ToolkitPatterns),
         disk' = Deleted(AssertToolkitPathsAllowed(disk, places, policy).allowed)
  PROVE  GuardStep
<1> DEFINE allowed == AssertToolkitPathsAllowed(disk, places, policy).allowed
<1>1. ASSUME NEW f \in Paths, disk[f] # Gone, disk'[f] # disk[f] PROVE ~Guarded(f)
  <2>1. PICK p \in allowed : IsPrefix(p, f)
    BY <1>1 DEF Deleted
  <2>2. QED
    BY <1>1, <2>1, AllowedUnguarded
<1>2. QED
  BY <1>1 DEF GuardStep

LEMMA EntryPathsType ==
  ASSUME Plan
  PROVE  EntryPaths \in SUBSET ToolkitPatterns
<1>1. kit.entry \in Entries \cup {NoToolkit}
  BY DEF Plan, KitTyped, Kits
<1>2. kit.entry # NoToolkit => kit.entry.paths \in SUBSET ToolkitPatterns
  BY <1>1 DEF Entries
<1>3. QED
  BY <1>2 DEF EntryPaths, ToolkitPatterns

LEMMA KitStepGuarded ==
  ASSUME Plan, GuardInv, ToolkitNext
  PROVE  GuardStep
<1>a. ASSUME disk' = disk PROVE GuardStep
  BY <1>a DEF GuardStep
<1>1. ASSUME NEW v, NEW g, NEW mode,
             InstallToolkit(v, g) \/ RefuseToolkit \/ RemoveToolkit \/ RestoreToolkits(mode)
      PROVE  GuardStep
  BY <1>a, <1>1 DEF InstallToolkit, RefuseToolkit, RemoveToolkit, RestoreToolkits, BeginKit
<1>2. ASSUME NEW accepted, Proceed(accepted) \/ AnswerDeletion(accepted) PROVE GuardStep
  BY <1>a, <1>2 DEF Proceed, AnswerDeletion
<1>3. ASSUME ToolkitCommandsDone \/ RecordToolkit \/ Relock \/ RelockFails PROVE GuardStep
  BY <1>a, <1>3 DEF ToolkitCommandsDone, RecordToolkit, Relock, RelockFails, kitVars
<1>4. ASSUME RunToolkitCommand \/ ToolkitCommandFails PROVE GuardStep
  <2>1. pc = "run" /\ kit.queue # <<>> /\ \E S \in SUBSET Writes(Head(kit.queue)) : disk' = Written(S)
    BY <1>4 DEF RunToolkitCommand, ToolkitCommandFails
  <2>2. QED
    BY <2>1, CommandGuarded
<1>5. ASSUME RollbackNewToolkitPaths PROVE GuardStep
  <2> DEFINE created == SnapshotToolkitPaths(disk, kit.patterns) \ kit.before
  <2>1. kit.patterns \in SUBSET ToolkitPatterns
    BY DEF Plan, KitTyped, Kits
  <2>2. created \in SUBSET PathsOf(ToolkitPatterns)
    BY <2>1, SnapshotType
  <2>3. disk' = disk \/ disk' = Deleted(AssertToolkitPathsAllowed(disk, created, policy).allowed)
    BY <1>5 DEF RollbackNewToolkitPaths
  <2> HIDE DEF created
  <2>4. QED
    BY <1>a, <2>2, <2>3, DeletionGuarded
<1>6. ASSUME UninstallIntegration PROVE GuardStep
  <2> DEFINE pattern == {Speckit.integrationPaths[Head(kit.queue).key]}
             verdict == AssertToolkitPathsAllowed(disk, SnapshotToolkitPaths(disk, pattern), policy)
  <2>1. kit.queue \in Seq(Commands) /\ kit.queue # <<>> /\ \A i \in DOMAIN kit.queue : kit.queue[i].key \in Keys
    BY <1>6 DEF UninstallIntegration, Plan, KitTyped, Kits, Proceeding
  <2>2. Head(kit.queue).key \in Keys
    BY <2>1, HeadTail
  <2>3. pattern \in SUBSET ToolkitPatterns
    BY <2>2 DEF ToolkitPatterns
  <2>4. \/ disk' = disk
        \/ /\ verdict.blocked = {}
           /\ \E S \in SUBSET Under(pattern) : disk' = [f \in Paths |-> IF f \in S THEN Gone ELSE disk[f]]
    BY <1>6 DEF UninstallIntegration
  <2>5. CASE disk' = disk
    BY <1>a, <2>5
  <2>6. CASE disk' # disk
    <3>1. PICK S \in SUBSET Under(pattern) : disk' = [f \in Paths |-> IF f \in S THEN Gone ELSE disk[f]]
      BY <2>4, <2>6
    <3>2. \A f \in S : disk[f] # Gone => ~Guarded(f)
      BY <2>3, <2>4, <2>6, UnblockedUnguarded
    <3>3. QED
      BY <3>1, <3>2 DEF GuardStep
  <2>7. QED
    BY <2>5, <2>6
<1>7. ASSUME DeleteToolkitPaths PROVE GuardStep
  <2> DEFINE remaining == SnapshotToolkitPaths(disk, EntryPaths) \ kit.blocked
  <2>1. remaining \in SUBSET PathsOf(ToolkitPatterns)
    BY EntryPathsType, SnapshotType
  <2>2. disk' = disk \/ disk' = Deleted(AssertToolkitPathsAllowed(disk, remaining, policy).allowed)
    BY <1>7 DEF DeleteToolkitPaths
  <2> HIDE DEF remaining
  <2>3. QED
    BY <1>a, <2>1, <2>2, DeletionGuarded
<1>8. ASSUME KillToolkit PROVE GuardStep
  <2>1. \/ disk' = disk
        \/ /\ pc = "run" /\ kit.queue # <<>>
           /\ \E S \in SUBSET Writes(Head(kit.queue)) : disk' = Written(S)
    BY <1>8 DEF KillToolkit
  <2>2. QED
    BY <1>a, <2>1, CommandGuarded
<1>9. ASSUME NEW f, EditDisk(f) PROVE GuardStep
  BY <1>9 DEF EditDisk, GuardStep, GuardInv
<1>10. QED
  BY <1>1, <1>2, <1>3, <1>4, <1>5, <1>6, <1>7, <1>8, <1>9 DEF ToolkitNext

-----------------------------------------------------------------------------
(* What a failed installation leaves.                                      *)

LEMMA UndoneSame ==
  ASSUME Undone, UNCHANGED <<toolkit, disk, policy, kit, found>>, locked' = locked
  PROVE  Undone'
<1>1. Unharmed' /\ (kit.mode = "install" => Unchanged' \/ (toolkit # NoToolkit /\ ProjectVersion(disk) = toolkit.version))
  BY DEF Undone, Unharmed, Unchanged
<1>2. InstallerRan' = InstallerRan
  BY DEF InstallerRan, Expected, ProjectVersion
<1>3. \A f \in Paths : KeptByGuardrail(f) => KeptByGuardrail(f)'
  BY DEF KeptByGuardrail, Guarded, Denied
<1>4. QED
  BY <1>1, <1>2, <1>3 DEF Undone

LEMMA AsideKeepsUndone ==
  ASSUME Plan, UndoneInv, Aside, UNCHANGED kitVars
  PROVE  UndoneInv'
<1>1. SUFFICES ASSUME kit.mode \in {"install", "restore"}, ~touched'
               PROVE  pc' \notin Steps /\ (~(pc' = "idle" /\ outcome' = "killed") => Undone)
  <2>1. kit' = kit /\ (Undone => Undone')
    BY UndoneSame DEF Aside, kitVars
  <2>2. pc' \notin Steps => pc' # "proceed" /\ pc' # "run" /\ pc' # "rollback" /\ pc' # "record" /\ pc' # "relock"
    BY DEF Steps
  <2>3. QED
    BY <1>1, <2>1, <2>2 DEF UndoneInv
<1>2. menu = "toolkits"
  BY <1>1 DEF Plan, InKitMenu
<1>3. ~touched
  BY <1>1, <1>2 DEF Aside
<1>4. pc' \notin Steps
  BY DEF Aside, KitSteps, Steps
<1>5. ASSUME ~(pc' = "idle" /\ outcome' = "killed") PROVE Undone
  <2>1. pc \notin Steps /\ ~(pc = "idle" /\ outcome = "killed")
    BY <1>2, <1>5 DEF Aside, KitSteps, Steps
  <2>2. QED
    BY <1>1, <1>3, <2>1 DEF UndoneInv
<1>6. QED
  BY <1>4, <1>5

\* A command that has only begun has changed nothing.
LEMMA NothingDone ==
  ASSUME Plan, BeginKit
  PROVE  /\ found'.toolkit = toolkit /\ found'.locked = locked /\ found'.disk = disk
         /\ Unharmed' /\ NewUnder' /\ disk' = disk
         /\ toolkit' = toolkit /\ locked' = locked => Undone' /\ Unchanged'
<1>1. found'.toolkit = toolkit /\ found'.locked = locked /\ found'.disk = disk /\ disk' = disk
  BY KitBegins
<1>2. QED
  BY <1>1 DEF Unharmed, NewUnder, Undone, Unchanged

LEMMA InstallKeepsUndone ==
  ASSUME Plan, NEW v \in Versions, NEW g \in BOOLEAN, InstallToolkit(v, g)
  PROVE  UndoneInv'
<1>1. BeginKit /\ toolkit' = toolkit /\ locked' = locked
  BY DEF InstallToolkit
<1>2. Unharmed' /\ Undone' /\ Unchanged' /\ disk' = disk /\ found'.disk = disk
  BY <1>1, NothingDone
<1>3. kit'.mode = "install" /\ pc' \in {"idle", "proceed", "record"}
  BY InstallPlans
<1>4. /\ pc' = "record" => ProjectVersion(disk) = kit'.goal.version /\ kit'.queue = <<>>
      /\ pc' = "proceed" => \/ ProjectVersion(disk) = kit'.goal.version
                            \/ \E i \in DOMAIN kit'.queue : kit'.queue[i].run = "initProject"
  BY InstallPlans
<1>5. pc' = "proceed" => Initializes'
  BY <1>2, <1>3, <1>4 DEF Initializes, Expected, ProjectVersion
<1>6. pc' = "record" => ProjectVersion(disk)' = kit'.goal.version /\ kit'.queue = <<>>
  BY <1>2, <1>4 DEF ProjectVersion
<1>7. QED
  BY <1>2, <1>3, <1>5, <1>6 DEF UndoneInv, Steps

LEMMA RestoreKeepsUndone ==
  ASSUME Plan, NEW mode \in {"install", "ci"}, RestoreToolkits(mode)
  PROVE  UndoneInv'
<1>1. CASE kit'.mode = "restore"
  <2>1. BeginKit
    BY DEF RestoreToolkits
  <2>2. Unharmed' /\ NewUnder' /\ disk' = disk /\ found'.disk = disk
    BY <2>1, NothingDone
  <2>3. pc' = "run" /\ kit'.before = SnapshotToolkitPaths(disk, kit'.patterns)
        /\ (\/ ProjectVersion(disk) = locked'.version
            \/ \E i \in DOMAIN kit'.queue : kit'.queue[i].run = "initProject")
    BY <1>1, RestorePlans
  <2>4. Initializes'
    BY <1>1, <2>2, <2>3 DEF Initializes, Expected, ProjectVersion
  <2>5. QED
    BY <1>1, <2>2, <2>3, <2>4 DEF UndoneInv, Steps
<1>2. CASE kit'.mode # "restore"
  <2>1. kit'.mode = "none"
    BY <1>2, RestorePlans
  <2>2. QED
    BY <2>1 DEF UndoneInv
<1>3. QED
  BY <1>1, <1>2

LEMMA ProceedKeepsUndone ==
  ASSUME Plan, UndoneInv, NEW accepted \in BOOLEAN, Proceed(accepted)
  PROVE  UndoneInv'
<1>1. /\ pc = "proceed" /\ disk' = disk /\ found' = found /\ toolkit' = toolkit /\ locked' = locked
      /\ touched' = touched /\ policy' = policy
      /\ kit \in Kits /\ kit' = [kit EXCEPT !.before = SnapshotToolkitPaths(disk, kit.patterns)]
  BY DEF Proceed, Plan, KitTyped, records, history
<1>2. /\ kit'.before = SnapshotToolkitPaths(disk, kit.patterns)
      /\ kit'.mode = kit.mode /\ kit'.goal = kit.goal /\ kit'.queue = kit.queue /\ kit'.patterns = kit.patterns
  BY <1>1 DEF Kits
<1>3. SUFFICES ASSUME kit.mode \in {"install", "restore"}, ~touched
               PROVE  UndoneInv'
  BY <1>1, <1>2 DEF UndoneInv
<1>4. disk = found.disk /\ Unchanged /\ Initializes
  BY <1>1, <1>3 DEF UndoneInv
<1>5. Initializes' /\ Unchanged'
  BY <1>1, <1>2, <1>4 DEF Initializes, Expected, ProjectVersion, Unchanged
<1>6. Unharmed' /\ NewUnder' /\ Undone'
  BY <1>1, <1>4, <1>5 DEF Unharmed, NewUnder, Undone
<1>7. pc' \in {"run", "idle"}
  BY DEF Proceed, At, Leave
<1>8. QED
  BY <1>1, <1>2, <1>4, <1>5, <1>6, <1>7 DEF UndoneInv, Steps

\* Initializing a project writes its version file.
LEMMA InitializesWrites ==
  ASSUME NEW command, command.run = "initProject"
  PROVE  Speckit.projectVersionFile \in Writes(command)
<1> DEFINE f == Speckit.projectVersionFile
           p == Append(<<>>, ".specify")
<1>1. f \in Paths \ UserPaths
  BY PathAssumption
<1>2. p \in PathsOf(Speckit.projectPaths)
  BY DEF PathsOf, Speckit, Pattern
<1>3. IsPrefix(p, f)
  <2>1. Len(p) = 1 /\ p[1] = ".specify"
    BY AppendOne
  <2>2. Len(f) = 2 /\ f[1] = ".specify"
    BY DEF Speckit
  <2> DEFINE w == ".specify"
             T == {w, "init-options.json"}
  <2>3. p \in Seq(T) /\ f \in Seq(T) /\ p[1] = w /\ f[1] = w
    BY <2>1, <2>2 DEF Speckit
  <2> HIDE DEF p, f, T, w
  <2>4. QED
    BY <2>1, <2>2, <2>3 DEF IsPrefix
<1> HIDE DEF f, p
<1>4. f \in Under(Speckit.projectPaths)
  BY <1>1, <1>2, <1>3 DEF Under
<1>5. QED
  BY <1>1, <1>4 DEF Writes, f

\* Running a command, to its end or not.
LEMMA CommandHarmless ==
  ASSUME Plan, UndoneInv, pc = "run", kit.queue # <<>>, ~touched,
         NEW S \in SUBSET Writes(Head(kit.queue)), disk' = Written(S), found' = found,
         kit'.patterns = kit.patterns
  PROVE  Unharmed' /\ NewUnder'
<1>1. kit.mode \in {"install", "restore"} /\ Unharmed /\ NewUnder
  BY DEF Plan, Running, UndoneInv
<1>2. kit.queue \in Seq(Commands)
  BY DEF Plan, KitTyped, Kits
<1>3. Covered(Head(kit.queue), kit.patterns)
  <2>1. Head(kit.queue) = kit.queue[1] /\ 1 \in DOMAIN kit.queue
    BY <1>2, HeadTail
  <2>2. QED
    BY <2>1 DEF Plan, Running
<1>4. S \subseteq Under(kit.patterns)
  BY <1>3, WritesCovered
<1>5. Expected.version # Gone
  BY ExpectedType, VersionAssumption DEF Gone
<1>6. \A f \in Paths : (f \in S /\ disk'[f] = Expected.version) \/ (f \notin S /\ disk'[f] = disk[f])
  BY DEF Written
<1>7. Unharmed'
  BY <1>1, <1>5, <1>6 DEF Unharmed
<1>8. NewUnder'
  BY <1>1, <1>4, <1>6 DEF NewUnder, Under
<1>9. QED
  BY <1>7, <1>8

LEMMA RunKeepsUndone ==
  ASSUME Plan, UndoneInv, RunToolkitCommand
  PROVE  UndoneInv'
<1> DEFINE command == Head(kit.queue)
<1>1. /\ pc = "run" /\ pc' = "run" /\ kit.queue # <<>> /\ disk' = Written(Writes(command))
      /\ found' = found /\ toolkit' = toolkit /\ locked' = locked /\ touched' = touched
      /\ kit \in Kits /\ kit' = [kit EXCEPT !.queue = Tail(@)]
  BY DEF RunToolkitCommand, Plan, KitTyped, records, history, control
<1>2. /\ kit'.queue = Tail(kit.queue) /\ kit'.mode = kit.mode /\ kit'.goal = kit.goal
      /\ kit'.patterns = kit.patterns /\ kit'.before = kit.before /\ kit.queue \in Seq(Commands)
  BY <1>1 DEF Kits
<1>3. SUFFICES ASSUME kit.mode \in {"install", "restore"}, ~touched
               PROVE  UndoneInv'
  BY <1>1, <1>2 DEF UndoneInv
<1>4. Unharmed' /\ NewUnder'
  BY <1>1, <1>2, <1>3, CommandHarmless
<1>5. kit.before = SnapshotToolkitPaths(found.disk, kit.patterns) /\ Initializes
      /\ (kit.mode = "install" => Unchanged)
  BY <1>1, <1>3 DEF UndoneInv
<1>6. Expected' = Expected
  BY <1>1, <1>2 DEF Expected
<1>7. Expected.version \in Versions
  BY <1>1, ExpectedType
<1>8. Initializes'
  <2> DEFINE f == Speckit.projectVersionFile
  <2>1. f \in Paths
    BY PathAssumption
  <2>2. disk'[f] = IF f \in Writes(command) THEN Expected.version ELSE disk[f]
    BY <1>1, <2>1 DEF Written
  <2>3. CASE command.run = "initProject"
    <3>1. disk'[f] = Expected.version
      BY <2>2, <2>3, InitializesWrites
    <3>2. QED
      BY <1>6, <1>7, <3>1 DEF Initializes, ProjectVersion
  <2>4. CASE ProjectVersion(disk) = Expected.version
    <3>1. ProjectVersion(disk)' = Expected.version
      BY <1>7, <2>2, <2>4 DEF ProjectVersion
    <3>2. QED
      BY <1>6, <3>1 DEF Initializes
  <2>5. CASE command.run # "initProject" /\ ProjectVersion(disk) # Expected.version
    <3>1. PICK i \in DOMAIN kit.queue : kit.queue[i].run = "initProject"
      BY <1>5, <2>5 DEF Initializes
    <3>2. i # 1
      BY <1>1, <1>2, <2>5, <3>1, HeadTail
    <3>3. i - 1 \in DOMAIN Tail(kit.queue) /\ Tail(kit.queue)[i - 1] = kit.queue[i]
      <4>1. i \in 2..Len(kit.queue)
        BY <1>2, <3>1, <3>2
      <4>2. Tail(kit.queue) \in Seq(Commands) /\ Len(Tail(kit.queue)) = Len(kit.queue) - 1
        BY <1>1, <1>2
      <4>3. i - 1 \in DOMAIN Tail(kit.queue)
        BY <4>1, <4>2
      <4>4. QED
        BY <1>1, <1>2, <4>1, <4>3, HeadTail
    <3>4. QED
      BY <1>2, <3>1, <3>3 DEF Initializes
  <2>6. QED
    BY <2>3, <2>4, <2>5
<1>9. kit.mode = "install" => Unchanged'
  BY <1>1, <1>5 DEF Unchanged
<1>10. QED
  BY <1>1, <1>2, <1>4, <1>5, <1>8, <1>9 DEF UndoneInv, Steps

LEMMA FailsKeepsUndone ==
  ASSUME Plan, UndoneInv, ToolkitCommandFails
  PROVE  UndoneInv'
<1>1. /\ pc = "run" /\ pc' = "rollback" /\ kit.queue # <<>>
      /\ found' = found /\ toolkit' = toolkit /\ locked' = locked /\ touched' = touched /\ kit' = kit
  BY DEF ToolkitCommandFails, At, records, history
<1>2. PICK S \in SUBSET Writes(Head(kit.queue)) : disk' = Written(S)
  BY DEF ToolkitCommandFails
<1>3. SUFFICES ASSUME kit.mode \in {"install", "restore"}, ~touched
               PROVE  UndoneInv'
  BY <1>1 DEF UndoneInv
<1>4. Unharmed' /\ NewUnder'
  BY <1>1, <1>2, <1>3, CommandHarmless
<1>5. kit.before = SnapshotToolkitPaths(found.disk, kit.patterns) /\ (kit.mode = "install" => Unchanged)
  BY <1>1, <1>3 DEF UndoneInv
<1>6. kit.mode = "install" => Unchanged'
  BY <1>1, <1>5 DEF Unchanged
<1>7. QED
  BY <1>1, <1>4, <1>5, <1>6 DEF UndoneInv, Steps

LEMMA DoneKeepsUndone ==
  ASSUME Plan, UndoneInv, ToolkitCommandsDone
  PROVE  UndoneInv'
<1>1. /\ pc = "run" /\ kit.queue = <<>> /\ disk' = disk /\ kit' = kit /\ found' = found
      /\ toolkit' = toolkit /\ locked' = locked /\ touched' = touched
  BY DEF ToolkitCommandsDone, records, history
<1>2. /\ kit.mode = "install" => pc' = "record"
      /\ kit.mode # "install" => pc' \in {"idle", "profile"}
  BY RestoreEnds DEF ToolkitCommandsDone, At
<1>3. SUFFICES ASSUME kit.mode \in {"install", "restore"}, ~touched
               PROVE  UndoneInv'
  BY <1>1 DEF UndoneInv
<1>4. Unharmed /\ Initializes /\ (kit.mode = "install" => Unchanged)
  BY <1>1, <1>3 DEF UndoneInv
<1>5. ProjectVersion(disk) = Expected.version
  BY <1>1, <1>4 DEF Initializes
<1>6. Unharmed' /\ ProjectVersion(disk)' = Expected'.version /\ (kit.mode = "install" => Unchanged')
  BY <1>1, <1>4, <1>5 DEF Unharmed, ProjectVersion, Expected, Unchanged
<1>7. Undone'
  BY <1>1, <1>6 DEF Undone, InstallerRan
<1>8. kit.mode = "install" => ProjectVersion(disk)' = kit'.goal.version
  BY <1>1, <1>6 DEF Expected
<1>9. QED
  BY <1>1, <1>2, <1>3, <1>6, <1>7, <1>8 DEF UndoneInv, Steps

LEMMA PrefixTransitive ==
  ASSUME NEW p \in PathsOf(ToolkitPatterns), NEW g \in Paths, NEW l \in 0..Len(g),
         IsPrefix(p, SubSeq(g, 1, l))
  PROVE  Len(p) <= l /\ IsPrefix(p, g)
<1> DEFINE q == SubSeq(g, 1, l)
<1>1. g \in Seq(STRING) /\ Len(p) \in Nat
  BY PathAssumption, PlaceHeads
<1>2. Len(q) = l /\ q \in Seq(STRING) /\ \A i \in 1..l : q[i] = g[i]
  BY <1>1
<1>3. Len(p) <= l /\ SubSeq(p, 1, Len(p)) = SubSeq(q, 1, Len(p))
  BY <1>2 DEF IsPrefix
<1>4. SubSeq(q, 1, Len(p)) = SubSeq(g, 1, Len(p))
  BY <1>1, <1>2, <1>3
<1>5. QED
  BY <1>1, <1>3, <1>4 DEF IsPrefix

\* The guardrail's answer is no only for a malformed policy, or a file it protects.
LEMMA RefusalGuards ==
  ASSUME NEW p \in PathsOf(ToolkitPatterns), NEW q \in ListPathsUnder(disk, p),
         AssertPathAllowed(q, policy) # 0
  PROVE  \E g \in Paths : disk[g] # Gone /\ Guarded(g) /\ IsPrefix(p, g)
<1>1. PICK g \in Paths : disk[g] # Gone /\ q \in Prefixes(g) /\ IsPrefix(p, q)
  BY DEF ListPathsUnder
<1>2. PICK l \in 0..Len(g) : q = SubSeq(g, 1, l)
  BY <1>1 DEF Prefixes
<1>3. Len(p) <= l /\ IsPrefix(p, g)
  BY <1>1, <1>2, PrefixTransitive
<1>4. Len(p) \in Nat /\ Len(g) \in Nat
  BY PlaceHeads, PathAssumption
<1>5. l \in Len(p)..Len(g)
  BY <1>2, <1>3, <1>4
<1>6. Denied(g, p)
  BY <1>2, <1>5 DEF Denied
<1>7. QED
  BY <1>1, <1>3, <1>6 DEF Guarded

LEMMA SameHead ==
  ASSUME NEW p \in PathsOf(ToolkitPatterns), NEW f \in Paths, NEW g \in Paths, IsPrefix(p, f), IsPrefix(p, g)
  PROVE  Head(f) = Head(g)
<1>1. f \in Seq(STRING) /\ f # <<>> /\ p[1] = f[1]
  BY PathAssumption, PrefixHead
<1>2. g \in Seq(STRING) /\ g # <<>> /\ p[1] = g[1]
  BY PathAssumption, PrefixHead
<1>3. Head(f) = f[1] /\ Head(g) = g[1]
  BY <1>1, <1>2, HeadTail, Zenon
<1>4. QED
  BY <1>1, <1>2, <1>3

LEMMA RollbackKeepsUndone ==
  ASSUME Plan, UndoneInv, RollbackNewToolkitPaths
  PROVE  UndoneInv'
<1> DEFINE created == SnapshotToolkitPaths(disk, kit.patterns) \ kit.before
           verdict == AssertToolkitPathsAllowed(disk, created, policy)
<1>1. /\ pc = "rollback" /\ pc' = "idle" /\ outcome' = "failed" /\ kit' = kit /\ found' = found
      /\ toolkit' = toolkit /\ locked' = locked /\ touched' = touched /\ policy' = policy
      /\ disk' = IF verdict.throws THEN disk ELSE Deleted(verdict.allowed)
  BY DEF RollbackNewToolkitPaths, Leave, records, history
<1>2. SUFFICES ASSUME kit.mode \in {"install", "restore"}, ~touched
               PROVE  Undone'
  BY <1>1 DEF UndoneInv, Steps
<1>3. Unharmed /\ NewUnder /\ kit.before = SnapshotToolkitPaths(found.disk, kit.patterns)
      /\ (kit.mode = "install" => Unchanged)
  BY <1>1, <1>2 DEF UndoneInv
<1>4. kit.patterns \in SUBSET ToolkitPatterns
  BY DEF Plan, KitTyped, Kits
<1>5. created \in SUBSET PathsOf(kit.patterns) /\ PathsOf(kit.patterns) \subseteq PathsOf(ToolkitPatterns)
  BY <1>4, SnapshotType
<1>a. verdict.allowed \subseteq created
      /\ \A p \in created \ verdict.allowed :
           \E q \in ListPathsUnder(disk, p) : AssertPathAllowed(q, policy) # 0
  BY DEF AssertToolkitPathsAllowed
<1>b. verdict.throws => \E p \in created : \E q \in ListPathsUnder(disk, p) : AssertPathAllowed(q, policy) = 2
  BY DEF AssertToolkitPathsAllowed
<1>6. ASSUME NEW f \in Paths, found.disk[f] # Gone
      PROVE  disk'[f] # Gone
  <2>1. disk[f] # Gone
    BY <1>3, <1>6 DEF Unharmed
  <2>2. ASSUME NEW p \in verdict.allowed, IsPrefix(p, f) PROVE FALSE
    <3>1. p \in created /\ p \in PathsOf(kit.patterns)
      BY <1>5, <1>a, <2>2
    <3>2. p \in SnapshotToolkitPaths(found.disk, kit.patterns)
      BY <1>6, <2>2, <3>1 DEF SnapshotToolkitPaths, Exists
    <3>3. QED
      BY <1>3, <3>1, <3>2
  <2>3. QED
    BY <1>1, <2>1, <2>2 DEF Deleted
<1>7. ASSUME NEW f \in Paths, disk'[f] # Gone, found.disk[f] = Gone
      PROVE  KeptByGuardrail(f)' \/ \E p \in kit.before : IsPrefix(p, f)
  <2>1. disk[f] # Gone
    BY <1>1, <1>7 DEF Deleted
  <2>2. PICK p \in PathsOf(kit.patterns) : IsPrefix(p, f)
    BY <1>3, <1>7, <2>1 DEF NewUnder, Under
  <2>3. p \in SnapshotToolkitPaths(disk, kit.patterns) /\ p \in PathsOf(ToolkitPatterns)
    BY <1>5, <2>1, <2>2 DEF SnapshotToolkitPaths, Exists
  <2>4. CASE p \in kit.before
    BY <2>2, <2>4
  <2>5. CASE p \notin kit.before /\ verdict.throws
    <3>1. policy.state = "malformed"
      BY <1>b, <2>5 DEF AssertPathAllowed
    <3>2. \A q : AssertPathAllowed(q, policy) = 2
      BY <3>1 DEF AssertPathAllowed, EvaluateGuardrail
    <3>3. Len(p) \in Nat /\ Len(f) \in Nat /\ Len(p) <= Len(f)
      BY <2>2, <2>3, PrefixHead, PlaceHeads, PathAssumption
    <3>4. Len(f) \in Len(p)..Len(f)
      BY <3>3
    <3>5. Guarded(f)
      BY <2>2, <2>3, <3>2, <3>4 DEF Guarded, Denied
    <3>6. Guarded(f)'
      BY <1>1, <3>5 DEF Guarded, Denied
    <3>7. QED
      BY <1>7, <3>6 DEF KeptByGuardrail
  <2>6. CASE p \notin kit.before /\ ~verdict.throws
    <3>1. disk' = Deleted(verdict.allowed)
      BY <1>1, <2>6
    <3>2. p \in created /\ p \notin verdict.allowed
      BY <1>7, <2>2, <2>3, <2>6, <3>1 DEF Deleted
    <3>3. PICK q \in ListPathsUnder(disk, p) : AssertPathAllowed(q, policy) # 0
      BY <1>a, <3>2
    <3>4. PICK g \in Paths : disk[g] # Gone /\ Guarded(g) /\ IsPrefix(p, g)
      BY <2>3, <3>3, RefusalGuards
    <3>5. disk'[g] # Gone
      <4>1. created \in SUBSET PathsOf(ToolkitPatterns)
        BY <1>5
      <4>2. \A p2 \in verdict.allowed : ~IsPrefix(p2, g)
        BY <3>4, <4>1, AllowedUnguarded
      <4>3. QED
        BY <3>1, <3>4, <4>2 DEF Deleted
    <3>6. Head(f) = Head(g)
      BY <2>2, <2>3, <3>4, SameHead
    <3>7. Guarded(g)'
      BY <1>1, <3>4 DEF Guarded, Denied
    <3>8. QED
      BY <3>5, <3>6, <3>7 DEF KeptByGuardrail
  <2>7. QED
    BY <2>4, <2>5, <2>6
<1>8. Unharmed'
  BY <1>1, <1>6 DEF Unharmed
<1>9. kit.mode = "install" => Unchanged'
  BY <1>1, <1>3 DEF Unchanged
<1>10. QED
  BY <1>1, <1>7, <1>8, <1>9 DEF Undone

LEMMA RecordsKeepUndone ==
  ASSUME Plan, UndoneInv, RecordToolkit \/ Relock \/ RelockFails
  PROVE  UndoneInv'
<1>1. CASE RecordToolkit
  <2>1. /\ pc = "record" /\ pc' = "relock" /\ toolkit' = kit.goal /\ disk' = disk /\ found' = found
        /\ locked' = locked /\ touched' = touched
        /\ kit \in Kits /\ kit' = [kit EXCEPT !.previous = toolkit]
    BY <1>1 DEF RecordToolkit, At, Plan, KitTyped, records, history
  <2>2. /\ kit'.mode = kit.mode /\ kit'.goal = kit.goal /\ kit'.previous = toolkit
        /\ kit'.queue = kit.queue
    BY <2>1 DEF Kits
  <2>3. SUFFICES ASSUME kit.mode \in {"install", "restore"}, ~touched
                 PROVE  UndoneInv'
    BY <2>1, <2>2 DEF UndoneInv
  <2>4. Unharmed /\ Unchanged /\ ProjectVersion(disk) = kit.goal.version /\ kit.queue = <<>>
    BY <2>1, <2>3 DEF UndoneInv
  <2>5. Unharmed' /\ ProjectVersion(disk)' = kit'.goal.version /\ kit'.previous = found'.toolkit
        /\ locked' = found'.locked /\ kit'.queue = <<>>
    BY <2>1, <2>2, <2>4 DEF Unharmed, Unchanged, ProjectVersion
  <2>6. QED
    BY <2>1, <2>2, <2>5 DEF UndoneInv, Steps
<1>2. CASE Relock \/ RelockFails
  <2>1. /\ pc = "relock" /\ disk' = disk /\ found' = found /\ kit' = kit /\ touched' = touched
        /\ (toolkit' = toolkit \/ (toolkit' = kit.previous /\ locked' = locked))
    BY <1>2 DEF Relock, RelockFails, kitVars, records, history
  <2>2. pc' \in {"question", "idle", "profile"}
    BY <1>2, RestoreEnds DEF Relock, RelockFails, At, Leave
  <2>3. SUFFICES ASSUME kit.mode \in {"install", "restore"}, ~touched
                 PROVE  Undone'
    BY <2>1, <2>2 DEF UndoneInv, Steps
  <2>4. /\ Unharmed /\ ProjectVersion(disk) = kit.goal.version /\ toolkit = kit.goal
        /\ kit.previous = found.toolkit /\ locked = found.locked /\ kit.queue = <<>>
    BY <2>1, <2>3 DEF UndoneInv
  <2>5. kit.mode = "install" /\ kit.goal # NoToolkit
    BY <2>1, <2>3 DEF Plan, Proceeding
  <2>6. Unharmed' /\ InstallerRan'
    BY <2>1, <2>4, <2>5 DEF Unharmed, InstallerRan, ProjectVersion, Expected
  <2>7. Unchanged' \/ (toolkit' # NoToolkit /\ ProjectVersion(disk)' = toolkit'.version)
    BY <2>1, <2>4, <2>5 DEF Unchanged, ProjectVersion
  <2>8. QED
    BY <2>6, <2>7 DEF Undone
<1>3. QED
  BY <1>1, <1>2

LEMMA KitKeepsUndone ==
  ASSUME Plan, UndoneInv, ToolkitNext
  PROVE  UndoneInv'
<1>a. ASSUME kit'.mode \notin {"install", "restore"} \/ touched' PROVE UndoneInv'
  BY <1>a DEF UndoneInv
<1>1. ASSUME RefuseToolkit PROVE UndoneInv'
  <2>1. BeginKit /\ toolkit' = toolkit /\ locked' = locked /\ pc' = "idle"
    BY <1>1 DEF RefuseToolkit, Leave
  <2>2. Undone'
    BY <2>1, NothingDone
  <2>3. QED
    BY <2>1, <2>2 DEF UndoneInv, Steps
<1>2. ASSUME RemoveToolkit PROVE UndoneInv'
  <2>1. kit'.mode \in {"none", "remove"}
    <3>1. CASE toolkit = NoToolkit
      BY <1>2, <3>1, NoKitType DEF RemoveToolkit
    <3>2. CASE toolkit # NoToolkit
      <4>1. kit' = [NoKit EXCEPT !.mode = "remove", !.previous = toolkit, !.entry = locked]
        BY <1>2, <3>2 DEF RemoveToolkit
      <4>2. kit'.mode = "remove"
        BY <4>1 DEF NoKit
      <4>3. QED
        BY <4>2
    <3>3. QED
      BY <3>1, <3>2
  <2>2. QED
    BY <1>a, <2>1
<1>3. ASSUME NEW accepted \in BOOLEAN, AnswerDeletion(accepted) \/ UninstallIntegration \/ DeleteToolkitPaths
      PROVE  UndoneInv'
  <2>1. kit \in Kits /\ kit.mode = "remove"
    BY <1>3 DEF AnswerDeletion, UninstallIntegration, DeleteToolkitPaths, Plan, KitTyped, Proceeding
  <2>2. kit'.mode = kit.mode
    <3>1. \/ kit' = kit
          \/ \E q : kit' = [kit EXCEPT !.queue = q]
          \/ \E q, b : kit' = [kit EXCEPT !.queue = q, !.blocked = b]
      <4>1. ASSUME AnswerDeletion(accepted) PROVE kit' = kit \/ \E q : kit' = [kit EXCEPT !.queue = q]
        BY <4>1 DEF AnswerDeletion
      <4>2. ASSUME DeleteToolkitPaths PROVE kit' = kit
        BY <4>2 DEF DeleteToolkitPaths
      <4>3. ASSUME UninstallIntegration
            PROVE  kit' = kit \/ \E q, b : kit' = [kit EXCEPT !.queue = q, !.blocked = b]
        BY <4>3 DEF UninstallIntegration
      <4>4. QED
        BY <1>3, <4>1, <4>2, <4>3, Zenon
    <3>2. QED
      BY <2>1, <3>1 DEF Kits
  <2>3. QED
    BY <1>a, <2>1, <2>2
<1>4. ASSUME KillToolkit PROVE UndoneInv'
  <2>1. kit'.mode = "none"
    BY <1>4, NoKitType DEF KillToolkit
  <2>2. QED
    BY <1>a, <2>1
<1>5. ASSUME NEW f, EditDisk(f) PROVE UndoneInv'
  BY <1>a, <1>5 DEF EditDisk
<1>6. QED
  BY <1>1, <1>2, <1>3, <1>4, <1>5, InstallKeepsUndone, RestoreKeepsUndone, ProceedKeepsUndone,
     RunKeepsUndone, FailsKeepsUndone, DoneKeepsUndone, RollbackKeepsUndone, RecordsKeepUndone
  DEF ToolkitNext

-----------------------------------------------------------------------------
(* The whole workspace.                                                    *)

IInv == Plan /\ LockInv /\ GuardInv /\ UndoneInv

LEMMA InvInit ==
  ASSUME Init
  PROVE  IInv
<1>1. PICK scene \in Scenes : AgentInit(scene) /\ ToolkitInit(scene)
  BY DEF Init
<1>2. kit.mode = "none" /\ ~kit.switching /\ edits = 0
  BY <1>1, NoKitType DEF AgentInit, ToolkitInit
<1>3. GuardInv /\ UndoneInv
  BY <1>2 DEF GuardInv, Asked, UndoneInv
<1>4. QED
  BY <1>3, PlanInit, LockInvInit DEF IInv

LEMMA InvNext ==
  ASSUME IInv, [Next]_vars
  PROVE  IInv'
<1>1. ASSUME UNCHANGED vars PROVE IInv'
  <2>1. Plan' /\ LockInv'
    BY <1>1 DEF IInv, vars, agentVars, kitVars, records, control, bounds, Plan, KitTyped, Running, InKitMenu,
         Proceeding, LockInv
  <2>2. GuardInv'
    BY <1>1 DEF IInv, vars, agentVars, kitVars, records, control, bounds, history, GuardInv, Asked, Guarded,
         Denied, Expected
  <2>3. UndoneInv'
    <3>1. Undone => Undone'
      BY <1>1, UndoneSame DEF vars, agentVars, kitVars, records
    <3>2. QED
      BY <1>1, <3>1 DEF IInv, vars, agentVars, kitVars, records, control, history, UndoneInv, Unharmed,
           NewUnder, Unchanged, Initializes, Expected
  <2>4. QED
    BY <2>1, <2>2, <2>3 DEF IInv
<1>2. ASSUME Aside, UNCHANGED kitVars PROVE IInv'
  BY <1>2, AsideKeepsPlan, AsideKeepsLock, AsideKeepsAsked, AsideKeepsUndone DEF IInv
<1>3. agents \in Seq(AgentNames)
  BY DEF IInv, Plan, KitTyped
<1>4. ASSUME AgentNext, UNCHANGED kitVars PROVE IInv'
  BY <1>2, <1>3, <1>4, AgentAside
<1>5. ASSUME EnvNext, UNCHANGED kitVars PROVE IInv'
  BY <1>2, <1>3, <1>5, EnvAside
<1>6. ASSUME ToolkitNext PROVE IInv'
  BY <1>6, KitKeepsPlan, KitKeepsLock, KitKeepsAsked, KitKeepsUndone DEF IInv
<1>7. QED
  BY <1>1, <1>4, <1>5, <1>6 DEF Next, Rest

\* The plan of the command under way is sound, the lock pins what the manifest
\* says or said before, the guardrail was asked, and what an installation that
\* is under way would have to undo is known, in every workspace.
THEOREM Inductive == Spec => []IInv
<1>1. Init => IInv
  BY InvInit
<1>2. IInv /\ [Next]_vars => IInv'
  BY InvNext
<1>3. QED
  BY <1>1, <1>2, PTL DEF Spec

(***************************************************************************)
(* Between commands the lock pins the toolkit the manifest declares,       *)
(* whatever step of whatever command failed.                               *)
(***************************************************************************)
THEOREM LockFollows == Spec => []LockFollowsManifest
<1>1. IInv => LockFollowsManifest
  BY DEF IInv, LockInv, Pins, LockFollowsManifest
<1>2. QED
  BY <1>1, Inductive, PTL

(***************************************************************************)
(* An installation or a restore that fails deletes nothing that was there. *)
(* If the installer failed, it leaves nothing new but what the guardrail   *)
(* or a directory that was there before keeps; if the installer had ended, *)
(* what it installed stays, recorded or, when buildLock fails, not.        *)
(***************************************************************************)
THEOREM FailuresUndone == Spec => []FailedInstallUndone
<1>1. IInv => FailedInstallUndone
  <2>1. SUFFICES ASSUME IInv, pc = "idle", outcome = "failed", kit.mode \in {"install", "restore"}, ~touched
                 PROVE  Undone
    BY DEF FailedInstallUndone, Undone, Unharmed, Unchanged
  <2>2. QED
    BY <2>1 DEF IInv, UndoneInv, Steps
<1>2. QED
  BY <1>1, Inductive, PTL

(***************************************************************************)
(* No step deletes a file that the guardrail protects, and a switch of     *)
(* versions does not change one.                                           *)
(***************************************************************************)
THEOREM ProtectedKept == Spec => GuardedKept
<1>1. IInv /\ [Next]_vars => [GuardStep]_allVars
  <2>1. ASSUME ToolkitNext, IInv PROVE GuardStep
    BY <2>1, KitStepGuarded DEF IInv
  <2>2. ASSUME UNCHANGED disk PROVE GuardStep
    BY <2>2 DEF GuardStep
  <2>3. [Next]_vars => ToolkitNext \/ UNCHANGED disk
    BY DEF Next, Rest, vars, kitVars
  <2>4. QED
    BY <2>1, <2>2, <2>3
<1>2. [][GuardStep]_allVars => GuardedKept
  BY DEF GuardedKept, GuardStep
<1>3. QED
  BY <1>1, <1>2, Inductive, PTL DEF Spec
=============================================================================
