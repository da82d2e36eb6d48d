------------------------------ MODULE Targets ------------------------------
(***************************************************************************)
(* Target resolution, of embarch-firmware-build: which projects a config   *)
(* may hold (config.rs), what a Zephyr repository offers to build          *)
(* (zephyr.rs), and which build a call gets (resolve.rs).  Nothing is      *)
(* cached: the repository may change between two calls.                    *)
(*                                                                         *)
(* A name is a sequence of words and of the separators "-" and "_", so     *)
(* that what joining names loses is lost here too.  A file is what its     *)
(* name says.  Paths, messages and the order of a listing are left out.    *)
(***************************************************************************)
EXTENDS Naturals, Sequences, FiniteSets, SequencesExt

CONSTANTS
  None,
  Words,       \* what names are made of, with the separators
  BoardFiles,  \* the board.yml files that may land, with the files beside them
  AppTrees,    \* what may lie under app/ and apps/: [present dirs -> [apps -> snippets]]
  Configs,     \* the lists of [[projects]] that a config file may hold
  Selections,  \* what a call may select
  MaxPlans     \* bound: how many calls are remembered

VARIABLES
  boards,   \* the board.yml files of the repository
  apps,     \* its app directories
  config,   \* the projects of the config, as Config::validate accepted them
  plans     \* the builds that calls have resolved to

vars == <<boards, apps, config, plans>>

\* A board file: id; name; socs <<[name, variants]>>, variants <<[name, cluster]>>;
\* revisions, default; files {[soc, cluster, variant, rev]}, a dts when rev = None.

-----------------------------------------------------------------------------
(* zephyr.rs: scan *)

Default    == <<"default">>
NoSnippets == <<"none">>  \* the literal of a call, and a board without revisions

\* A variant called "default" is no variant.
Named(soc) ==
  {[id   |-> <<"named", i>>,
    name |-> IF soc.variants[i].name = Default THEN None ELSE soc.variants[i].name,
    cluster |-> soc.variants[i].cluster] : i \in DOMAIN soc.variants}

\* Each cluster of the named variants may be built without a variant, too.
Bare(soc) ==
  {[id |-> <<"bare", c>>, name |-> None, cluster |-> c] :
     c \in {v.cluster : v \in Named(soc)} \ ({None} \cup {v.cluster : v \in {w \in Named(soc) : w.name = None}})}

Candidates(soc) ==
  IF soc.variants = <<>> THEN {[id |-> <<"only", None>>, name |-> None, cluster |-> None]}
  ELSE Named(soc) \cup Bare(soc)

HasFile(b, soc, c, rev) ==
  [soc |-> soc, cluster |-> c.cluster, variant |-> c.name, rev |-> rev] \in b.files
SingleSoc(b) == Len(b.socs) = 1

\* dts_status: the short name is for a board of one SoC, and not beside the long one.
DtsFound(b, soc, c) ==
  IF SingleSoc(b) THEN HasFile(b, soc.name, c, None) # HasFile(b, None, c, None)
  ELSE HasFile(b, soc.name, c, None) /\ ~ HasFile(b, None, c, None)

CandidateRevisions(b) ==
  LET declared == b.revisions \cup ({b.default} \ {None})
  IN  IF declared = {} THEN {None} ELSE declared

\* Only the default revision of no variant stands on the base files.
RevisionIsBacked(b, soc, c, rev) ==
  \/ rev = None
  \/ c.name = None /\ rev = b.default
  \/ HasFile(b, soc.name, c, rev)
  \/ SingleSoc(b) /\ HasFile(b, None, c, rev)

Survivors(b, soc) == {c \in Candidates(soc) : DtsFound(b, soc, c)}

ScanApps(trees) == UNION {DOMAIN trees[d] : d \in DOMAIN trees}

Rows(bs, trees) ==
  UNION {UNION {{[id |-> <<b.id, i, c.id>>,
                  target |-> [board |-> b.name, soc |-> b.socs[i].name, cluster |-> c.cluster,
                              variant |-> c.name, revision |-> rev, app |-> app]] :
                 c \in Survivors(b, b.socs[i]),
                 rev \in CandidateRevisions(b),
                 app \in ScanApps(trees)} : i \in DOMAIN b.socs} : b \in bs}

\* The rows of the scan: what a board.yml declares and its files back.
Backed(bs, trees) ==
  {r \in Rows(bs, trees) :
     \E b \in bs : \E i \in DOMAIN b.socs : \E c \in Survivors(b, b.socs[i]) :
       /\ r.id = <<b.id, i, c.id>>
       /\ RevisionIsBacked(b, b.socs[i], c, r.target.revision)}

ScanError(bs, trees) ==
  CASE bs = {}           -> "NoBoardYml"
    [] bs # {} /\ DOMAIN trees = {} -> "NoAppDir"
    [] bs # {} /\ DOMAIN trees # {} /\
       (\A b \in bs : \A i \in DOMAIN b.socs : Survivors(b, b.socs[i]) = {}) -> "AllBoardsDropped"
    [] OTHER -> None

\* apps/ wins over app/ when both have the app.
AppDir(trees, app) ==
  IF "apps" \in DOMAIN trees /\ app \in DOMAIN trees["apps"] THEN "apps" ELSE "app"

AvailableSnippets(trees, app) == trees[AppDir(trees, app)][app]

-----------------------------------------------------------------------------
(* zephyr.rs: select, the name of the build directory *)

Axes == {"board", "variant", "revision", "app"}

Agrees(target, wanted) == \A a \in Axes : wanted[a] # None => target[a] = wanted[a]

Matching(rows, wanted) == {r \in rows : Agrees(r.target, wanted)}

\* Exactly one match proceeds; two rows of one target are two matches.
Select(rows, wanted) ==
  LET n == Cardinality(Matching(rows, wanted)) IN
  CASE n = 0 -> [error |-> "NoMatch"]
    [] n = 1 -> [target |-> (CHOOSE r \in Matching(rows, wanted) : TRUE).target]
    [] n > 1 -> [error |-> "Ambiguous"]

\* One name or more, joined.
JoinedBy(sep, names) ==
  LET upTo[i \in 1..Len(names)] ==
        IF i = 1 THEN names[1] ELSE upTo[i - 1] \o <<sep>> \o names[i]
  IN  upTo[Len(names)]

Or(name, otherwise) == IF name = None THEN otherwise ELSE name

Segments(t) == <<t.board, Or(t.variant, Default), Or(t.revision, NoSnippets), t.app>>

\* Not the code: the snippets as a set, in any order.
SortedDirName(t, snippets, args) ==
  [name |-> JoinedBy("-", Segments(t) \o
      (IF snippets = <<>> THEN <<>>
       ELSE <<JoinedBy("_", SetToSeq(ToSet(snippets)))>>)),
   args |-> args]

\* The hash of the arguments takes their lengths in, and is taken to be one to one.
BuildDirName(t, snippets, args) ==
  [name |-> JoinedBy("-", Segments(t) \o
      (IF snippets = <<>> THEN <<>> ELSE <<JoinedBy("_", snippets)>>)),
   args |-> args]

-----------------------------------------------------------------------------
(* resolve.rs *)

\* Not the code: a call that names an axis gives up the whole default.
EffectiveOrDefault(default, sel) ==
  IF \E a \in Axes : sel[a] # None THEN [a \in Axes |-> sel[a]] ELSE default

\* effective_selection: the default fills in what the call leaves out, axis by axis.
Effective(default, sel) == [a \in Axes |-> Or(sel[a], default[a])]

Deduped(names) ==
  LET upTo[i \in 0..Len(names)] ==
        IF i = 0 THEN <<>>
        ELSE IF names[i] \in ToSet(upTo[i - 1]) THEN upTo[i - 1] ELSE Append(upTo[i - 1], names[i])
  IN  upTo[Len(names)]

\* resolve_snippets: omitted, the default; [none], none at all; otherwise the list.
ResolveSnippets(call, default, available) ==
  LET literal == NoSnippets \in ToSet(call)
      wanted  == IF literal THEN <<>> ELSE Deduped(IF call = <<>> THEN default ELSE call)
  IN  CASE literal /\ ToSet(call) # {NoSnippets} -> [error |-> "Mixed"]
        [] literal /\ ToSet(call) = {NoSnippets} /\ NoSnippets \in available -> [error |-> "Collision"]
        [] ~ literal /\ ~ ToSet(wanted) \subseteq available -> [error |-> "UnknownSnippet"]
        [] OTHER -> [snippets |-> wanted]

Failed(r) == "error" \in DOMAIN r

ResolveZephyr(bs, trees, p, sel) ==
  LET picked    == Select(Backed(bs, trees), Effective(p.default_target, sel))
      t         == picked.target
      snippets  == ResolveSnippets(sel.snippets, p.default_snippets, AvailableSnippets(trees, t.app))
      args      == IF sel.extra_args = <<>> THEN p.default_extra_args ELSE sel.extra_args
      dir       == BuildDirName(t, snippets.snippets, args)
  IN  IF ScanError(bs, trees) # None THEN [error |-> ScanError(bs, trees)]
      ELSE IF Failed(picked) THEN picked
      ELSE IF Failed(snippets) THEN snippets
      ELSE [project |-> p.name, target |-> t, lock_key |-> <<p.name, dir>>,
            dir |-> <<p.build_dir_root, dir>>,
            command |-> [board |-> <<t.board, t.revision, t.soc, t.cluster, t.variant>>,
                         snippets |-> snippets.snippets, args |-> args,
                         app |-> <<AppDir(trees, t.app), t.app>>]]

FieldsGiven(sel) ==
  {a \in Axes : sel[a] # None} \cup {l \in {"snippets", "extra_args"} : sel[l] # <<>>}

\* A static project runs its own command, and honours no selection.
Resolve(bs, trees, p, sel) ==
  IF p.discovery = "static"
  THEN IF FieldsGiven(sel) # {} THEN [error |-> "Unhonourable"]
       ELSE [project |-> p.name, target |-> None, lock_key |-> <<p.name>>,
             dir |-> <<p.build_dir>>, command |-> p.build_command]
  ELSE ResolveZephyr(bs, trees, p, sel)

\* Not the code: a row's directory without the configured arguments.
ListedWithoutArgs(bs, trees, p) ==
  {[target |-> r.target,
    dir |-> LET s == ResolveSnippets(<<>>, p.default_snippets, AvailableSnippets(trees, r.target.app))
            IN  IF Failed(s) THEN None ELSE BuildDirName(r.target, s.snippets, <<>>)]
   : r \in Backed(bs, trees)}

\* list_targets: each row with the directory that a bare build of it writes to.
Listed(bs, trees, p) ==
  {[target |-> r.target,
    dir |-> LET s == ResolveSnippets(<<>>, p.default_snippets, AvailableSnippets(trees, r.target.app))
            IN  IF Failed(s) THEN None ELSE BuildDirName(r.target, s.snippets, p.default_extra_args)]
   : r \in Backed(bs, trees)}

-----------------------------------------------------------------------------
(* config.rs: validate *)

NoTarget == [a \in Axes |-> None]

\* Not the code: what only a west project honours loads in silence.
StaticIsLax(p) == p.build_command # None /\ p.chip # None /\ p.artifact_path # None

StaticIsValid(p) ==
  /\ p.build_command # None /\ p.chip # None /\ p.artifact_path # None
  /\ ~ p.has_default_target /\ p.default_snippets = <<>> /\ p.default_extra_args = <<>>
  /\ p.west_binary = None /\ p.build_dir_root = None

WestIsValid(p) ==
  /\ p.west_binary # None /\ p.build_dir_root # None
  /\ p.build_command = None /\ p.chip = None /\ p.artifact_path = None
  /\ p.has_default_target => p.default_target # NoTarget
  /\ NoSnippets \notin ToSet(p.default_snippets)

\* "retired" stands for [[projects.targets]] and soc_chip_overrides, which both kinds
\* refuse, "malformed" for a bootload or snapshot table that cannot be honoured.
ConfigIsValid(ps) ==
  /\ \A i, j \in DOMAIN ps : ps[i].name = ps[j].name => i = j
  /\ \A i \in DOMAIN ps :
       /\ ps[i].faults \cap {"retired", "malformed"} = {}
       /\ IF ps[i].discovery = "static" THEN StaticIsValid(ps[i]) ELSE WestIsValid(ps[i])

-----------------------------------------------------------------------------

\* Files and directories are finite; a project has every field, a default_target that
\* its table leaves out pins no axis.
ASSUME TargetsAssumption ==
  /\ \A b \in BoardFiles :
       /\ IsFiniteSet(b.revisions) /\ IsFiniteSet(DOMAIN b.socs)
       /\ \A i \in DOMAIN b.socs : IsFiniteSet(DOMAIN b.socs[i].variants)
  /\ \A trees \in AppTrees :
       IsFiniteSet(DOMAIN trees) /\ \A d \in DOMAIN trees : IsFiniteSet(DOMAIN trees[d])
  /\ \A ps \in Configs : \A i \in DOMAIN ps :
       /\ {"name", "discovery", "build_dir_root", "default_target", "default_snippets",
           "default_extra_args"} \subseteq DOMAIN ps[i]
       /\ ~ ps[i].has_default_target => ps[i].default_target = NoTarget

\* Names are sequences of words, and None is none of them.
ASSUME NamesAssumption ==
  /\ {"-", "_", "default", "none"} \subseteq Words
  /\ None \notin Seq(Words)
  /\ \A trees \in AppTrees : \A r \in Rows(BoardFiles, trees) :
       /\ r.target # None
       /\ {r.target.board, r.target.app} \subseteq Seq(Words)
       /\ {r.target.variant, r.target.revision} \subseteq Seq(Words) \cup {None}
  /\ \A ps \in Configs : \A i \in DOMAIN ps : ps[i].default_snippets \in Seq(Seq(Words))
  /\ \A sel \in Selections : sel.snippets \in Seq(Seq(Words))

Init ==
  /\ boards = {}
  /\ apps \in AppTrees
  /\ config \in {ps \in Configs : ConfigIsValid(ps)}
  /\ plans = {}

\* Somebody's commit: a board.yml lands with its files, or replaces one.
Land(b) ==
  /\ boards' = {c \in boards : c.id # b.id} \cup {b}
  /\ boards' # boards
  /\ UNCHANGED <<apps, config, plans>>

MoveApps ==
  /\ apps' \in AppTrees \ {apps}
  /\ UNCHANGED <<boards, config, plans>>

\* A call resolves its build; a refused one does nothing.
Call(p, sel) ==
  LET r == Resolve(boards, apps, p, sel) IN
  /\ ~ Failed(r) /\ Cardinality(plans) < MaxPlans
  /\ plans' = plans \cup {r}
  /\ UNCHANGED <<boards, apps, config>>

Next ==
  \/ \E b \in BoardFiles : Land(b)
  \/ MoveApps
  \/ \E i \in DOMAIN config, sel \in Selections : Call(config[i], sel)

Spec == Init /\ [][Next]_vars

-----------------------------------------------------------------------------
(* Properties *)

OneBuild(p, q) ==
  /\ p.lock_key = q.lock_key
  /\ p.target = None <=> q.target = None
  /\ p.target # None =>
       /\ \A a \in Axes : p.target[a] = q.target[a]
       /\ p.command.snippets = q.command.snippets /\ p.command.args = q.command.args

\* Names that hold none of the separators they are joined by, and no revision that is
\* called what the name says of a board without revisions.
Joinable(p) ==
  p.target # None =>
    /\ p.target.revision # NoSnippets
    /\ \A a \in Axes : p.target[a] = None \/ "-" \notin ToSet(p.target[a])
    /\ \A n \in ToSet(p.command.snippets) : "_" \notin ToSet(n)

\* Where a project builds.
RootOf(p) == IF p.discovery = "static" THEN <<p.build_dir>> ELSE <<p.build_dir_root>>

RootsAreOwn ==
  \A i, j \in DOMAIN config :
    (config[i].discovery = "static" <=> config[j].discovery = "static")
      /\ RootOf(config[i]) = RootOf(config[j])
    => i = j

\* Two builds that write into one directory (build_dir_name) are one combination of
\* board, variant, revision, app, snippets in their order and arguments, under one lock,
\* whatever landed in the repository in between, if no name holds a separator and no
\* two projects of the config build in one place, which the config may say.
NoSharedBuildDir ==
  RootsAreOwn => \A p, q \in plans : Joinable(p) /\ Joinable(q) /\ p.dir = q.dir => OneBuild(p, q)

\* The doc's promise: they "must not share a build directory", whatever their names.
DirPerCombination ==
  \A p, q \in plans : p.dir = q.dir => OneBuild(p, q)

\* A call gets every field it names and every default for what it leaves out, in the
\* order given, and nothing is left to choose: one row agrees with it, or it is
\* refused.  A project that cannot honour a field refuses it, in a call and in a config.
SelectionIsHonoured ==
  \A i \in DOMAIN config, sel \in Selections :
    LET p      == config[i]
        r      == Resolve(boards, apps, p, sel)
        wanted == IF ToSet(sel.snippets) = {NoSnippets} THEN <<>>
                  ELSE Deduped(IF sel.snippets = <<>> THEN p.default_snippets ELSE sel.snippets)
        args   == IF sel.extra_args = <<>> THEN p.default_extra_args ELSE sel.extra_args
        pinned == {a \in Axes : Or(sel[a], p.default_target[a]) # None}
        Fits(target) == \A a \in pinned : target[a] = Or(sel[a], p.default_target[a])
    IN  Failed(r) \/
        IF p.discovery = "static"
        THEN /\ r.command # None /\ pinned = {} /\ args = <<>>
             /\ sel.snippets = <<>> /\ p.default_snippets = <<>>
        ELSE /\ Fits(r.target)
             /\ \A row \in Backed(boards, apps) : Fits(row.target) => row.target = r.target
             /\ r.command.snippets = wanted /\ r.command.args = args

\* With a board pinned, the repo growing is a non-event (config.rs): a call that
\* resolves today resolves to the same build after another board lands.
GrowthIsANonEvent ==
  \A i \in DOMAIN config, sel \in Selections, b \in BoardFiles :
    LET p == config[i]
        r == Resolve(boards, apps, p, sel)
    IN  p.default_target["board"] # None /\ sel["board"] \in {None, p.default_target["board"]}
        /\ b.name # p.default_target["board"] /\ (\A c \in boards : c.id # b.id) /\ ~ Failed(r)
          => Resolve(boards \cup {b}, apps, p, sel) = r

\* list_targets tells the directory of a build that names just a row's target, and
\* tells none just when that build is refused for the default snippets.
ListTellsTheBareBuild ==
  \A i \in DOMAIN config :
    LET p == config[i] IN
    p.discovery # "static" =>
      \A row \in Listed(boards, apps, p) :
        LET t == row.target
            r == Resolve(boards, apps, [p EXCEPT !.default_target = NoTarget],
                   [board |-> t.board, variant |-> t.variant, revision |-> t.revision,
                    app |-> t.app, snippets |-> <<>>, extra_args |-> <<>>])
        IN  IF Failed(r) THEN row.dir = None \/ r.error = "Ambiguous"
            ELSE r.target = t => r.dir = <<p.build_dir_root, row.dir>>
=============================================================================
