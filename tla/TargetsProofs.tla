---------------------------- MODULE TargetsProofs ----------------------------
(***************************************************************************)
(* Proofs about Targets, for any board files, app trees, configs and calls *)
(* that are finite: what a call resolves to, what list_targets tells, and  *)
(* what a board that lands leaves alone, and which build owns a directory. *)
(*                                                                         *)
(* Each property is of a resolution, which reads the repository as it is:  *)
(* TInv says what that may be, after any commits.  The work is in the      *)
(* lemmas about the operators: a scan is finite, so one match is one row   *)
(* (SelectsTheOne); what a project resolves to is the build of that row    *)
(* (ResolvedBuild); a board of another name and id adds no row that a      *)
(* pinned call could match, nor backs one (GrowthAddsNoRow).               *)
(*                                                                         *)
(* That a directory tells its build is about the name it has: a joined     *)
(* name with no separator inside its parts is cut at its first or its last *)
(* separator in one way only (FirstSplits, LastSplits), so each part can   *)
(* be read off it (JoinedOnce, NameTells).  PlansAreBuilt says that every  *)
(* plan that was handed out has such a name.                               *)
(***************************************************************************)
EXTENDS Targets, FiniteSetTheorems, SequenceTheorems, WellFoundedInduction, TLAPS

-----------------------------------------------------------------------------
(* A scan lists finitely many rows *)

LEMMA ImageIsFinite ==
  ASSUME NEW f, IsFiniteSet(DOMAIN f) PROVE IsFiniteSet({f[x] : x \in DOMAIN f})
<1> DEFINE T == {f[x] : x \in DOMAIN f}
           g == [x \in DOMAIN f |-> f[x]]
<1>1. g \in [DOMAIN f -> T] /\ \A y \in T : \E x \in DOMAIN f : g[x] = y
  OBVIOUS
<1>2. g \in Surjection(DOMAIN f, T)
  BY <1>1 DEF Surjection
<1>3. QED
  BY <1>2, FS_Surjection

BoardIsFinite(b) ==
  /\ IsFiniteSet(b.revisions) /\ IsFiniteSet(DOMAIN b.socs)
  /\ \A i \in DOMAIN b.socs : IsFiniteSet(DOMAIN b.socs[i].variants)

TreesAreFinite(trees) ==
  IsFiniteSet(DOMAIN trees) /\ \A d \in DOMAIN trees : IsFiniteSet(DOMAIN trees[d])

LEMMA CandidatesAreFinite ==
  ASSUME NEW soc, IsFiniteSet(DOMAIN soc.variants) PROVE IsFiniteSet(Candidates(soc))
<1>1. IsFiniteSet(Named(soc))
  <2> DEFINE f == [i \in DOMAIN soc.variants |->
                     [id |-> <<"named", i>>,
                      name |-> IF soc.variants[i].name = Default THEN None ELSE soc.variants[i].name,
                      cluster |-> soc.variants[i].cluster]]
  <2>1. Named(soc) = {f[x] : x \in DOMAIN f} /\ DOMAIN f = DOMAIN soc.variants
    BY DEF Named
  <2> HIDE DEF f
  <2>2. QED
    BY <2>1, ImageIsFinite
<1>2. IsFiniteSet(Bare(soc))
  <2> DEFINE C == {v.cluster : v \in Named(soc)}
             D == C \ ({None} \cup {v.cluster : v \in {w \in Named(soc) : w.name = None}})
             g == [v \in Named(soc) |-> v.cluster]
             f == [c \in D |-> [id |-> <<"bare", c>>, name |-> None, cluster |-> c]]
  <2>1. C = {g[x] : x \in DOMAIN g} /\ DOMAIN g = Named(soc)
    OBVIOUS
  <2> HIDE DEF g
  <2>2. IsFiniteSet(C)
    BY <1>1, <2>1, ImageIsFinite
  <2>3. IsFiniteSet(D)
    BY <2>2, FS_Subset
  <2>4. Bare(soc) = {f[x] : x \in DOMAIN f} /\ DOMAIN f = D
    BY DEF Bare
  <2> HIDE DEF f, D
  <2>5. QED
    BY <2>3, <2>4, ImageIsFinite
<1>3. IsFiniteSet({[id |-> <<"only", None>>, name |-> None, cluster |-> None]})
  BY FS_Singleton
<1>4. QED
  BY <1>1, <1>2, <1>3, FS_Union DEF Candidates

LEMMA AppsAreFinite ==
  ASSUME NEW trees, TreesAreFinite(trees) PROVE IsFiniteSet(ScanApps(trees))
<1> DEFINE f == [d \in DOMAIN trees |-> DOMAIN trees[d]]
           S == {f[x] : x \in DOMAIN f}
<1>1. DOMAIN f = DOMAIN trees /\ \A x \in DOMAIN f : IsFiniteSet(f[x])
  BY DEF TreesAreFinite
<1>2. ScanApps(trees) = UNION S
  BY DEF ScanApps
<1> HIDE DEF f
<1>3. IsFiniteSet(S) /\ \A T \in S : IsFiniteSet(T)
  BY <1>1, ImageIsFinite DEF TreesAreFinite
<1>4. QED
  BY <1>2, <1>3, FS_UNION

LEMMA RevisionsAreFinite ==
  ASSUME NEW b, IsFiniteSet(b.revisions) PROVE IsFiniteSet(CandidateRevisions(b))
<1>1. IsFiniteSet({None}) /\ IsFiniteSet({b.default}) /\ IsFiniteSet({b.default} \ {None})
  BY FS_Singleton, FS_Difference
<1>2. IsFiniteSet(b.revisions \cup ({b.default} \ {None}))
  BY <1>1, FS_Union
<1>3. QED
  BY <1>1, <1>2 DEF CandidateRevisions

LEMMA BackedIsFinite ==
  ASSUME NEW bs, IsFiniteSet(bs), \A b \in bs : BoardIsFinite(b),
         NEW trees, TreesAreFinite(trees)
  PROVE  IsFiniteSet(Backed(bs, trees))
<1> DEFINE row(b, i, c, rev, app) ==
             [id |-> <<b.id, i, c.id>>,
              target |-> [board |-> b.name, soc |-> b.socs[i].name, cluster |-> c.cluster,
                          variant |-> c.name, revision |-> rev, app |-> app]]
           OfSoc(b, i) == {row(b, i, c, rev, app) : c \in Survivors(b, b.socs[i]),
                             rev \in CandidateRevisions(b), app \in ScanApps(trees)}
           OfBoard(b) == UNION {OfSoc(b, i) : i \in DOMAIN b.socs}
<1>1. ASSUME NEW b \in bs, NEW i \in DOMAIN b.socs PROVE IsFiniteSet(OfSoc(b, i))
  <2> DEFINE P == Survivors(b, b.socs[i]) \X (CandidateRevisions(b) \X ScanApps(trees))
             f == [x \in P |-> row(b, i, x[1], x[2][1], x[2][2])]
  <2>1. IsFiniteSet(Survivors(b, b.socs[i]))
    <3>1. Survivors(b, b.socs[i]) \in SUBSET Candidates(b.socs[i])
      BY DEF Survivors
    <3>2. QED
      BY <3>1, CandidatesAreFinite, FS_Subset DEF BoardIsFinite
  <2>2. IsFiniteSet(CandidateRevisions(b)) /\ IsFiniteSet(ScanApps(trees))
    BY RevisionsAreFinite, AppsAreFinite DEF BoardIsFinite
  <2>3. IsFiniteSet(P)
    BY <2>1, <2>2, FS_Product
  <2>4. OfSoc(b, i) = {f[x] : x \in DOMAIN f} /\ DOMAIN f = P
    <3>1. ASSUME NEW c \in Survivors(b, b.socs[i]), NEW rev \in CandidateRevisions(b),
                 NEW app \in ScanApps(trees)
          PROVE  <<c, <<rev, app>>>> \in P /\ f[<<c, <<rev, app>>>>] = row(b, i, c, rev, app)
      OBVIOUS
    <3>2. ASSUME NEW x \in P
          PROVE  f[x] \in OfSoc(b, i)
      OBVIOUS
    <3> HIDE DEF f, P, row
    <3>3. DOMAIN f = P
      BY DEF f
    <3>4. ASSUME NEW y \in OfSoc(b, i) PROVE \E x \in P : y = f[x]
      <4>1. PICK c \in Survivors(b, b.socs[i]), rev \in CandidateRevisions(b),
                 app \in ScanApps(trees) : y = row(b, i, c, rev, app)
        OBVIOUS
      <4>2. <<c, <<rev, app>>>> \in P /\ y = f[<<c, <<rev, app>>>>]
        BY <3>1, <4>1
      <4>3. QED
        BY <4>2
    <3> HIDE DEF OfSoc
    <3>5. QED
      BY <3>2, <3>3, <3>4
  <2> HIDE DEF f, P, OfSoc
  <2>5. QED
    BY <2>3, <2>4, ImageIsFinite
<1>2. ASSUME NEW b \in bs PROVE IsFiniteSet(OfBoard(b))
  <2> DEFINE f == [i \in DOMAIN b.socs |-> OfSoc(b, i)]
             S == {f[x] : x \in DOMAIN f}
  <2> HIDE DEF OfSoc
  <2>1. OfBoard(b) = UNION S /\ DOMAIN f = DOMAIN b.socs /\ \A x \in DOMAIN f : IsFiniteSet(f[x])
    BY <1>1
  <2> HIDE DEF f, OfBoard
  <2>2. IsFiniteSet(S) /\ \A T \in S : IsFiniteSet(T)
    BY <2>1, ImageIsFinite DEF BoardIsFinite
  <2>3. QED
    BY <2>1, <2>2, FS_UNION
<1>3. IsFiniteSet(Rows(bs, trees))
  <2> DEFINE f == [b \in bs |-> OfBoard(b)]
             S == {f[x] : x \in DOMAIN f}
  <2>1. Rows(bs, trees) = UNION {OfBoard(b) : b \in bs}
    BY DEF Rows
  <2> HIDE DEF OfBoard
  <2>2. Rows(bs, trees) = UNION S /\ DOMAIN f = bs /\ \A x \in DOMAIN f : IsFiniteSet(f[x])
    BY <1>2, <2>1
  <2> HIDE DEF f
  <2>3. IsFiniteSet(S) /\ \A T \in S : IsFiniteSet(T)
    BY <2>2, ImageIsFinite
  <2>4. QED
    BY <2>2, <2>3, FS_UNION
<1>4. Backed(bs, trees) \in SUBSET Rows(bs, trees)
  BY DEF Backed
<1>5. QED
  BY <1>3, <1>4, FS_Subset

-----------------------------------------------------------------------------
(* What a scan lists, and what a call selects *)

LEMMA RowsOfBoards ==
  ASSUME NEW bs, NEW trees, NEW r
  PROVE  r \in Rows(bs, trees) <=>
           \E b \in bs : \E i \in DOMAIN b.socs :
             \E c \in Survivors(b, b.socs[i]), rev \in CandidateRevisions(b), app \in ScanApps(trees) :
               r = [id |-> <<b.id, i, c.id>>,
                    target |-> [board |-> b.name, soc |-> b.socs[i].name, cluster |-> c.cluster,
                                variant |-> c.name, revision |-> rev, app |-> app]]
<1> DEFINE row(b, i, c, rev, app) ==
             [id |-> <<b.id, i, c.id>>,
              target |-> [board |-> b.name, soc |-> b.socs[i].name, cluster |-> c.cluster,
                          variant |-> c.name, revision |-> rev, app |-> app]]
           OfSoc(b, i) == {row(b, i, c, rev, app) : c \in Survivors(b, b.socs[i]),
                             rev \in CandidateRevisions(b), app \in ScanApps(trees)}
<1>1. Rows(bs, trees) = UNION {UNION {OfSoc(b, i) : i \in DOMAIN b.socs} : b \in bs}
  BY DEF Rows
<1>2. \A b, i : r \in OfSoc(b, i) <=>
        \E c \in Survivors(b, b.socs[i]), rev \in CandidateRevisions(b), app \in ScanApps(trees) :
          r = row(b, i, c, rev, app)
  OBVIOUS
<1> HIDE DEF OfSoc, row
<1>3. r \in Rows(bs, trees) <=> \E b \in bs : \E i \in DOMAIN b.socs : r \in OfSoc(b, i)
  BY <1>1
<1>4. QED
  BY <1>2, <1>3 DEF row

\* A board of another name and id adds no row of this name, and backs none.
LEMMA GrowthAddsNoRow ==
  ASSUME NEW bs, NEW trees, NEW b, \A c \in bs : c.id # b.id,
         NEW r, r.target.board # b.name
  PROVE  r \in Backed(bs \cup {b}, trees) <=> r \in Backed(bs, trees)
<1>1. ASSUME NEW cs, r \in Rows(cs, trees)
      PROVE  \E c \in cs : r.target.board = c.name /\ r.id[1] = c.id
  BY <1>1, RowsOfBoards
<1>2. r \in Rows(bs, trees) => r \in Rows(bs \cup {b}, trees)
  BY RowsOfBoards
<1>3. r \in Rows(bs \cup {b}, trees) => r \in Rows(bs, trees)
  <2> SUFFICES ASSUME r \in Rows(bs \cup {b}, trees) PROVE r \in Rows(bs, trees)
    OBVIOUS
  <2>1. PICK c \in bs \cup {b} : \E i \in DOMAIN c.socs :
          \E v \in Survivors(c, c.socs[i]), rev \in CandidateRevisions(c), app \in ScanApps(trees) :
            r = [id |-> <<c.id, i, v.id>>,
                 target |-> [board |-> c.name, soc |-> c.socs[i].name, cluster |-> v.cluster,
                             variant |-> v.name, revision |-> rev, app |-> app]]
    BY RowsOfBoards
  <2>2. c \in bs
    BY <2>1
  <2>3. QED
    BY <2>1, <2>2, RowsOfBoards
<1>4. r \in Rows(bs, trees) => r.id[1] # b.id
  BY <1>1
<1>5. ASSUME NEW cs
      PROVE  r \in Backed(cs, trees) <=>
               /\ r \in Rows(cs, trees)
               /\ \E c \in cs : \E i \in DOMAIN c.socs : \E v \in Survivors(c, c.socs[i]) :
                    /\ r.id = <<c.id, i, v.id>>
                    /\ RevisionIsBacked(c, c.socs[i], v, r.target.revision)
  BY DEF Backed
<1>6. QED
  <2>1. ASSUME r \in Rows(bs, trees), NEW c \in bs \cup {b}, NEW i, NEW v, r.id = <<c.id, i, v.id>>
        PROVE  c \in bs
    BY <1>4, <2>1
  <2>2. r \in Backed(bs, trees) => r \in Backed(bs \cup {b}, trees)
    BY <1>2, <1>5
  <2>3. r \in Backed(bs \cup {b}, trees) => r \in Backed(bs, trees)
    BY <1>3, <1>5, <2>1
  <2>4. QED
    BY <2>2, <2>3

\* What is selected is the one row that agrees, if there is just one.
LEMMA SelectsTheOne ==
  ASSUME NEW rows, IsFiniteSet(rows), NEW wanted
  PROVE  \/ Select(rows, wanted) = [error |-> "NoMatch"] /\ Matching(rows, wanted) = {}
         \/ Select(rows, wanted) = [error |-> "Ambiguous"]
         \/ \E r \in rows : /\ Matching(rows, wanted) = {r}
                            /\ Select(rows, wanted) = [target |-> r.target]
<1> DEFINE M == Matching(rows, wanted)
<1>1. IsFiniteSet(M) /\ Cardinality(M) \in Nat /\ M \subseteq rows
  <2>1. M \in SUBSET rows
    BY DEF Matching
  <2>2. QED
    BY <2>1, FS_Subset, FS_CardinalityType
<1>2. CASE Cardinality(M) = 0
  <2>1. M = {}
    BY <1>1, <1>2, FS_EmptySet
  <2>2. QED
    BY <1>2, <2>1 DEF Select
<1>3. CASE Cardinality(M) = 1
  <2>1. PICK r : M = {r}
    BY <1>1, <1>3, FS_Singleton
  <2> DEFINE one == CHOOSE x \in M : TRUE
  <2>2. one = r
    BY <2>1
  <2>3. Select(rows, wanted) = [target |-> one.target]
    BY <1>3 DEF Select
  <2>4. QED
    BY <1>1, <2>1, <2>2, <2>3
<1>4. CASE Cardinality(M) > 1
  BY <1>4 DEF Select
<1>5. QED
  BY <1>1, <1>2, <1>3, <1>4

LEMMA BackedIsOfRows == ASSUME NEW bs, NEW trees PROVE Backed(bs, trees) \subseteq Rows(bs, trees)
  BY DEF Backed

\* A scan that lists a row has found boards, apps and a board that is not dropped.
LEMMA RowsMeanNoScanError ==
  ASSUME NEW bs, NEW trees, NEW r \in Backed(bs, trees) PROVE ScanError(bs, trees) = None
<1>1. PICK b \in bs :
        ScanApps(trees) # {} /\ \E i \in DOMAIN b.socs : Survivors(b, b.socs[i]) # {}
  BY BackedIsOfRows, RowsOfBoards
<1>2. bs # {} /\ DOMAIN trees # {}
  BY <1>1 DEF ScanApps
<1>3. QED
  BY <1>1, <1>2 DEF ScanError

LEMMA SnippetsAsAsked ==
  ASSUME NEW call, NEW default, NEW available, ~ Failed(ResolveSnippets(call, default, available))
  PROVE  ResolveSnippets(call, default, available) =
           [snippets |-> IF ToSet(call) = {NoSnippets} THEN <<>>
                         ELSE Deduped(IF call = <<>> THEN default ELSE call)]
<1> DEFINE literal == NoSnippets \in ToSet(call)
           wanted == IF literal THEN <<>> ELSE Deduped(IF call = <<>> THEN default ELSE call)
<1>1. ResolveSnippets(call, default, available) =
        CASE literal /\ ToSet(call) # {NoSnippets} -> [error |-> "Mixed"]
          [] literal /\ ToSet(call) = {NoSnippets} /\ NoSnippets \in available -> [error |-> "Collision"]
          [] ~ literal /\ ~ ToSet(wanted) \subseteq available -> [error |-> "UnknownSnippet"]
          [] OTHER -> [snippets |-> wanted]
  BY DEF ResolveSnippets
<1>2. literal => ToSet(call) = {NoSnippets}
  <2> HIDE DEF wanted
  <2>1. QED
    BY <1>1 DEF Failed
<1>3. ToSet(call) = {NoSnippets} => literal
  OBVIOUS
<1> HIDE DEF literal, wanted
<1>4. ResolveSnippets(call, default, available) = [snippets |-> wanted]
  BY <1>1, <1>2, <1>3 DEF Failed
<1>5. QED
  BY <1>2, <1>3, <1>4 DEF literal, wanted

\* The snippets and the arguments of a build, and the build of a target.
SnippetsOf(trees, p, sel, t) ==
  ResolveSnippets(sel.snippets, p.default_snippets, AvailableSnippets(trees, t.app))

ArgsOf(p, sel) == IF sel.extra_args = <<>> THEN p.default_extra_args ELSE sel.extra_args

DirOf(trees, p, sel, t) == BuildDirName(t, SnippetsOf(trees, p, sel, t).snippets, ArgsOf(p, sel))

BuildOf(trees, p, sel, t) ==
  [project |-> p.name, target |-> t, lock_key |-> <<p.name, DirOf(trees, p, sel, t)>>,
   dir |-> <<p.build_dir_root, DirOf(trees, p, sel, t)>>,
   command |-> [board |-> <<t.board, t.revision, t.soc, t.cluster, t.variant>>,
                snippets |-> SnippetsOf(trees, p, sel, t).snippets, args |-> ArgsOf(p, sel),
                app |-> <<AppDir(trees, t.app), t.app>>]]

\* What a west project resolves to, if the scan finds rows and one of them agrees.
LEMMA ResolvesTo ==
  ASSUME NEW bs, NEW trees, NEW p, NEW sel, NEW t, ScanError(bs, trees) = None,
         Select(Backed(bs, trees), Effective(p.default_target, sel)) = [target |-> t]
  PROVE  ResolveZephyr(bs, trees, p, sel) =
           IF Failed(SnippetsOf(trees, p, sel, t)) THEN SnippetsOf(trees, p, sel, t)
           ELSE BuildOf(trees, p, sel, t)
<1> DEFINE picked == Select(Backed(bs, trees), Effective(p.default_target, sel))
<1>1. ~ Failed(picked) /\ picked.target = t
  BY DEF Failed
<1>2. QED
  BY <1>1 DEF ResolveZephyr, BuildOf, SnippetsOf, ArgsOf, DirOf

LEMMA ResolvedBuild ==
  ASSUME NEW bs, NEW trees, NEW p, NEW sel, IsFiniteSet(Backed(bs, trees)),
         ~ Failed(ResolveZephyr(bs, trees, p, sel))
  PROVE  \E row \in Backed(bs, trees) :
           /\ Matching(Backed(bs, trees), Effective(p.default_target, sel)) = {row}
           /\ ~ Failed(SnippetsOf(trees, p, sel, row.target))
           /\ ResolveZephyr(bs, trees, p, sel) = BuildOf(trees, p, sel, row.target)
<1> DEFINE rows == Backed(bs, trees)
           wanted == Effective(p.default_target, sel)
           picked == Select(rows, wanted)
<1>1. ScanError(bs, trees) = None /\ ~ Failed(picked)
  BY DEF ResolveZephyr, Failed
<1>2. PICK row \in rows : Matching(rows, wanted) = {row} /\ picked = [target |-> row.target]
  <2> HIDE DEF rows, wanted
  <2>1. IsFiniteSet(rows)
    BY DEF rows
  <2>2. QED
    BY <1>1, <2>1, SelectsTheOne DEF Failed
<1>3. ResolveZephyr(bs, trees, p, sel) =
        IF Failed(SnippetsOf(trees, p, sel, row.target)) THEN SnippetsOf(trees, p, sel, row.target)
        ELSE BuildOf(trees, p, sel, row.target)
  BY <1>1, <1>2, ResolvesTo
<1>4. QED
  BY <1>2, <1>3

-----------------------------------------------------------------------------
(* Names, and what joining them keeps *)

\* A set of numbers has a least one.
LEMMA LeastOf ==
  ASSUME NEW S \in SUBSET Nat, S # {}
  PROVE  \E x \in S : \A y \in S : x <= y
<1> DEFINE R == OpToRel(<, Nat)
<1>1. IsWellFoundedOn(R, Nat)
  BY NatLessThanWellFounded
<1>2. \A x, y \in Nat : <<y, x>> \in R <=> y < x
  BY DEF OpToRel
<1> HIDE DEF R
<1>3. PICK x \in S : \A y \in S : ~ (<<y, x>> \in R)
  BY <1>1, WFMin
<1>4. ASSUME NEW y \in S PROVE x <= y
  <2>1. x \in Nat /\ y \in Nat
    OBVIOUS
  <2>2. ~ (y < x)
    BY <1>2, <1>3, <2>1
  <2>3. QED
    BY <2>1, <2>2
<1>5. QED
  BY <1>4

Name == Seq(Words)
Free(sep, s) == \A i \in 1..Len(s) : s[i] # sep

\* Two names with a separator between.
Pair(a, sep, b) == (a \o <<sep>>) \o b

IsPair(s, a, sep, b) ==
  /\ Len(s) = Len(a) + 1 + Len(b)
  /\ Len(a) \in Nat /\ Len(b) \in Nat
  /\ \A i \in 1..Len(a) : s[i] = a[i]
  /\ s[Len(a) + 1] = sep
  /\ \A i \in 1..Len(b) : s[Len(a) + 1 + i] = b[i]

LEMMA PairIs ==
  ASSUME NEW a \in Name, NEW sep \in Words, NEW b \in Name
  PROVE  Pair(a, sep, b) \in Name /\ IsPair(Pair(a, sep, b), a, sep, b)
<1>1. <<sep>> \in Seq(Words) /\ Len(<<sep>>) = 1 /\ <<sep>>[1] = sep
  OBVIOUS
<1> DEFINE c == <<sep>>
           d == a \o c
<1> HIDE DEF c
<1>2. /\ d \in Seq(Words) /\ Len(d) = Len(a) + 1
      /\ \A i \in 1..Len(a) + 1 : d[i] = IF i <= Len(a) THEN a[i] ELSE c[i - Len(a)]
  BY <1>1, ConcatProperties DEF c, Name
<1>3. Pair(a, sep, b) = d \o b
  BY DEF Pair, c
<1>4. /\ d \o b \in Seq(Words) /\ Len(d \o b) = Len(d) + Len(b)
      /\ \A i \in 1..Len(d) + Len(b) : (d \o b)[i] = IF i <= Len(d) THEN d[i] ELSE b[i - Len(d)]
  <2> HIDE DEF d
  <2>1. b \in Seq(Words)
    BY DEF Name
  <2>2. d \in Seq(Words)
    BY <1>2
  <2>3. QED
    BY <2>1, <2>2, ConcatProperties, Zenon
<1> HIDE DEF d
<1>5. Len(a) \in Nat /\ Len(b) \in Nat
  BY LenProperties DEF Name
<1>6. Len(d) = Len(a) + 1 /\ c[1] = sep
  BY <1>1, <1>2 DEF c
<1> DEFINE e == d \o b
<1>7. \A i \in 1..Len(d) + Len(b) : e[i] = IF i <= Len(d) THEN d[i] ELSE b[i - Len(d)]
  BY <1>4
<1>8. e \in Name /\ Len(e) = Len(a) + 1 + Len(b)
  BY <1>4, <1>5, <1>6 DEF Name
<1> HIDE DEF e
<1>9. \A i \in 1..Len(a) : e[i] = a[i]
  BY <1>2, <1>5, <1>6, <1>7
<1>10. e[Len(a) + 1] = sep
  <2>1. e[Len(a) + 1] = d[Len(a) + 1]
    BY <1>5, <1>6, <1>7
  <2>2. d[Len(a) + 1] = c[(Len(a) + 1) - Len(a)] /\ (Len(a) + 1) - Len(a) = 1
    BY <1>2, <1>5
  <2>3. QED
    BY <2>1, <2>2, <1>6
<1>11. ASSUME NEW i \in 1..Len(b) PROVE e[Len(a) + 1 + i] = b[i]
  <2> DEFINE k == Len(a) + 1 + i
  <2>1. k \in 1..Len(d) + Len(b) /\ ~ (k <= Len(d)) /\ k - Len(d) = i
    BY <1>5, <1>6
  <2>2. QED
    BY <2>1, <1>7
<1>12. QED
  <2>1. IsPair(e, a, sep, b)
    BY <1>5, <1>8, <1>9, <1>10, <1>11 DEF IsPair
  <2>2. Pair(a, sep, b) = e
    BY <1>3 DEF e
  <2>3. QED
    BY <1>8, <2>1, <2>2

\* A first part without the separator is told from the rest.
LEMMA FirstSplits ==
  ASSUME NEW sep \in Words, NEW a \in Name, NEW b \in Name, NEW r \in Name, NEW q \in Name,
         Free(sep, a), Free(sep, b), Pair(a, sep, r) = Pair(b, sep, q)
  PROVE  a = b /\ r = q
<1> DEFINE s == Pair(a, sep, r)
<1>a. IsPair(s, a, sep, r)
  BY PairIs
<1>b. IsPair(s, b, sep, q)
  BY PairIs
<1> HIDE DEF s
<1>1. /\ Len(s) = Len(a) + 1 + Len(r) /\ Len(a) \in Nat /\ Len(r) \in Nat
      /\ \A i \in 1..Len(a) : s[i] = a[i]
      /\ s[Len(a) + 1] = sep
      /\ \A i \in 1..Len(r) : s[Len(a) + 1 + i] = r[i]
  BY <1>a DEF IsPair
<1>2. /\ Len(s) = Len(b) + 1 + Len(q) /\ Len(b) \in Nat /\ Len(q) \in Nat
      /\ \A i \in 1..Len(b) : s[i] = b[i]
      /\ s[Len(b) + 1] = sep
      /\ \A i \in 1..Len(q) : s[Len(b) + 1 + i] = q[i]
  BY <1>b DEF IsPair
<1> HIDE DEF s
<1>3. ~ (Len(a) < Len(b))
  <2> SUFFICES ASSUME Len(a) < Len(b) PROVE FALSE
    OBVIOUS
  <2>1. Len(a) + 1 \in 1..Len(b)
    BY <1>1, <1>2
  <2>2. QED
    BY <1>1, <1>2, <2>1 DEF Free
<1>4. ~ (Len(b) < Len(a))
  <2> SUFFICES ASSUME Len(b) < Len(a) PROVE FALSE
    OBVIOUS
  <2>1. Len(b) + 1 \in 1..Len(a)
    BY <1>1, <1>2
  <2>2. QED
    BY <1>1, <1>2, <2>1 DEF Free
<1>5. Len(a) = Len(b) /\ Len(r) = Len(q)
  BY <1>1, <1>2, <1>3, <1>4
<1>6. \A i \in 1..Len(a) : a[i] = b[i]
  BY <1>1, <1>2, <1>5
<1>7. \A i \in 1..Len(r) : r[i] = q[i]
  BY <1>1, <1>2, <1>5
<1>8. QED
  BY <1>5, <1>6, <1>7, SeqEqual DEF Name

\* So is a last part without it.
LEMMA LastSplits ==
  ASSUME NEW sep \in Words, NEW a \in Name, NEW b \in Name, NEW r \in Name, NEW q \in Name,
         Free(sep, r), Free(sep, q), Pair(a, sep, r) = Pair(b, sep, q)
  PROVE  a = b /\ r = q
<1> DEFINE s == Pair(a, sep, r)
<1>a. IsPair(s, a, sep, r)
  BY PairIs
<1>b. IsPair(s, b, sep, q)
  BY PairIs
<1> HIDE DEF s
<1>1. /\ Len(s) = Len(a) + 1 + Len(r) /\ Len(a) \in Nat /\ Len(r) \in Nat
      /\ \A i \in 1..Len(a) : s[i] = a[i]
      /\ s[Len(a) + 1] = sep
      /\ \A i \in 1..Len(r) : s[Len(a) + 1 + i] = r[i]
  BY <1>a DEF IsPair
<1>2. /\ Len(s) = Len(b) + 1 + Len(q) /\ Len(b) \in Nat /\ Len(q) \in Nat
      /\ \A i \in 1..Len(b) : s[i] = b[i]
      /\ s[Len(b) + 1] = sep
      /\ \A i \in 1..Len(q) : s[Len(b) + 1 + i] = q[i]
  BY <1>b DEF IsPair
<1> HIDE DEF s
<1>3. ~ (Len(a) < Len(b))
  <2> SUFFICES ASSUME Len(a) < Len(b) PROVE FALSE
    OBVIOUS
  <2> DEFINE i == Len(b) - Len(a)
  <2>1. i \in 1..Len(r) /\ Len(a) + 1 + i = Len(b) + 1
    BY <1>1, <1>2
  <2>2. QED
    <3>1. s[Len(b) + 1] = r[i]
      BY <1>1, <2>1
    <3>2. QED
      BY <1>2, <2>1, <3>1 DEF Free
<1>4. ~ (Len(b) < Len(a))
  <2> SUFFICES ASSUME Len(b) < Len(a) PROVE FALSE
    OBVIOUS
  <2> DEFINE i == Len(a) - Len(b)
  <2>1. i \in 1..Len(q) /\ Len(b) + 1 + i = Len(a) + 1
    BY <1>1, <1>2
  <2>2. QED
    <3>1. s[Len(a) + 1] = q[i]
      BY <1>2, <2>1
    <3>2. QED
      BY <1>1, <2>1, <3>1 DEF Free
<1>5. Len(a) = Len(b) /\ Len(r) = Len(q)
  BY <1>1, <1>2, <1>3, <1>4
<1>6. \A i \in 1..Len(a) : a[i] = b[i]
  BY <1>1, <1>2, <1>5
<1>7. \A i \in 1..Len(r) : r[i] = q[i]
  BY <1>1, <1>2, <1>5
<1>8. QED
  BY <1>5, <1>6, <1>7, SeqEqual DEF Name

\* A name without the separator is not two.
LEMMA OneIsNotTwo ==
  ASSUME NEW sep \in Words, NEW a \in Name, NEW b \in Name, NEW c \in Name, Free(sep, c)
  PROVE  c # Pair(a, sep, b)
<1>1. /\ Len(Pair(a, sep, b)) = Len(a) + 1 + Len(b) /\ Len(a) \in Nat /\ Len(b) \in Nat
      /\ Pair(a, sep, b)[Len(a) + 1] = sep
  BY PairIs DEF IsPair
<1>2. QED
  BY <1>1 DEF Free

LEMMA PairsReassociate ==
  ASSUME NEW sep \in Words, NEW a \in Name, NEW b \in Name, NEW c \in Name
  PROVE  Pair(Pair(a, sep, b), sep, c) = Pair(a, sep, Pair(b, sep, c))
<1> DEFINE m == <<sep>>
<1>1. m \in Seq(Words) /\ a \in Seq(Words) /\ b \in Seq(Words) /\ c \in Seq(Words)
  BY DEF Name
<1> HIDE DEF m
<1> DEFINE Associate(p, q, r) == (p \o q) \o r = p \o (q \o r)
<1>2. \A p, q, r \in Seq(Words) : Associate(p, q, r)
  <2> TAKE p, q, r \in Seq(Words)
  <2>1. QED
    BY ConcatAssociative
<1>3. a \o m \in Seq(Words) /\ b \o m \in Seq(Words)
  BY <1>1, ConcatProperties
<1> HIDE DEF Associate
<1>4. Associate(a \o m, b, m)
  BY <1>1, <1>2, <1>3
<1>5. Associate(a \o m, b \o m, c)
  BY <1>1, <1>2, <1>3
<1>6. QED
  BY <1>4, <1>5, Zenon DEF Associate, Pair, m

-----------------------------------------------------------------------------
(* Joining names *)

Joins(upTo, sep, names) ==
  \A i \in 1..Len(names) :
    upTo[i] = IF i = 1 THEN names[1] ELSE Pair(upTo[i - 1], sep, names[i])

\* JoinedBy is the last value of its recursion, by the least place where it would not be.
LEMMA JoinedBySteps ==
  ASSUME NEW sep, NEW names, Len(names) \in Nat, Len(names) # 0
  PROVE  \E upTo : Joins(upTo, sep, names) /\ JoinedBy(sep, names) = upTo[Len(names)]
<1> DEFINE N == Len(names)
           Next1(f, i) == IF i = 1 THEN names[1] ELSE f[i - 1] \o <<sep>> \o names[i]
           Eq(f, n) == f = [i \in 1..n |-> IF i = 1 THEN names[1] ELSE f[i - 1] \o <<sep>> \o names[i]]
           Bad == {n \in 1..N : ~ \E f : Eq(f, n)}
<1>1. Bad = {}
  <2> SUFFICES ASSUME Bad # {} PROVE FALSE
    OBVIOUS
  <2>1. PICK n \in Bad : \A m \in Bad : n <= m
    <3>1. Bad \in SUBSET Nat
      <4> HIDE DEF Eq
      <4>1. QED
        OBVIOUS
    <3> HIDE DEF Bad
    <3>2. QED
      BY <3>1, LeastOf
  <2>2. CASE n = 1
    <3> DEFINE f == [i \in 1..1 |-> names[1]]
    <3>1. Eq(f, 1)
      OBVIOUS
    <3>2. QED
      BY <2>1, <2>2, <3>1
  <2>3. CASE n # 1
    <3>1. n - 1 \in 1..N /\ n - 1 \notin Bad /\ n \in Nat /\ n - 1 \in Nat
      <4>1. n \in 1..N
        OBVIOUS
      <4> HIDE DEF Bad
      <4>2. QED
        BY <2>1, <2>3, <4>1
    <3>2. PICK f : Eq(f, n - 1)
      <4> HIDE DEF Eq
      <4>1. QED
        BY <3>1
    <3> DEFINE x == f[n - 1] \o <<sep>> \o names[n]
               g == [i \in 1..n |-> IF i = n THEN x ELSE f[i]]
    <3>3. \A i \in 1..n - 1 : f[i] = Next1(f, i)
      BY <3>1, <3>2
    <3>4. DOMAIN g = 1..n /\ g = [i \in 1..n |-> g[i]]
      OBVIOUS
    <3>5. g[n] = x /\ \A i \in 1..n - 1 : g[i] = f[i]
      <4> HIDE DEF x
      <4>1. QED
        BY <3>1
    <3> HIDE DEF g
    <3>6. g[n] = Next1(g, n)
      <4>1. g[n - 1] = f[n - 1]
        BY <2>3, <3>1, <3>5
      <4>2. QED
        BY <2>3, <3>5, <4>1
    <3>7. ASSUME NEW i \in 1..n - 1 PROVE g[i] = Next1(g, i)
      <4>1. g[i] = Next1(f, i)
        BY <3>3, <3>5
      <4>2. i # 1 => i - 1 \in 1..n - 1
        BY <3>1
      <4>3. i # 1 => g[i - 1] = f[i - 1]
        BY <3>5, <4>2
      <4>4. QED
        BY <4>1, <4>3, Zenon
    <3>8. \A i \in 1..n : i = n \/ i \in 1..n - 1
      BY <3>1
    <3>9. \A i \in 1..n : g[i] = Next1(g, i)
      <4> HIDE DEF Next1
      <4>1. QED
        BY <3>6, <3>7, <3>8
    <3>10. Eq(g, n)
      BY <3>4, <3>9, Zenon
    <3>11. QED
      BY <2>1, <3>10
  <2>4. QED
    BY <2>2, <2>3
<1>2. \E f : Eq(f, N)
  <2>1. N \in 1..N
    OBVIOUS
  <2> HIDE DEF Eq
  <2>2. QED
    BY <1>1, <2>1
<1> DEFINE F == CHOOSE f : Eq(f, N)
<1>3. Eq(F, N)
  BY <1>2
<1>4. JoinedBy(sep, names) = F[N]
  BY DEF JoinedBy
<1> HIDE DEF F
<1>5. \A i \in 1..N : F[i] = Next1(F, i)
  BY <1>3
<1>6. Joins(F, sep, names)
  BY <1>5, Zenon DEF Joins, Pair
<1>7. QED
  BY <1>4, <1>6

LEMMA JoinsAreNames ==
  ASSUME NEW sep \in Words, NEW names \in Seq(Name), NEW upTo, Joins(upTo, sep, names)
  PROVE  \A i \in 1..Len(names) : upTo[i] \in Name
<1> DEFINE Bad == {i \in 1..Len(names) : upTo[i] \notin Name}
<1>0. Len(names) \in Nat /\ \A i \in 1..Len(names) : names[i] \in Name
  BY LenProperties, ElementOfSeq
<1>1. Bad \in SUBSET Nat
  BY <1>0
<1>2. SUFFICES ASSUME Bad # {} PROVE FALSE
  OBVIOUS
<1>3. PICK i \in Bad : \A j \in Bad : i <= j
  <2> HIDE DEF Bad
  <2>1. QED
    BY <1>1, <1>2, LeastOf
<1>4. i \in 1..Len(names) /\ upTo[i] \notin Name
  OBVIOUS
<1>5. i # 1
  BY <1>0, <1>4 DEF Joins
<1>6. i - 1 \in 1..Len(names) /\ ~ (i <= i - 1)
  BY <1>0, <1>4, <1>5
<1>7. i - 1 \notin Bad
  <2> HIDE DEF Bad
  <2>1. QED
    BY <1>3, <1>6
<1>8. upTo[i - 1] \in Name
  BY <1>6, <1>7
<1>9. upTo[i] = Pair(upTo[i - 1], sep, names[i])
  BY <1>4, <1>5 DEF Joins
<1>10. QED
  BY <1>0, <1>4, <1>8, <1>9, PairIs

LEMMA JoinedIsName ==
  ASSUME NEW sep \in Words, NEW names \in Seq(Name), names # <<>>
  PROVE  JoinedBy(sep, names) \in Name
<1>1. Len(names) \in Nat /\ Len(names) # 0
  BY LenProperties, EmptySeq
<1>2. PICK upTo : Joins(upTo, sep, names) /\ JoinedBy(sep, names) = upTo[Len(names)]
  BY <1>1, JoinedBySteps
<1>3. Len(names) \in 1..Len(names)
  BY <1>1
<1>4. QED
  BY <1>2, <1>3, JoinsAreNames

\* Names without the separator are told from what they join to, by the least length at
\* which they would not be.
LEMMA JoinedOnce ==
  ASSUME NEW sep \in Words, NEW s \in Seq(Name), NEW t \in Seq(Name), s # <<>>, t # <<>>,
         \A i \in 1..Len(s) : Free(sep, s[i]), \A i \in 1..Len(t) : Free(sep, t[i]),
         JoinedBy(sep, s) = JoinedBy(sep, t)
  PROVE  s = t
<1>1. /\ Len(s) \in Nat /\ Len(s) # 0 /\ Len(t) \in Nat /\ Len(t) # 0
      /\ \A i \in 1..Len(s) : s[i] \in Name
      /\ \A i \in 1..Len(t) : t[i] \in Name
  BY LenProperties, EmptySeq, ElementOfSeq
<1>2. PICK f : Joins(f, sep, s) /\ JoinedBy(sep, s) = f[Len(s)]
  BY <1>1, JoinedBySteps
<1>3. PICK g : Joins(g, sep, t) /\ JoinedBy(sep, t) = g[Len(t)]
  BY <1>1, JoinedBySteps
<1>4. (\A i \in 1..Len(s) : f[i] \in Name) /\ (\A i \in 1..Len(t) : g[i] \in Name)
  BY <1>2, <1>3, JoinsAreNames
<1> DEFINE Told(m, n) == f[m] = g[n] => m = n /\ \A i \in 1..m : s[i] = t[i]
           Bad == {m \in 1..Len(s) : \E n \in 1..Len(t) : ~ Told(m, n)}
<1>5. Bad = {}
  <2> SUFFICES ASSUME Bad # {} PROVE FALSE
    OBVIOUS
  <2>1. PICK m \in Bad : \A k \in Bad : m <= k
    <3>1. Bad \in SUBSET Nat
      BY <1>1
    <3> HIDE DEF Bad
    <3>2. QED
      BY <3>1, LeastOf
  <2>2. m \in 1..Len(s) /\ \E n \in 1..Len(t) : ~ Told(m, n)
    OBVIOUS
  <2>3. PICK n \in 1..Len(t) : ~ Told(m, n)
    BY <2>2
  <2>4. f[m] = g[n] /\ ~ (m = n /\ \A i \in 1..m : s[i] = t[i])
    BY <2>3
  <2>5. /\ m = 1 => f[m] = s[1]
        /\ m # 1 => m - 1 \in 1..Len(s) /\ f[m] = Pair(f[m - 1], sep, s[m])
    BY <1>1, <1>2, <2>2 DEF Joins
  <2>6. /\ n = 1 => g[n] = t[1]
        /\ n # 1 => n - 1 \in 1..Len(t) /\ g[n] = Pair(g[n - 1], sep, t[n])
    BY <1>1, <1>3 DEF Joins
  <2>7. 1 \in 1..Len(s) /\ 1 \in 1..Len(t)
    BY <1>1
  <2>8. CASE m = 1
    <3>1. n = 1
      BY <1>1, <1>4, <2>4, <2>5, <2>6, <2>7, <2>8, OneIsNotTwo
    <3>2. QED
      BY <2>4, <2>5, <2>6, <2>8, <3>1
  <2>9. CASE m # 1
    <3>1. n # 1
      BY <1>1, <1>4, <2>2, <2>4, <2>5, <2>6, <2>7, <2>9, OneIsNotTwo
    <3>2. f[m - 1] = g[n - 1] /\ s[m] = t[n]
      <4>1. Pair(f[m - 1], sep, s[m]) = Pair(g[n - 1], sep, t[n])
        BY <2>4, <2>5, <2>6, <2>9, <3>1
      <4>2. {f[m - 1], g[n - 1], s[m], t[n]} \subseteq Name /\ Free(sep, s[m]) /\ Free(sep, t[n])
        BY <1>1, <1>4, <2>2, <2>5, <2>6, <2>9, <3>1
      <4>3. QED
        BY <4>1, <4>2, LastSplits
    <3>3. m - 1 \notin Bad
      <4>1. ~ (m <= m - 1)
        BY <1>1, <2>2
      <4> HIDE DEF Bad
      <4>2. QED
        BY <2>1, <4>1
    <3>4. Told(m - 1, n - 1)
      BY <2>5, <2>6, <2>9, <3>1, <3>3
    <3>5. m - 1 = n - 1 /\ \A i \in 1..m - 1 : s[i] = t[i]
      BY <3>2, <3>4
    <3>6. m = n /\ \A i \in 1..m : i \in 1..m - 1 \/ i = m
      BY <1>1, <2>2, <3>5
    <3>7. QED
      BY <2>4, <3>2, <3>5, <3>6
  <2>10. QED
    BY <2>8, <2>9
<1>6. Len(s) \in 1..Len(s) /\ Len(t) \in 1..Len(t) /\ f[Len(s)] = g[Len(t)]
  <2>1. f[Len(s)] = g[Len(t)]
    BY <1>2, <1>3, Zenon
  <2>2. QED
    BY <1>1, <2>1
<1>7. Told(Len(s), Len(t))
  BY <1>5, <1>6
<1>8. Len(s) = Len(t) /\ \A i \in 1..Len(s) : s[i] = t[i]
  BY <1>6, <1>7
<1>9. QED
  BY <1>8, SeqEqual

-----------------------------------------------------------------------------
(* What the name of a directory tells *)

Dash       == "-"
Underscore == "_"

LEMMA Separators == Dash \in Words /\ Underscore \in Words /\ "default" \in Words /\ "none" \in Words
  BY NamesAssumption DEF Dash, Underscore

\* Four parts in a row, and five.
Four(sep, a, b, c, d)    == Pair(a, sep, Pair(b, sep, Pair(c, sep, d)))
Five(sep, a, b, c, d, e) == Four(sep, a, b, c, Pair(d, sep, e))

LEMMA FourJoined ==
  ASSUME NEW sep \in Words, NEW a \in Name, NEW b \in Name, NEW c \in Name, NEW d \in Name
  PROVE  Pair(Pair(Pair(a, sep, b), sep, c), sep, d) = Four(sep, a, b, c, d)
<1>1. Pair(a, sep, b) \in Name /\ Pair(c, sep, d) \in Name
  BY PairIs
<1>2. Pair(Pair(Pair(a, sep, b), sep, c), sep, d) = Pair(Pair(a, sep, b), sep, Pair(c, sep, d))
  BY <1>1, PairsReassociate
<1>3. Pair(Pair(a, sep, b), sep, Pair(c, sep, d)) = Pair(a, sep, Pair(b, sep, Pair(c, sep, d)))
  BY <1>1, PairsReassociate
<1>4. QED
  BY <1>2, <1>3 DEF Four

LEMMA FiveJoined ==
  ASSUME NEW sep \in Words, NEW a \in Name, NEW b \in Name, NEW c \in Name, NEW d \in Name,
         NEW e \in Name
  PROVE  Pair(Pair(Pair(Pair(a, sep, b), sep, c), sep, d), sep, e) = Five(sep, a, b, c, d, e)
<1>1. Pair(Pair(a, sep, b), sep, c) \in Name /\ Pair(d, sep, e) \in Name
  BY PairIs
<1>2. Pair(Pair(Pair(Pair(a, sep, b), sep, c), sep, d), sep, e) =
        Pair(Pair(Pair(a, sep, b), sep, c), sep, Pair(d, sep, e))
  BY <1>1, PairsReassociate
<1>3. QED
  BY <1>1, <1>2, FourJoined DEF Five

\* All but the last are told from the whole, and then the last.
WithDashes(f) == Four(Dash, f[1], f[2], f[3], f[4])

LEMMA PartsTell ==
  ASSUME NEW f, NEW g, \A i \in 1..4 : f[i] \in Name /\ g[i] \in Name,
         \A i \in 1..3 : Free(Dash, f[i]) /\ Free(Dash, g[i]), WithDashes(f) = WithDashes(g)
  PROVE  \A i \in 1..4 : f[i] = g[i]
<1> DEFINE a == f[1]
           b == f[2]
           c == f[3]
           d == f[4]
           k == g[1]
           l == g[2]
           m == g[3]
           n == g[4]
<1>1. {a, b, c, d, k, l, m, n} \subseteq Name
  OBVIOUS
<1>2. /\ Free(Dash, a) /\ Free(Dash, b) /\ Free(Dash, c)
      /\ Free(Dash, k) /\ Free(Dash, l) /\ Free(Dash, m)
  OBVIOUS
<1>3. Pair(a, Dash, Pair(b, Dash, Pair(c, Dash, d))) = Pair(k, Dash, Pair(l, Dash, Pair(m, Dash, n)))
  BY DEF WithDashes, Four
<1> HIDE DEF a, b, c, d, k, l, m, n
<1>4. Pair(c, Dash, d) \in Name /\ Pair(m, Dash, n) \in Name
  BY <1>1, PairIs, Separators
<1>5. Pair(b, Dash, Pair(c, Dash, d)) \in Name /\ Pair(l, Dash, Pair(m, Dash, n)) \in Name
  BY <1>1, <1>4, PairIs, Separators
<1>6. a = k /\ Pair(b, Dash, Pair(c, Dash, d)) = Pair(l, Dash, Pair(m, Dash, n))
  BY <1>1, <1>2, <1>3, <1>5, FirstSplits, Separators
<1>7. b = l /\ Pair(c, Dash, d) = Pair(m, Dash, n)
  BY <1>1, <1>2, <1>4, <1>6, FirstSplits, Separators
<1>8. c = m /\ d = n
  BY <1>1, <1>2, <1>7, FirstSplits, Separators
<1>9. a = k /\ b = l /\ c = m /\ d = n
  BY <1>6, <1>7, <1>8
<1>10. QED
  BY <1>9 DEF a, b, c, d, k, l, m, n

\* A target whose names are names.
IsTarget(t) ==
  /\ t.board \in Name /\ t.app \in Name
  /\ t.variant \in Name \cup {None} /\ t.variant # Default
  /\ t.revision \in Name \cup {None}

Told(t, snippets) == BuildDirName(t, snippets, <<>>).name

LEMMA NamesOfTarget ==
  ASSUME NEW t, IsTarget(t)
  PROVE  /\ Or(t.variant, Default) \in Name /\ Or(t.revision, NoSnippets) \in Name
         /\ t.board \in Name /\ t.app \in Name
         /\ Segments(t) \in Seq(Name)
<1>1. Default \in Name /\ NoSnippets \in Name
  BY Separators DEF Default, NoSnippets, Name
<1>2. QED
  BY <1>1 DEF IsTarget, Or, Segments

LEMMA ToldBare ==
  ASSUME NEW t, IsTarget(t)
  PROVE  Told(t, <<>>) = Four(Dash, t.board, Or(t.variant, Default), Or(t.revision, NoSnippets), t.app)
<1> DEFINE v == Or(t.variant, Default)
           r == Or(t.revision, NoSnippets)
           names == <<t.board, v, r, t.app>>
<1>1. v \in Name /\ r \in Name /\ t.board \in Name /\ t.app \in Name
  BY NamesOfTarget
<1>2. Told(t, <<>>) = JoinedBy(Dash, Segments(t) \o <<>>)
  BY DEF Told, BuildDirName, Dash, Underscore
<1>3. Segments(t) \o <<>> = names
  BY NamesOfTarget, ConcatEmptySeq DEF Segments
<1> HIDE DEF v, r
<1>4. Len(names) = 4 /\ names[1] = t.board /\ names[2] = v /\ names[3] = r /\ names[4] = t.app
  OBVIOUS
<1> HIDE DEF names
<1>5. PICK f : Joins(f, Dash, names) /\ JoinedBy(Dash, names) = f[4]
  <2>1. Len(names) \in Nat /\ Len(names) # 0
    BY <1>4
  <2>2. \E f : Joins(f, Dash, names) /\ JoinedBy(Dash, names) = f[Len(names)]
    BY <2>1, JoinedBySteps
  <2>3. QED
    BY <1>4, <2>2
<1>6. /\ f[1] = t.board /\ f[2] = Pair(f[1], Dash, v)
      /\ f[3] = Pair(f[2], Dash, r) /\ f[4] = Pair(f[3], Dash, t.app)
  BY <1>4, <1>5 DEF Joins
<1>7. QED
  BY <1>1, <1>2, <1>3, <1>5, <1>6, FourJoined, Separators DEF v, r

LEMMA ToldWithSnippets ==
  ASSUME NEW t, IsTarget(t), NEW s \in Seq(Name), s # <<>>
  PROVE  Told(t, s) = Five(Dash, t.board, Or(t.variant, Default), Or(t.revision, NoSnippets), t.app,
                           JoinedBy(Underscore, s))
<1> DEFINE v == Or(t.variant, Default)
           r == Or(t.revision, NoSnippets)
           e == JoinedBy(Underscore, s)
           b == t.board
           p == t.app
           names == Segments(t) \o <<e>>
<1>1. v \in Name /\ r \in Name /\ b \in Name /\ p \in Name
  BY NamesOfTarget
<1>2. e \in Name
  BY JoinedIsName, Separators
<1>3. Told(t, s) = JoinedBy(Dash, names)
  BY DEF Told, BuildDirName, Dash, Underscore
<1> HIDE DEF b, p, v, r, e
<1>4. Segments(t) = <<b, v, r, p>>
  BY DEF Segments, b, p, v, r
<1>6. /\ Len(names) = 5 /\ names[1] = b /\ names[2] = v /\ names[3] = r /\ names[4] = p
      /\ names[5] = e
  <2> DEFINE x == Segments(t)
             y == <<e>>
  <2>1. x \in Seq(Name) /\ Len(x) = 4 /\ x[1] = b /\ x[2] = v /\ x[3] = r /\ x[4] = p
    <3>1. x \in Seq(Name)
      BY NamesOfTarget
    <3>2. x = <<b, v, r, p>>
      BY <1>4
    <3> HIDE DEF x
    <3>3. QED
      BY <3>1, <3>2
  <2>2. y \in Seq(Name) /\ Len(y) = 1 /\ y[1] = e
    BY <1>2
  <2> HIDE DEF x, y
  <2>3. /\ Len(x \o y) = Len(x) + Len(y)
        /\ \A i \in 1..Len(x) + Len(y) :
             (x \o y)[i] = IF i <= Len(x) THEN x[i] ELSE y[i - Len(x)]
    BY <2>1, <2>2, ConcatProperties
  <2> DEFINE z == x \o y
  <2> HIDE DEF z
  <2>4. Len(z) = 5 /\ \A i \in 1..5 : z[i] = IF i <= 4 THEN x[i] ELSE y[i - 4]
    BY <2>1, <2>2, <2>3 DEF z
  <2>5. z[1] = x[1] /\ z[2] = x[2] /\ z[3] = x[3] /\ z[4] = x[4] /\ z[5] = y[1]
    BY <2>4
  <2>6. names = z
    BY DEF x, y, z
  <2> HIDE DEF names
  <2>7. QED
    BY <2>1, <2>2, <2>4, <2>5, <2>6
<1> HIDE DEF names
<1>7. PICK f : Joins(f, Dash, names) /\ JoinedBy(Dash, names) = f[5]
  <2>1. Len(names) \in Nat /\ Len(names) # 0
    BY <1>6
  <2>2. \E f : Joins(f, Dash, names) /\ JoinedBy(Dash, names) = f[Len(names)]
    BY <2>1, JoinedBySteps
  <2>3. QED
    BY <1>6, <2>2
<1>8. /\ f[1] = b /\ f[2] = Pair(f[1], Dash, v)
      /\ f[3] = Pair(f[2], Dash, r) /\ f[4] = Pair(f[3], Dash, p)
      /\ f[5] = Pair(f[4], Dash, e)
  BY <1>6, <1>7 DEF Joins
<1>9. QED
  <2>1. Told(t, s) = Pair(Pair(Pair(Pair(b, Dash, v), Dash, r), Dash, p), Dash, e)
    BY <1>3, <1>7, <1>8
  <2>2. Told(t, s) = Five(Dash, b, v, r, p, e)
    BY <1>1, <1>2, <2>1, FiveJoined, Separators
  <2>3. QED
    BY <2>2 DEF b, p, v, r, e

\* Names that hold none of the separators, as in Joinable.
Plain(t, snippets) ==
  /\ t.revision # NoSnippets
  /\ \A a \in Axes : t[a] = None \/ "-" \notin ToSet(t[a])
  /\ \A n \in ToSet(snippets) : "_" \notin ToSet(n)

LEMMA IsFree == ASSUME NEW sep, NEW n \in Name, sep \notin ToSet(n) PROVE Free(sep, n)
<1>1. ASSUME NEW i \in 1..Len(n) PROVE n[i] \in ToSet(n)
  BY DEF ToSet, Name
<1>2. QED
  BY <1>1 DEF Free

LEMMA FreeOfDashes ==
  ASSUME NEW t, IsTarget(t), NEW snippets, Plain(t, snippets), None \notin Name
  PROVE  /\ Free(Dash, t.board) /\ Free(Dash, t.app)
         /\ Free(Dash, Or(t.variant, Default)) /\ Free(Dash, Or(t.revision, NoSnippets))
<1>1. ASSUME NEW n \in Name, Dash \notin ToSet(n) PROVE Free(Dash, n)
  BY <1>1 DEF Free, ToSet, Name
<1>2. Free(Dash, Default) /\ Free(Dash, NoSnippets)
  BY DEF Free, Default, NoSnippets, Dash
<1>3. /\ t["board"] = t.board /\ t["app"] = t.app /\ t["variant"] = t.variant
      /\ t["revision"] = t.revision
  OBVIOUS
<1>4. {"board", "variant", "revision", "app"} = Axes
  BY DEF Axes
<1>5. /\ t.board = None \/ Dash \notin ToSet(t.board)
      /\ t.app = None \/ Dash \notin ToSet(t.app)
      /\ t.variant = None \/ Dash \notin ToSet(t.variant)
      /\ t.revision = None \/ Dash \notin ToSet(t.revision)
  BY <1>3, <1>4 DEF Plain, Dash
<1>6. QED
  BY <1>1, <1>2, <1>5 DEF IsTarget, Or

\* The name tells the target's axes and the snippets, in their order.
LEMMA NameTells ==
  ASSUME None \notin Name, NEW t, NEW u, IsTarget(t), IsTarget(u),
         NEW s \in Seq(Name), NEW q \in Seq(Name), Plain(t, s), Plain(u, q), Told(t, s) = Told(u, q)
  PROVE  (\A a \in Axes : t[a] = u[a]) /\ s = q
<1> DEFINE b == t.board
           p == t.app
           d == u.board
           x == u.app
           v == Or(t.variant, Default)
           r == Or(t.revision, NoSnippets)
           w == Or(u.variant, Default)
           z == Or(u.revision, NoSnippets)
           o == JoinedBy(Underscore, s)
           y == JoinedBy(Underscore, q)
<1>1. /\ b \in Name /\ v \in Name /\ r \in Name /\ p \in Name
      /\ d \in Name /\ w \in Name /\ z \in Name /\ x \in Name
  BY NamesOfTarget
<1>2. /\ Free(Dash, b) /\ Free(Dash, v) /\ Free(Dash, r) /\ Free(Dash, p)
      /\ Free(Dash, d) /\ Free(Dash, w) /\ Free(Dash, z) /\ Free(Dash, x)
  BY FreeOfDashes
<1>3. (s # <<>> => o \in Name) /\ (q # <<>> => y \in Name)
  BY JoinedIsName, Separators
<1>4. /\ s = <<>> => Told(t, s) = Four(Dash, b, v, r, p)
      /\ s # <<>> => Told(t, s) = Four(Dash, b, v, r, Pair(p, Dash, o))
  BY ToldBare, ToldWithSnippets DEF Five
<1>5. /\ q = <<>> => Told(u, q) = Four(Dash, d, w, z, x)
      /\ q # <<>> => Told(u, q) = Four(Dash, d, w, z, Pair(x, Dash, y))
  BY ToldBare, ToldWithSnippets DEF Five
<1>6. (s # <<>> => Pair(p, Dash, o) \in Name) /\ (q # <<>> => Pair(x, Dash, y) \in Name)
  BY <1>1, <1>3, PairIs, Separators
<1>7. \A i \in 1..Len(s) : Free(Underscore, s[i])
  <2>1. ASSUME NEW i \in 1..Len(s) PROVE Free(Underscore, s[i])
    <3>1. s[i] \in Name /\ s[i] \in ToSet(s)
      BY ElementOfSeq DEF ToSet
    <3>2. Underscore \notin ToSet(s[i])
      BY <3>1 DEF Plain, Underscore
    <3>3. QED
      BY <3>1, <3>2, IsFree
  <2>2. QED
    BY <2>1
<1>8. \A i \in 1..Len(q) : Free(Underscore, q[i])
  <2>1. ASSUME NEW i \in 1..Len(q) PROVE Free(Underscore, q[i])
    <3>1. q[i] \in Name /\ q[i] \in ToSet(q)
      BY ElementOfSeq DEF ToSet
    <3>2. Underscore \notin ToSet(q[i])
      BY <3>1 DEF Plain, Underscore
    <3>3. QED
      BY <3>1, <3>2, IsFree
  <2>2. QED
    BY <2>1
<1> HIDE DEF b, p, d, x, v, r, w, z
<1>9. b = d /\ v = w /\ r = z /\ p = x /\ s = q
  <2> HIDE DEF o, y
  <2>1. CASE s = <<>> /\ q = <<>>
    <3> DEFINE f == <<b, v, r, p>>
               g == <<d, w, z, x>>
    <3>1. Four(Dash, b, v, r, p) = Four(Dash, d, w, z, x)
      BY <1>4, <1>5, <2>1
    <3>2. p \in Name /\ x \in Name
      BY <1>1, <1>6, <2>1
    <3>3. /\ f[1] = b /\ f[2] = v /\ f[3] = r /\ f[4] = p
          /\ g[1] = d /\ g[2] = w /\ g[3] = z /\ g[4] = x
      OBVIOUS
    <3> HIDE DEF f, g
    <3>4. WithDashes(f) = WithDashes(g)
      BY <3>1, <3>3 DEF WithDashes
    <3>5. (\A i \in 1..4 : f[i] \in Name /\ g[i] \in Name) /\ \A i \in 1..3 : Free(Dash, f[i]) /\ Free(Dash, g[i])
      BY <1>1, <1>2, <3>2, <3>3
    <3>6. \A i \in 1..4 : f[i] = g[i]
      BY <3>4, <3>5, PartsTell
    <3>7. QED
      BY <2>1, <3>3, <3>6
  <2>2. CASE s = <<>> /\ q # <<>>
    <3>1. p = Pair(x, Dash, y)
      <4> DEFINE f == <<b, v, r, p>>
                 g == <<d, w, z, Pair(x, Dash, y)>>
      <4>1. Four(Dash, b, v, r, p) = Four(Dash, d, w, z, Pair(x, Dash, y))
        BY <1>4, <1>5, <2>2
      <4>2. p \in Name /\ Pair(x, Dash, y) \in Name
        BY <1>1, <1>6, <2>2
      <4>3. /\ f[1] = b /\ f[2] = v /\ f[3] = r /\ f[4] = p
            /\ g[1] = d /\ g[2] = w /\ g[3] = z /\ g[4] = Pair(x, Dash, y)
        OBVIOUS
      <4> HIDE DEF f, g
      <4>4. WithDashes(f) = WithDashes(g)
        BY <4>1, <4>3 DEF WithDashes
      <4>5. (\A i \in 1..4 : f[i] \in Name /\ g[i] \in Name) /\ \A i \in 1..3 : Free(Dash, f[i]) /\ Free(Dash, g[i])
        BY <1>1, <1>2, <4>2, <4>3
      <4>6. \A i \in 1..4 : f[i] = g[i]
        BY <4>4, <4>5, PartsTell
      <4>7. QED
        BY <2>2, <4>3, <4>6
    <3>2. QED
      BY <1>1, <1>2, <1>3, <2>2, <3>1, OneIsNotTwo, Separators
  <2>3. CASE s # <<>> /\ q = <<>>
    <3>1. x = Pair(p, Dash, o)
      <4> DEFINE f == <<b, v, r, Pair(p, Dash, o)>>
                 g == <<d, w, z, x>>
      <4>1. Four(Dash, b, v, r, Pair(p, Dash, o)) = Four(Dash, d, w, z, x)
        BY <1>4, <1>5, <2>3
      <4>2. Pair(p, Dash, o) \in Name /\ x \in Name
        BY <1>1, <1>6, <2>3
      <4>3. /\ f[1] = b /\ f[2] = v /\ f[3] = r /\ f[4] = Pair(p, Dash, o)
            /\ g[1] = d /\ g[2] = w /\ g[3] = z /\ g[4] = x
        OBVIOUS
      <4> HIDE DEF f, g
      <4>4. WithDashes(f) = WithDashes(g)
        BY <4>1, <4>3 DEF WithDashes
      <4>5. (\A i \in 1..4 : f[i] \in Name /\ g[i] \in Name) /\ \A i \in 1..3 : Free(Dash, f[i]) /\ Free(Dash, g[i])
        BY <1>1, <1>2, <4>2, <4>3
      <4>6. \A i \in 1..4 : f[i] = g[i]
        BY <4>4, <4>5, PartsTell
      <4>7. QED
        BY <2>3, <4>3, <4>6
    <3>2. QED
      BY <1>1, <1>2, <1>3, <2>3, <3>1, OneIsNotTwo, Separators
  <2>4. CASE s # <<>> /\ q # <<>>
    <3>1. /\ b = d /\ v = w /\ r = z
          /\ Pair(p, Dash, o) = Pair(x, Dash, y)
      <4> DEFINE f == <<b, v, r, Pair(p, Dash, o)>>
                 g == <<d, w, z, Pair(x, Dash, y)>>
      <4>1. Four(Dash, b, v, r, Pair(p, Dash, o)) = Four(Dash, d, w, z, Pair(x, Dash, y))
        BY <1>4, <1>5, <2>4
      <4>2. Pair(p, Dash, o) \in Name /\ Pair(x, Dash, y) \in Name
        BY <1>1, <1>6, <2>4
      <4>3. /\ f[1] = b /\ f[2] = v /\ f[3] = r /\ f[4] = Pair(p, Dash, o)
            /\ g[1] = d /\ g[2] = w /\ g[3] = z /\ g[4] = Pair(x, Dash, y)
        OBVIOUS
      <4> HIDE DEF f, g
      <4>4. WithDashes(f) = WithDashes(g)
        BY <4>1, <4>3 DEF WithDashes
      <4>5. (\A i \in 1..4 : f[i] \in Name /\ g[i] \in Name) /\ \A i \in 1..3 : Free(Dash, f[i]) /\ Free(Dash, g[i])
        BY <1>1, <1>2, <4>2, <4>3
      <4>6. \A i \in 1..4 : f[i] = g[i]
        BY <4>4, <4>5, PartsTell
      <4>7. QED
        BY <2>4, <4>3, <4>6
    <3>2. p = x /\ o = y
      BY <1>1, <1>2, <1>3, <2>4, <3>1, FirstSplits, Separators
    <3>3. s = q
      BY <1>7, <1>8, <2>4, <3>2, JoinedOnce, Separators DEF o, y
    <3>4. QED
      BY <3>1, <3>2, <3>3
  <2>5. QED
    BY <2>1, <2>2, <2>3, <2>4
<1>10. t.variant = u.variant /\ t.revision = u.revision
  BY <1>9 DEF v, w, r, z, Or, IsTarget, Plain
<1>11. QED
  BY <1>9, <1>10 DEF Axes, b, p, d, x

-----------------------------------------------------------------------------
(* Deduped is a sequence of names *)

Dedups(upTo, names) ==
  /\ upTo[0] = <<>>
  /\ \A i \in 1..Len(names) :
       upTo[i] = IF names[i] \in ToSet(upTo[i - 1]) THEN upTo[i - 1] ELSE Append(upTo[i - 1], names[i])

LEMMA DedupedSteps ==
  ASSUME NEW names, Len(names) \in Nat
  PROVE  \E upTo : Dedups(upTo, names) /\ Deduped(names) = upTo[Len(names)]
<1> DEFINE N == Len(names)
           Then(f, i) == IF names[i] \in ToSet(f[i - 1]) THEN f[i - 1] ELSE Append(f[i - 1], names[i])
           Eq(f, n) == f = [i \in 0..n |->
                              IF i = 0 THEN <<>>
                              ELSE IF names[i] \in ToSet(f[i - 1]) THEN f[i - 1]
                                   ELSE Append(f[i - 1], names[i])]
           Bad == {n \in 0..N : ~ \E f : Eq(f, n)}
<1>1. Bad = {}
  <2> SUFFICES ASSUME Bad # {} PROVE FALSE
    OBVIOUS
  <2>1. PICK n \in Bad : \A m \in Bad : n <= m
    <3>1. Bad \in SUBSET Nat
      <4> HIDE DEF Eq
      <4>1. QED
        OBVIOUS
    <3> HIDE DEF Bad
    <3>2. QED
      BY <3>1, LeastOf
  <2>2. CASE n = 0
    <3> DEFINE f == [i \in 0..0 |-> <<>>]
    <3>1. Eq(f, 0)
      OBVIOUS
    <3>2. QED
      BY <2>1, <2>2, <3>1
  <2>3. CASE n # 0
    <3>1. n - 1 \in 0..N /\ n - 1 \notin Bad /\ n \in Nat /\ n - 1 \in Nat
      <4>1. n \in 0..N
        OBVIOUS
      <4> HIDE DEF Bad
      <4>2. QED
        BY <2>1, <2>3, <4>1
    <3>2. PICK f : Eq(f, n - 1)
      <4> HIDE DEF Eq
      <4>1. QED
        BY <3>1
    <3> DEFINE x == Then(f, n)
               g == [i \in 0..n |-> IF i = n THEN x ELSE f[i]]
    <3>3. \A i \in 0..n - 1 : f[i] = IF i = 0 THEN <<>> ELSE Then(f, i)
      BY <3>1, <3>2
    <3>4. DOMAIN g = 0..n /\ g = [i \in 0..n |-> g[i]]
      OBVIOUS
    <3>5. g[n] = x /\ \A i \in 0..n - 1 : g[i] = f[i]
      <4> HIDE DEF x
      <4>1. QED
        BY <3>1
    <3> HIDE DEF g
    <3>6. g[n] = Then(g, n)
      <4>1. n - 1 \in 0..n - 1
        BY <2>3, <3>1
      <4>2. g[n - 1] = f[n - 1]
        BY <3>5, <4>1
      <4>3. QED
        BY <3>5, <4>2, Zenon
    <3>7. ASSUME NEW i \in 0..n - 1 PROVE g[i] = IF i = 0 THEN <<>> ELSE Then(g, i)
      <4>1. i # 0 => i - 1 \in 0..n - 1
        BY <3>1
      <4>2. i # 0 => g[i - 1] = f[i - 1]
        BY <3>5, <4>1
      <4>3. g[i] = IF i = 0 THEN <<>> ELSE Then(f, i)
        <5> HIDE DEF Then
        <5>1. QED
          BY <3>3, <3>5
      <4>4. QED
        BY <4>2, <4>3, Zenon
    <3>8. \A i \in 0..n : i = n \/ i \in 0..n - 1
      BY <3>1
    <3>9. \A i \in 0..n : g[i] = IF i = 0 THEN <<>> ELSE Then(g, i)
      <4> HIDE DEF Then
      <4>1. QED
        BY <2>3, <3>6, <3>7, <3>8
    <3>10. Eq(g, n)
      BY <3>4, <3>9, Zenon
    <3>11. QED
      BY <2>1, <3>10
  <2>4. QED
    BY <2>2, <2>3
<1>2. \E f : Eq(f, N)
  <2>1. N \in 0..N
    OBVIOUS
  <2> HIDE DEF Eq
  <2>2. QED
    BY <1>1, <2>1
<1> DEFINE F == CHOOSE f : Eq(f, N)
<1>3. Eq(F, N)
  BY <1>2
<1>4. Deduped(names) = F[N]
  BY DEF Deduped
<1> HIDE DEF F
<1>5. \A i \in 0..N : F[i] = IF i = 0 THEN <<>> ELSE Then(F, i)
  BY <1>3
<1>6. Dedups(F, names)
  <2>1. F[0] = <<>>
    BY <1>5
  <2>2. \A i \in 1..N : i \in 0..N /\ i # 0
    OBVIOUS
  <2>3. \A i \in 1..N : F[i] = Then(F, i)
    <3> HIDE DEF Then
    <3>1. QED
      BY <1>5, <2>2
  <2>4. QED
    BY <2>1, <2>3, Zenon DEF Dedups
<1>7. QED
  BY <1>4, <1>6

LEMMA DedupedIsSeq ==
  ASSUME NEW names \in Seq(Name) PROVE Deduped(names) \in Seq(Name)
<1>1. Len(names) \in Nat /\ \A i \in 1..Len(names) : names[i] \in Name
  BY LenProperties, ElementOfSeq
<1>2. PICK f : Dedups(f, names) /\ Deduped(names) = f[Len(names)]
  BY <1>1, DedupedSteps
<1> DEFINE Bad == {i \in 0..Len(names) : f[i] \notin Seq(Name)}
<1>3. Bad = {}
  <2> SUFFICES ASSUME Bad # {} PROVE FALSE
    OBVIOUS
  <2>1. Bad \in SUBSET Nat
    BY <1>1
  <2>2. PICK i \in Bad : \A j \in Bad : i <= j
    <3> HIDE DEF Bad
    <3>1. QED
      BY <2>1, LeastOf
  <2>3. i \in 0..Len(names) /\ f[i] \notin Seq(Name)
    OBVIOUS
  <2>4. <<>> \in Seq(Name)
    BY EmptySeq
  <2>5. i # 0
    BY <1>2, <2>3, <2>4 DEF Dedups
  <2>6. i \in 1..Len(names) /\ i - 1 \in 0..Len(names) /\ ~ (i <= i - 1)
    BY <1>1, <2>3, <2>5
  <2>7. i - 1 \notin Bad
    <3> HIDE DEF Bad
    <3>1. QED
      BY <2>2, <2>6
  <2>8. f[i - 1] \in Seq(Name)
    BY <2>6, <2>7
  <2>9. f[i] = f[i - 1] \/ f[i] = Append(f[i - 1], names[i])
    BY <1>2, <2>6 DEF Dedups
  <2>10. Append(f[i - 1], names[i]) \in Seq(Name)
    BY <1>1, <2>6, <2>8, AppendProperties
  <2>11. QED
    BY <2>3, <2>8, <2>9, <2>10
<1>4. Len(names) \in 0..Len(names)
  BY <1>1
<1>5. f[Len(names)] \in Seq(Name)
  BY <1>3, <1>4
<1>6. QED
  BY <1>2, <1>5

-----------------------------------------------------------------------------
(* The invariant *)

TInv ==
  /\ boards \subseteq BoardFiles /\ IsFiniteSet(boards)
  /\ apps \in AppTrees
  /\ config \in Configs /\ ConfigIsValid(config)

LEMMA TInvHolds == Spec => []TInv
<1>1. Init => TInv
  BY FS_EmptySet DEF Init, TInv
<1>2. TInv /\ [Next]_vars => TInv'
  <2> SUFFICES ASSUME TInv, [Next]_vars PROVE TInv'
    OBVIOUS
  <2>1. ASSUME NEW b \in BoardFiles, Land(b) PROVE TInv'
    <3>1. {c \in boards : c.id # b.id} \in SUBSET boards
      OBVIOUS
    <3>2. IsFiniteSet({c \in boards : c.id # b.id} \cup {b})
      BY <3>1, FS_Subset, FS_AddElement DEF TInv
    <3>3. QED
      BY <2>1, <3>2 DEF Land, TInv
  <2>2. CASE MoveApps
    BY <2>2 DEF MoveApps, TInv
  <2>3. ASSUME NEW p, NEW sel, Call(p, sel) PROVE TInv'
    BY <2>3 DEF Call, TInv
  <2>4. CASE UNCHANGED vars
    BY <2>4 DEF vars, TInv
  <2>5. QED
    BY <2>1, <2>2, <2>3, <2>4 DEF Next
<1>3. QED
  BY <1>1, <1>2, PTL DEF Spec

LEMMA ScanIsFinite == ASSUME TInv PROVE IsFiniteSet(Backed(boards, apps))
<1>1. (\A b \in boards : BoardIsFinite(b)) /\ TreesAreFinite(apps)
  BY TargetsAssumption DEF TInv, BoardIsFinite, TreesAreFinite
<1>2. QED
  BY <1>1, BackedIsFinite DEF TInv

LEMMA HonouredInv == TInv => SelectionIsHonoured
<1> SUFFICES ASSUME TInv, NEW i \in DOMAIN config, NEW sel \in Selections,
                    ~ Failed(Resolve(boards, apps, config[i], sel))
             PROVE  LET p      == config[i]
                        r      == Resolve(boards, apps, p, sel)
                        wanted == IF ToSet(sel.snippets) = {NoSnippets} THEN <<>>
                                  ELSE Deduped(IF sel.snippets = <<>> THEN p.default_snippets
                                               ELSE sel.snippets)
                        args   == IF sel.extra_args = <<>> THEN p.default_extra_args ELSE sel.extra_args
                        pinned == {a \in Axes : Or(sel[a], p.default_target[a]) # None}
                        Fits(target) == \A a \in pinned : target[a] = Or(sel[a], p.default_target[a])
                    IN  IF p.discovery = "static"
                        THEN /\ r.command # None /\ pinned = {} /\ args = <<>>
                             /\ sel.snippets = <<>> /\ p.default_snippets = <<>>
                        ELSE /\ Fits(r.target)
                             /\ \A row \in Backed(boards, apps) : Fits(row.target) => row.target = r.target
                             /\ r.command.snippets = wanted /\ r.command.args = args
  BY DEF SelectionIsHonoured
<1> DEFINE p == config[i]
           r == Resolve(boards, apps, p, sel)
<1>1. CASE p.discovery = "static"
  <2>1. StaticIsValid(p) /\ (~ p.has_default_target => p.default_target = NoTarget)
    BY <1>1, TargetsAssumption DEF TInv, ConfigIsValid
  <2>2. FieldsGiven(sel) = {}
    BY <1>1 DEF Resolve, Failed
  <2>3. (\A a \in Axes : sel[a] = None) /\ sel.snippets = <<>> /\ sel.extra_args = <<>>
    BY <2>2 DEF FieldsGiven
  <2>4. r.command = p.build_command
    BY <1>1, <2>2 DEF Resolve
  <2>5. \A a \in Axes : Or(sel[a], p.default_target[a]) = None
    BY <2>1, <2>3 DEF StaticIsValid, NoTarget, Or
  <2>6. QED
    BY <1>1, <2>1, <2>3, <2>4, <2>5 DEF StaticIsValid
<1>2. CASE p.discovery # "static"
  <2> DEFINE rows == Backed(boards, apps)
             asked == Effective(p.default_target, sel)
  <2>1. r = ResolveZephyr(boards, apps, p, sel) /\ ~ Failed(ResolveZephyr(boards, apps, p, sel))
    BY <1>2 DEF Resolve
  <2>2. PICK row \in rows : /\ Matching(rows, asked) = {row}
                            /\ ~ Failed(SnippetsOf(apps, p, sel, row.target))
                            /\ r = BuildOf(apps, p, sel, row.target)
    <3> HIDE DEF p
    <3>1. QED
      BY <2>1, ScanIsFinite, ResolvedBuild
  <2>3. /\ r.target = row.target /\ r.command.args = ArgsOf(p, sel)
        /\ r.command.snippets = SnippetsOf(apps, p, sel, row.target).snippets
    BY <2>2 DEF BuildOf
  <2>4. r.command.snippets = IF ToSet(sel.snippets) = {NoSnippets} THEN <<>>
          ELSE Deduped(IF sel.snippets = <<>> THEN p.default_snippets ELSE sel.snippets)
    BY <2>2, <2>3, SnippetsAsAsked DEF SnippetsOf
  <2>5. \A a \in Axes : asked[a] = Or(sel[a], p.default_target[a])
    BY DEF Effective
  <2>6. \A x \in rows : x \in Matching(rows, asked) <=>
          \A a \in Axes : asked[a] # None => x.target[a] = asked[a]
    BY DEF Matching, Agrees
  <2> HIDE DEF rows, asked, r, p
  <2>7. \A a \in Axes : asked[a] # None => r.target[a] = asked[a]
    BY <2>2, <2>6, <2>3
  <2>8. \A x \in rows : (\A a \in Axes : asked[a] # None => x.target[a] = asked[a])
          => x.target = r.target
    BY <2>2, <2>6, <2>3
  <2>9. QED
    BY <1>2, <2>3, <2>4, <2>5, <2>7, <2>8 DEF ArgsOf, r, p, rows
<1>3. QED
  BY <1>1, <1>2

\* A pinned board keeps the rows that agree as they are.
LEMMA GrowthInv == TInv => GrowthIsANonEvent
<1> SUFFICES ASSUME TInv, NEW i \in DOMAIN config, NEW sel \in Selections, NEW b \in BoardFiles,
                    config[i].default_target["board"] # None,
                    sel["board"] \in {None, config[i].default_target["board"]},
                    b.name # config[i].default_target["board"], \A c \in boards : c.id # b.id,
                    ~ Failed(Resolve(boards, apps, config[i], sel))
             PROVE  Resolve(boards \cup {b}, apps, config[i], sel) = Resolve(boards, apps, config[i], sel)
  BY DEF GrowthIsANonEvent
<1> DEFINE p == config[i]
           asked == Effective(p.default_target, sel)
           rows == Backed(boards, apps)
           more == Backed(boards \cup {b}, apps)
<1>1. CASE p.discovery = "static"
  BY <1>1 DEF Resolve
<1>2. CASE p.discovery # "static"
  <2>1. /\ Resolve(boards, apps, p, sel) = ResolveZephyr(boards, apps, p, sel)
        /\ Resolve(boards \cup {b}, apps, p, sel) = ResolveZephyr(boards \cup {b}, apps, p, sel)
        /\ ~ Failed(ResolveZephyr(boards, apps, p, sel))
    BY <1>2 DEF Resolve
  <2>2. asked["board"] = p.default_target["board"]
    BY DEF Effective, Or, Axes
  <2>3. ASSUME NEW x, Agrees(x.target, asked) PROVE x.target.board # b.name
    BY <2>2, <2>3 DEF Agrees, Axes
  <2>4. Matching(more, asked) = Matching(rows, asked)
    <3>1. ASSUME NEW x PROVE x \in Matching(more, asked) <=> x \in Matching(rows, asked)
      <4> HIDE DEF asked
      <4>1. CASE Agrees(x.target, asked)
        BY <2>3, <4>1, GrowthAddsNoRow DEF Matching
      <4>2. CASE ~ Agrees(x.target, asked)
        BY <4>2 DEF Matching
      <4>3. QED
        BY <4>1, <4>2
    <3> HIDE DEF more, rows, asked
    <3>2. QED
      BY <3>1
  <2>5. Select(more, asked) = Select(rows, asked)
    BY <2>4 DEF Select
  <2>6. PICK row \in rows : Matching(rows, asked) = {row}
    <3> HIDE DEF p
    <3>1. QED
      BY <2>1, ScanIsFinite, ResolvedBuild
  <2>7. ScanError(boards, apps) = None /\ ScanError(boards \cup {b}, apps) = None
    <3>1. row \in more
      BY <2>4, <2>6 DEF Matching
    <3>2. QED
      BY <2>6, <3>1, RowsMeanNoScanError
  <2>8. ResolveZephyr(boards \cup {b}, apps, p, sel) = ResolveZephyr(boards, apps, p, sel)
    BY <2>5, <2>7 DEF ResolveZephyr
  <2>9. QED
    BY <2>1, <2>8
<1>3. QED
  BY <1>1, <1>2

\* A call that names a row's target, of a project without a default_target, selects a row
\* of that target or none at all.
LEMMA ListingInv == TInv => ListTellsTheBareBuild
<1> DEFINE bare(t) == [board |-> t.board, variant |-> t.variant, revision |-> t.revision,
                       app |-> t.app, snippets |-> <<>>, extra_args |-> <<>>]
<1> SUFFICES ASSUME TInv, NEW i \in DOMAIN config, config[i].discovery # "static",
                    NEW listed \in Listed(boards, apps, config[i])
             PROVE  LET p == config[i]
                        t == listed.target
                        r == Resolve(boards, apps, [p EXCEPT !.default_target = NoTarget], bare(t))
                    IN  IF Failed(r) THEN listed.dir = None \/ r.error = "Ambiguous"
                        ELSE r.target = t => r.dir = <<p.build_dir_root, listed.dir>>
  BY DEF ListTellsTheBareBuild
<1> DEFINE p == config[i]
           q == [p EXCEPT !.default_target = NoTarget]
           t == listed.target
           sel == bare(t)
           rows == Backed(boards, apps)
           r == Resolve(boards, apps, q, sel)
           asked == Effective(q.default_target, sel)
           snippets == ResolveSnippets(<<>>, p.default_snippets, AvailableSnippets(apps, t.app))
<1>1. /\ q.name = p.name /\ q.discovery = p.discovery /\ q.build_dir_root = p.build_dir_root
      /\ q.default_target = NoTarget
      /\ q.default_snippets = p.default_snippets /\ q.default_extra_args = p.default_extra_args
  <2>1. {"name", "discovery", "build_dir_root", "default_target", "default_snippets",
         "default_extra_args"} \subseteq DOMAIN p
    BY TargetsAssumption DEF TInv
  <2> HIDE DEF p
  <2>2. QED
    BY <2>1
<1>2. PICK row \in rows :
        /\ row.target = t
        /\ listed.dir = IF Failed(snippets) THEN None
                        ELSE BuildDirName(t, snippets.snippets, p.default_extra_args)
  BY DEF Listed
<1>3. ScanError(boards, apps) = None
  BY RowsMeanNoScanError
<1>4. SnippetsOf(apps, q, sel, t) = snippets /\ ArgsOf(q, sel) = p.default_extra_args
  <2> HIDE DEF q, p
  <2>1. QED
    BY <1>1 DEF SnippetsOf, ArgsOf
<1>5. r = ResolveZephyr(boards, apps, q, sel)
  <2> HIDE DEF q
  <2>1. QED
    BY <1>1 DEF Resolve
\* The row agrees with the call.
<1>6. row \in Matching(rows, asked)
  <2>1. \A a \in Axes : asked[a] # None => asked[a] = sel[a]
    <3> HIDE DEF q, sel
    <3>1. QED
      BY <1>1 DEF Effective, NoTarget, Or
  <2>2. \A a \in Axes : sel[a] = t[a]
    <3> HIDE DEF t
    <3>1. QED
      BY DEF Axes
  <2>3. Agrees(row.target, asked)
    <3> HIDE DEF asked, sel, t
    <3>1. QED
      BY <1>2, <2>1, <2>2 DEF Agrees
  <2>4. QED
    BY <2>3 DEF Matching
<1>7. CASE Select(rows, asked) = [error |-> "Ambiguous"]
  <2>1. r = [error |-> "Ambiguous"]
    <3> HIDE DEF q, sel
    <3>1. QED
      BY <1>3, <1>5, <1>7 DEF ResolveZephyr, Failed
  <2>2. QED
    BY <2>1 DEF Failed
<1>8. CASE Select(rows, asked) = [target |-> t]
  <2>1. r = IF Failed(snippets) THEN snippets ELSE BuildOf(apps, q, sel, t)
    <3> HIDE DEF q, sel, snippets, t
    <3>1. QED
      BY <1>3, <1>4, <1>5, <1>8, ResolvesTo
  <2>2. CASE Failed(snippets)
    BY <1>2, <2>1, <2>2
  <2>3. CASE ~ Failed(snippets)
    <3>1. /\ ~ Failed(BuildOf(apps, q, sel, t))
          /\ BuildOf(apps, q, sel, t).dir = <<q.build_dir_root, DirOf(apps, q, sel, t)>>
      BY DEF BuildOf, Failed
    <3>2. DirOf(apps, q, sel, t) = listed.dir
      <4> HIDE DEF q, sel, snippets, t, p
      <4>1. QED
        BY <1>2, <1>4, <2>3 DEF DirOf
    <3>3. ~ Failed(r) /\ r.dir = <<p.build_dir_root, listed.dir>>
      <4> HIDE DEF q, r, p, sel, snippets, t
      <4>1. QED
        BY <1>1, <2>1, <2>3, <3>1, <3>2
    <3>4. QED
      BY <3>3
  <2>4. QED
    BY <2>2, <2>3
<1>9. QED
  <2>1. \/ Select(rows, asked) = [error |-> "Ambiguous"]
        \/ \E x \in rows : Matching(rows, asked) = {x} /\ Select(rows, asked) = [target |-> x.target]
    <3> HIDE DEF asked
    <3>1. QED
      BY <1>6, ScanIsFinite, SelectsTheOne
  <2>2. Select(rows, asked) \in {[error |-> "Ambiguous"], [target |-> t]}
    <3> HIDE DEF asked, rows
    <3>1. QED
      BY <1>2, <1>6, <2>1
  <2>3. QED
    BY <1>7, <1>8, <2>2

-----------------------------------------------------------------------------
(* The builds that calls have resolved to *)

\* What p keeps of the project it is of.
BuiltOf(c, p) ==
  \/ /\ c.discovery = "static"
     /\ p.target = None /\ p.lock_key = <<c.name>> /\ p.dir = <<c.build_dir>>
  \/ /\ c.discovery # "static"
     /\ p.target # None /\ IsTarget(p.target) /\ p.command.snippets \in Seq(Name)
     /\ p.lock_key = <<c.name, BuildDirName(p.target, p.command.snippets, p.command.args)>>
     /\ p.dir = <<c.build_dir_root, BuildDirName(p.target, p.command.snippets, p.command.args)>>

PlansAreBuilt == \A p \in plans : \E i \in DOMAIN config : BuiltOf(config[i], p)

\* A variant that is called "default" is none.
LEMMA RowsAreTargets ==
  ASSUME TInv, NEW r \in Backed(boards, apps) PROVE r.target # None /\ IsTarget(r.target)
<1>1. r \in Rows(boards, apps)
  BY BackedIsOfRows
<1>2. PICK b \in boards : \E i \in DOMAIN b.socs :
        \E c \in Survivors(b, b.socs[i]), rev \in CandidateRevisions(b), app \in ScanApps(apps) :
          r = [id |-> <<b.id, i, c.id>>,
               target |-> [board |-> b.name, soc |-> b.socs[i].name, cluster |-> c.cluster,
                           variant |-> c.name, revision |-> rev, app |-> app]]
  BY <1>1, RowsOfBoards
<1>3. PICK i \in DOMAIN b.socs :
        \E c \in Survivors(b, b.socs[i]), rev \in CandidateRevisions(b), app \in ScanApps(apps) :
          r = [id |-> <<b.id, i, c.id>>,
               target |-> [board |-> b.name, soc |-> b.socs[i].name, cluster |-> c.cluster,
                           variant |-> c.name, revision |-> rev, app |-> app]]
  BY <1>2
<1>4. b \in BoardFiles /\ apps \in AppTrees
  BY DEF TInv
<1>5. r \in Rows(BoardFiles, apps)
  BY <1>3, <1>4, RowsOfBoards
<1>6. /\ r.target # None
      /\ {r.target.board, r.target.app} \subseteq Name
      /\ {r.target.variant, r.target.revision} \subseteq Name \cup {None}
  BY <1>4, <1>5, NamesAssumption DEF Name
<1>7. PICK c \in Survivors(b, b.socs[i]) : r.target.variant = c.name
  BY <1>3
<1>8. None # Default
  <2>1. Default \in Name
    BY Separators DEF Default, Name
  <2>2. None \notin Name
    BY NamesAssumption DEF Name
  <2>3. QED
    BY <2>1, <2>2
<1>9. c.name # Default
  BY <1>8 DEF Survivors, Candidates, Named, Bare
<1>10. QED
  BY <1>6, <1>7, <1>9 DEF IsTarget

LEMMA ResolvedIsBuilt ==
  ASSUME TInv, NEW i \in DOMAIN config, NEW sel \in Selections,
         ~ Failed(Resolve(boards, apps, config[i], sel))
  PROVE  BuiltOf(config[i], Resolve(boards, apps, config[i], sel))
<1> DEFINE c == config[i]
           r == Resolve(boards, apps, c, sel)
<1>1. CASE c.discovery = "static"
  BY <1>1 DEF BuiltOf, Resolve, Failed
<1>2. CASE c.discovery # "static"
  <2>1. r = ResolveZephyr(boards, apps, c, sel) /\ ~ Failed(ResolveZephyr(boards, apps, c, sel))
    BY <1>2 DEF Resolve
  <2>2. PICK row \in Backed(boards, apps) : /\ ~ Failed(SnippetsOf(apps, c, sel, row.target))
                                            /\ r = BuildOf(apps, c, sel, row.target)
    <3> HIDE DEF c
    <3>1. QED
      BY <2>1, ScanIsFinite, ResolvedBuild
  <2> DEFINE t == row.target
             s == SnippetsOf(apps, c, sel, t).snippets
  <2>3. t # None /\ IsTarget(t)
    BY RowsAreTargets
  <2>4. s = IF ToSet(sel.snippets) = {NoSnippets} THEN <<>>
            ELSE Deduped(IF sel.snippets = <<>> THEN c.default_snippets ELSE sel.snippets)
    BY <2>2, SnippetsAsAsked DEF SnippetsOf
  <2>5. sel.snippets \in Seq(Name) /\ c.default_snippets \in Seq(Name)
    BY NamesAssumption DEF TInv, Name
  <2>6. s \in Seq(Name)
    <3> HIDE DEF s, c
    <3>1. <<>> \in Seq(Name)
      BY EmptySeq
    <3>2. QED
      BY <2>4, <2>5, <3>1, DedupedIsSeq
  <2>7. /\ r.target = t /\ r.command.snippets = s /\ r.command.args = ArgsOf(c, sel)
        /\ r.lock_key = <<c.name, BuildDirName(t, s, ArgsOf(c, sel))>>
        /\ r.dir = <<c.build_dir_root, BuildDirName(t, s, ArgsOf(c, sel))>>
    BY <2>2 DEF BuildOf, DirOf
  <2> HIDE DEF r, t, s, c
  <2>8. BuiltOf(c, r)
    BY <1>2, <2>3, <2>6, <2>7 DEF BuiltOf
  <2>9. QED
    BY <2>8 DEF r, c
<1>3. QED
  BY <1>1, <1>2

LEMMA PlansHold == Spec => []PlansAreBuilt
<1>1. Init => PlansAreBuilt
  BY DEF Init, PlansAreBuilt
<1>2. TInv /\ PlansAreBuilt /\ [Next]_vars => PlansAreBuilt'
  <2> SUFFICES ASSUME TInv, PlansAreBuilt, [Next]_vars PROVE PlansAreBuilt'
    OBVIOUS
  <2>1. ASSUME UNCHANGED <<config, plans>> PROVE PlansAreBuilt'
    BY <2>1 DEF PlansAreBuilt
  <2>2. ASSUME NEW i \in DOMAIN config, NEW sel \in Selections, Call(config[i], sel)
        PROVE  PlansAreBuilt'
    <3> DEFINE r == Resolve(boards, apps, config[i], sel)
    <3>1. plans' = plans \cup {r} /\ config' = config /\ ~ Failed(r)
      BY <2>2 DEF Call
    <3>2. BuiltOf(config[i], r)
      BY <3>1, ResolvedIsBuilt
    <3> HIDE DEF r
    <3>3. QED
      BY <3>1, <3>2 DEF PlansAreBuilt
  <2>3. QED
    BY <2>1, <2>2 DEF Next, Land, MoveApps, vars
<1>3. QED
  BY <1>1, <1>2, TInvHolds, PTL DEF Spec

LEMMA NoSharedInv == PlansAreBuilt => NoSharedBuildDir
<1> SUFFICES ASSUME PlansAreBuilt, RootsAreOwn, NEW p \in plans, NEW q \in plans,
                    Joinable(p), Joinable(q), p.dir = q.dir
             PROVE  OneBuild(p, q)
  BY DEF NoSharedBuildDir
<1>1. PICK i \in DOMAIN config : BuiltOf(config[i], p)
  BY DEF PlansAreBuilt
<1>2. PICK j \in DOMAIN config : BuiltOf(config[j], q)
  BY DEF PlansAreBuilt
<1> DEFINE D(x) == BuildDirName(x.target, x.command.snippets, x.command.args)
<1> HIDE DEF D
<1>3. CASE config[i].discovery = "static" /\ config[j].discovery = "static"
  <2>1. /\ p.target = None /\ p.lock_key = <<config[i].name>> /\ p.dir = <<config[i].build_dir>>
        /\ q.target = None /\ q.lock_key = <<config[j].name>> /\ q.dir = <<config[j].build_dir>>
    BY <1>1, <1>2, <1>3 DEF BuiltOf
  <2>2. i = j
    BY <1>3, <2>1 DEF RootsAreOwn, RootOf
  <2>3. QED
    BY <2>1, <2>2 DEF OneBuild
<1>4. ASSUME NEW x, NEW y, NEW k, NEW l, BuiltOf(k, x), BuiltOf(l, y), x.dir = y.dir
      PROVE  k.discovery = "static" => l.discovery = "static"
  <2> SUFFICES ASSUME k.discovery = "static", l.discovery # "static" PROVE FALSE
    OBVIOUS
  <2>1. x.dir = <<k.build_dir>> /\ y.dir = <<l.build_dir_root, D(y)>>
    BY <1>4 DEF BuiltOf, D
  <2>2. Len(x.dir) = 1 /\ Len(y.dir) = 2
    BY <2>1
  <2>3. QED
    BY <1>4, <2>2
<1>5. CASE config[i].discovery # "static" /\ config[j].discovery # "static"
  <2>1. /\ p.target # None /\ IsTarget(p.target) /\ p.command.snippets \in Seq(Name)
        /\ p.lock_key = <<config[i].name, D(p)>> /\ p.dir = <<config[i].build_dir_root, D(p)>>
    BY <1>1, <1>5 DEF BuiltOf, D
  <2>2. /\ q.target # None /\ IsTarget(q.target) /\ q.command.snippets \in Seq(Name)
        /\ q.lock_key = <<config[j].name, D(q)>> /\ q.dir = <<config[j].build_dir_root, D(q)>>
    BY <1>2, <1>5 DEF BuiltOf, D
  <2>3. config[i].build_dir_root = config[j].build_dir_root /\ D(p) = D(q)
    <3> DEFINE a == config[i].build_dir_root
               b == config[j].build_dir_root
               c == D(p)
               d == D(q)
    <3>1. <<a, c>> = <<b, d>>
      BY <2>1, <2>2, Zenon
    <3> HIDE DEF a, b, c, d
    <3>2. a = b /\ c = d
      BY <3>1
    <3>3. QED
      BY <3>2 DEF a, b, c, d
  <2>4. i = j
    BY <1>5, <2>3 DEF RootsAreOwn, RootOf
  <2>5. p.lock_key = q.lock_key
    BY <2>1, <2>2, <2>3, <2>4
  <2>6. p.command.args = q.command.args /\ D(p).name = D(q).name
    BY <2>3 DEF D, BuildDirName
  <2>7. D(p).name = Told(p.target, p.command.snippets) /\ D(q).name = Told(q.target, q.command.snippets)
    BY DEF D, Told, BuildDirName
  <2>8. Plain(p.target, p.command.snippets) /\ Plain(q.target, q.command.snippets)
    BY <2>1, <2>2 DEF Joinable, Plain
  <2>9. None \notin Name
    BY NamesAssumption DEF Name
  <2>10. (\A a \in Axes : p.target[a] = q.target[a]) /\ p.command.snippets = q.command.snippets
    <3> DEFINE t == p.target
               u == q.target
               s == p.command.snippets
               z == q.command.snippets
    <3>1. /\ IsTarget(t) /\ IsTarget(u) /\ s \in Seq(Name) /\ z \in Seq(Name)
          /\ Plain(t, s) /\ Plain(u, z) /\ Told(t, s) = Told(u, z)
      BY <2>1, <2>2, <2>6, <2>7, <2>8
    <3> HIDE DEF t, u, s, z
    <3>2. (\A a \in Axes : t[a] = u[a]) /\ s = z
      BY <2>9, <3>1, NameTells
    <3>3. QED
      BY <3>2 DEF t, u, s, z
  <2>11. QED
    BY <2>1, <2>2, <2>5, <2>6, <2>10 DEF OneBuild
<1>6. (config[i].discovery = "static") <=> (config[j].discovery = "static")
  BY <1>1, <1>2, <1>4
<1>7. QED
  BY <1>3, <1>5, <1>6

-----------------------------------------------------------------------------

\* "The repo growing is a non-event" (config.rs): in any repository, whatever landed in it
\* before, a call of a project that pins its board resolves to the same build after a
\* board of another name lands.
THEOREM GrowthChangesNoPinnedBuild == Spec => []GrowthIsANonEvent
  BY TInvHolds, GrowthInv, PTL

\* For any config, call and repository: a build is of every field that was named and every
\* default for the rest, its target is the only one that agrees with them, and a static
\* project builds nothing it was asked to vary.
THEOREM CallsGetWhatTheyName == Spec => []SelectionIsHonoured
  BY TInvHolds, HonouredInv, PTL

\* For any repository and config, list_targets tells each row the directory that a build
\* which names just its target writes to, or none if that build is refused.
THEOREM ListingTellsDirectories == Spec => []ListTellsTheBareBuild
  BY TInvHolds, ListingInv, PTL

\* For any names, configs, repositories and calls: what a directory is called tells the
\* board, the variant, the revision, the app, the snippets in their order and the
\* arguments of the builds in it, which one lock serialises, unless a name holds a
\* separator or two projects build in one place.
THEOREM DirectoriesTellBuilds == Spec => []NoSharedBuildDir
  BY PlansHold, NoSharedInv, PTL
==============================================================================
