------------------------------ MODULE MCTargets ------------------------------
(* One board of one SoC with two clusters and a named variant, which a second *)
(* version gains revisions; one of two SoCs; apps in app/ and apps/, one of    *)
(* which has the name of another with a snippet.                              *)
EXTENDS Targets

CONSTANTS west, chip, elf

MCWords == STRING

brd == <<"brd">>
duo == <<"duo">>
os  == <<"os">>
fw  == <<"fw">>
fwble == <<"fw", "-", "ble">>
ble == <<"ble">>
log == <<"log">>
soc(name, variants) == [name |-> name, variants |-> variants]
dts(s, c, v) == [soc |-> s, cluster |-> c, variant |-> v, rev |-> None]
ovl(s, c, v, r) == [soc |-> s, cluster |-> c, variant |-> v, rev |-> r]

MCBoardFiles == {
  [id |-> 1, name |-> brd, revisions |-> {}, default |-> None,
   socs |-> <<soc("n54", <<[name |-> os, cluster |-> "app"]>>)>>,
   files |-> {dts("n54", "app", os)}],
  [id |-> 1, name |-> brd, revisions |-> {<<"1">>, <<"2">>}, default |-> <<"2">>,
   socs |-> <<soc("n54", <<[name |-> os, cluster |-> "app"]>>)>>,
   files |-> {dts("n54", "app", os), dts(None, "app", None), ovl("n54", "app", os, <<"1">>),
              ovl(None, "app", os, <<"2">>)}],
  [id |-> 2, name |-> duo, revisions |-> {}, default |-> <<"1">>,
   socs |-> <<soc("g0", <<>>), soc("h5", <<[name |-> Default, cluster |-> "app"], [name |-> os, cluster |-> "app"]>>)>>,
   files |-> {dts("g0", None, None), dts("h5", "app", None), dts(None, "app", os)}],
  [id |-> 3, name |-> <<"new">>, revisions |-> {}, default |-> None,
   socs |-> <<soc("g0", <<>>)>>, files |-> {dts("g0", None, None)}]}

MCAppTrees == {
  <<>>,
  [d \in {"app"} |-> (fw :> {ble, log})],
  [d \in {"app", "apps"} |-> IF d = "app" THEN (fw :> {ble, log}) @@ (fwble :> {NoSnippets})
                                          ELSE (fw :> {ble, NoSnippets})]}

target(b, v, r, a) == [board |-> b, variant |-> v, revision |-> r, app |-> a]

Plain == [name |-> "w", discovery |-> "zephyr-west", build_command |-> None, chip |-> None,
          artifact_path |-> None, west_binary |-> west, build_dir_root |-> "out", build_dir |-> None,
          has_default_target |-> FALSE, default_target |-> NoTarget, default_snippets |-> <<>>,
          default_extra_args |-> <<>>, faults |-> {}]
Pinned  == [Plain EXCEPT !.has_default_target = TRUE, !.default_target = target(brd, None, None, fw),
                         !.default_snippets = <<log>>, !.default_extra_args = <<"p">>]
Static  == [Plain EXCEPT !.name = "s", !.discovery = "static", !.build_command = elf, !.chip = chip,
                         !.artifact_path = elf, !.west_binary = None, !.build_dir_root = None,
                         !.build_dir = "tree"]

MCConfigs == {
  <<Plain, Static>>, <<Pinned>>,
  <<Plain, Plain>>,
  <<[Static EXCEPT !.default_snippets = <<log>>]>>,
  <<[Static EXCEPT !.build_command = None]>>,
  <<[Plain EXCEPT !.faults = {"retired"}]>>,
  <<[Plain EXCEPT !.default_snippets = <<NoSnippets>>]>>}

call(t, s, x) == [board |-> t.board, variant |-> t.variant, revision |-> t.revision,
                  app |-> t.app, snippets |-> s, extra_args |-> x]

\* Axes in all combinations, and the lists with one board named or none.
MCSelections ==
  {call(target(b, v, r, a), <<>>, <<>>) :
     b \in {None, brd, duo}, v \in {None, os}, r \in {None, <<"1">>}, a \in {None, fw}}
  \cup
  {call(target(b, None, None, fw), s, x) :
     b \in {None, brd}, x \in {<<>>, <<"q">>},
     s \in {<<log, ble, log>>, <<ble, log>>, <<NoSnippets>>, <<NoSnippets, NoSnippets>>, <<NoSnippets, log>>}}
  \cup
  {call(target(brd, None, None, fw), <<ble>>, <<>>), call(target(brd, None, None, fwble), <<>>, <<>>)}
==============================================================================
