---------------------------- MODULE MCCatOutput ----------------------------
(***************************************************************************)
(* Model for TLC: template files, commands and settings for CatOutput.     *)
(***************************************************************************)
EXTENDS CatOutput

Lit == [k |-> "text"]
Plain == [k |-> "plain"]
MatcherName == [k |-> "matcher"]
MatchCur == [k |-> "matchcur"]
Unterminated == [k |-> "unterminated"]
User(name) == [k |-> "user", name |-> name]
Path(name) == [k |-> "path", name |-> name, rel |-> <<>>]
RelPath(name, rel) == [k |-> "path", name |-> name, rel |-> <<rel>>]
TemplatePath(name) == [k |-> "template_path", name |-> name, rel |-> <<>>]
For(name, times, body) == [k |-> "for", name |-> name, times |-> times, body |-> body]
If(ok) == [k |-> "if", ok |-> ok]

Row(key, value) == [key |-> key, value |-> value]
Input(name, rows, tmpl) == [name |-> name, rows |-> rows, tmpl |-> tmpl, filename |-> <<Lit>>]

Paths(match, obstruct) ==
  [output_path |-> <<Lit>>, match_output_path |-> match,
   obstruct_output_path |-> obstruct, template_output_path |-> <<Path("output_path")>>]

Setup(inputs, paths, unlock, other) ==
  [inputs |-> inputs, paths |-> paths, user_vars |-> {"password"}, signals |-> FALSE,
   cmds |-> [do_unlock |-> unlock, state_change |-> other]]

\* Nested loops, blocks, a root path, and a command that is given the file.
Ordinary ==
  Setup(<<Input("a", <<Row("event", {"do_unlock"}), Row("event", {"all"}),
                       Row("rootpath", <<Path("output_path")>>),
                       Row("required", {"password"})>>,
                <<Plain, For("i", 2, <<For("j", 1, <<User("i"), User("j")>>), Lit>>),
                  Path("match_output_path"), If(TRUE)>>),
          Input("b", <<Row("event", {"do_unlock"}), Row("nofile", TRUE), Row("nop", TRUE)>>,
                <<TemplatePath("a"), MatcherName>>)>>,
        Paths(<<Path("output_path"), Lit>>, <<Path("match_output_path"), MatcherName>>),
        <<<<TemplatePath("0"), User("password")>>, <<User("password")>>,
          <<Path("obstruct_output_path")>>>>,
        <<<<TemplatePath("b")>>>>)

\* Texts that fail in each way the code knows, now and then or always.
Failing ==
  Setup(<<Input("a", <<Row("event", {"*"}), Row("name", "c")>>,
                <<MatchCur, For("i", 1, <<If(TRUE), For("i", 1, <<Lit>>)>>)>>),
          Input("b", <<Row("event", {"do_unlock"}), Row("filename", <<TemplatePath("c")>>)>>,
                <<RelPath("match_output_path", <<Path("output_path"), MatchCur>>), If(FALSE)>>)>>,
        Paths(<<Unterminated>>, <<For("i", 0, <<>>)>>),
        <<<<MatcherName, MatchCur>>>>,
        <<<<For("password", 1, <<>>)>>, <<Lit>>, <<Path("steps_output_path")>>>>)

\* Paths that refer to each other, in a template and in a loop.
Recursive ==
  Setup(<<Input("a", <<Row("event", {"state_change"})>>, <<Path("match_output_path")>>)>>,
        Paths(<<Path("output_path"), Path("obstruct_output_path")>>,
              <<Path("match_output_path"), Lit>>),
        <<<<User("password"), Path("match_output_path")>>>>,
        <<<<For("i", 1, <<Path("match_output_path")>>)>>, <<Lit>>>>)

\* Templates that are refused at the start.
Refused(row) == Setup(<<Input("a", <<row>>, <<Lit>>)>>, Paths(<<>>, <<>>), <<>>, <<>>)

\* Small texts for events that interrupt each other, one of which fails.
Interrupted ==
  [Setup(<<Input("a", <<Row("event", {"do_unlock"})>>,
                 <<For("i", 1, <<RelPath("match_output_path", <<>>)>>)>>)>>,
         Paths(<<Lit>>, <<Lit>>), <<<<TemplatePath("a")>>>>, <<>>)
   EXCEPT !.signals = TRUE,
          !.cmds = [do_unlock |-> <<<<TemplatePath("a")>>>>, do_lockout |-> <<>>,
                    state_change |-> <<<<For("k", 1, <<For("l", 1, <<If(FALSE)>>)>>)>>>>]]

OutputSetups ==
  {Ordinary, Failing, Recursive, Interrupted, Refused(Row("required", {"user"})),
   Refused(Row("unknown", TRUE))}

FailingSetups == {Failing}
OrdinarySetups == {Ordinary}
=============================================================================
