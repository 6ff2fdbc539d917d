----------------------------- MODULE MCLogging -----------------------------
(***************************************************************************)
(* Logging with lines of every kind in every section, right and wrong.     *)
(***************************************************************************)
EXTENDS Logging

\* A setting of another name is wrong.
MCSettings ==
  {[name |-> "strict", value |-> FALSE],
   [name |-> "fsync", value |-> 2],
   [name |-> "reload", value |-> 1],
   [name |-> "format", value |-> [DefaultFormatLine EXCEPT !.convs = <<"ms", "d">>]],
   [name |-> "unknown", value |-> 0]}

\* A level of its own, a second one of a name, and one that is too high.
MCLevelLines ==
  {[name |-> "TRACE", number |-> 130, ok |-> TRUE],
   [name |-> "INFO", number |-> 23, ok |-> TRUE],
   [name |-> "HIGH", number |-> 256, ok |-> TRUE]}

MCFormatLines ==
  {[name |-> "f", convs |-> <<"d", "d">>, ok |-> TRUE],
   [name |-> "g", convs |-> <<"d">>, ok |-> FALSE]}

Line(pattern, cmp, name, format, path) ==
  [category |-> pattern, compare |-> cmp, level |-> name, format |-> format,
   path |-> path, archive |-> <<>>, sync |-> FALSE, ok |-> TRUE]

MCRuleLines ==
  {Line(<<"a", "_">>, ".", "INFO", "", <<>>),
   Line(<<"a">>, "=", "INFO", "f", <<>>),
   Line(<<"*">>, "!", "TRACE", "", <<"d">>),
   Line(<<"!">>, "*", "*", "", <<>>),
   Line(<<"!">>, ".", "TYPO", "f", <<>>),
   [Line(<<"a">>, ".", "WARN", "", <<"d">>) EXCEPT !.sync = TRUE, !.archive = <<"d">>]}

MCNames == {<<"a">>, <<"a", "_", "b">>, <<"a", "b">>}
=============================================================================
