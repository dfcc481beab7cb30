------------------------------ MODULE MCShell ------------------------------
(* Plain commands, a redirection, pipelines long and short, "&" and "!!". *)
EXTENDS Shell

MCLines == {
  <<"!!">>, <<"ls">>, <<"ls", "-l", "&">>, <<"sort", "<", "f", "&">>, <<"ls", ">", "&">>,
  <<"ls", "-l", "|", "wc", "-l">>, <<"ls", "|", "wc">> }

=============================================================================
