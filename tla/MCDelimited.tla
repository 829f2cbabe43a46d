---------------------------- MODULE MCDelimited ----------------------------
(***************************************************************************)
(* Configurations of the frame decoder for TLC.                            *)
(***************************************************************************)
EXTENDS Delimited

CONSTANT a

Config(key, line, string, to, on) ==
  [key |-> key, line |-> line, string |-> string, glue |-> to, on |-> on]

\* Line endings and one-byte strings, with and without gluing; no delimiter; and strings of
\* two, three and four bytes, of which only the types are checked.
MCConfigs ==
  UNION {{Config("none", "any", <<>>, to, on),
          Config("line", "any", <<>>, to, on),
          Config("line", "unix", <<>>, to, on),
          Config("line", "mac", <<>>, to, on),
          Config("string", "any", <<a>>, to, on)} :
           <<to, on>> \in {<<"none", "start">>, <<"previous", "start">>, <<"previous", "end">>,
                         <<"next", "end">>}}
    \union {Config("string", "any", <<>>, "none", "start"),
            Config("line", "dos", <<>>, "next", "end"),
            Config("string", "any", <<a, Mark, a>>, "none", "start"),
            Config("string", "any", <<a, CR, LF, Mark>>, "previous", "start")}

MCDos == {Config("line", "dos", <<>>, "none", "start")}
=============================================================================
