------------------------------- MODULE MCIniFile -------------------------------
(***************************************************************************)
(* Two sections, one a prefix of the other, entries of each kind of value, *)
(* and the lines that go wrong.  The hashes of some keys are the same.     *)
(***************************************************************************)
EXTENDS IniFile

Plain(t) == [text |-> t, more |-> FALSE]
Continued(t) == [text |-> t, more |-> TRUE]

MCLines ==
  {Plain(<<"[", "s", "]">>),
   Plain(<<"[", " ", "s", " ", "t", "]", " ">>),
   Plain(<<"k", "=", "v">>),
   Plain(<<"k", " ", "=", "\"", "v", ";", "w", "\"", ";">>),
   Plain(<<"j", "=", "w", " ", ";", "v">>),
   Plain(<<"j", "=">>),
   Continued(<<";", "v">>),
   Continued(<<"k", "=", "v">>),
   Plain(<<"=", "v">>),
   Plain(<<>>),
   Plain(<<" ">>),
   Plain(<<"k", "=", "v", "v", "v", "v", "v", "v", "v", "v">>)}

(* Every key and value that these lines, continued or not, can define.     *)
Values == {r \in {IniparserLine(t) : t \in Texts} : r.status = "LINE_VALUE"}

MCKey == Headings \cup {SecKey(s, r.key) : s \in Headings \cup {<<>>}, r \in Values}
MCValue == {r.value : r \in Values}

MCEditKeys == {<<"s">>, <<"s", ":", "k">>, <<":", "k">>}
MCEditValues == {NULL, <<"v">>}

MCHash(k) == Len(k) % 2

===============================================================================
