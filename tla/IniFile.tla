-------------------------------- MODULE IniFile --------------------------------
(***************************************************************************)
(* contrib/iniparser/iniparser.c: a file of sections and entries is read   *)
(* line by line into a dictionary, asked and changed there, and written    *)
(* again.  A text is a sequence of tokens: the characters the parser looks *)
(* for, a blank, and words.  ";" stands for both comment characters.  A    *)
(* section s is the key s with the value NULL; an entry k of it is the key *)
(* s:k.  A physical line says what stands in front of its newline, and     *)
(* whether it ends in a backslash (more).                                  *)
(***************************************************************************)
EXTENDS Dictionary, SequencesExt

CONSTANTS
  Lines,          \* physical lines from which a file is made
  EditKeys,       \* keys and values given to iniparser_set and iniparser_unset
  EditValues,
  MaxSteps,       \* bound on the lines of the file and the changes after it
  AsciiLineSz     \* ASCIILINESZ: fgets reads one character less

ASSUME IniFileAssumption ==
  /\ EditKeys \subseteq Key /\ EditValues \subseteq OrNull(Value)
  /\ MaxSteps \in Nat /\ AsciiLineSz \in Nat \ {0, 1}
  /\ Lines \subseteq [text : Seq(STRING), more : BOOLEAN]

VARIABLES
  parser,   \* the local variables of iniparser_load, but for dict
  file,     \* the lines read so far
  phase,    \* "loading", "loaded", "refused" or "freed"
  edits     \* how many changes were made since

vars == <<dict, parser, file, phase, edits>>

(* This copy of the library no longer changes the case.                    *)
Strlwc(s) == s

Strstrip(s) ==
  LET ink == {i \in DOMAIN s : s[i] # " "}
  IN  IF ink = {} THEN <<>> ELSE SubSeq(s, Min(ink), Max(ink))

(* What sscanf takes for %[^c].                                            *)
UpTo(s, c) ==
  LET at == {i \in DOMAIN s : s[i] = c}
  IN  IF at = {} THEN s ELSE SubSeq(s, 1, Min(at) - 1)

(* The value behind an equals sign: in quotes, up to a comment, or empty.  *)
ValueOf(rest) ==
  LET quoted == rest # <<>> /\ Head(rest) = "\"" /\ UpTo(Tail(rest), "\"") # <<>>
      value == Strstrip(IF quoted THEN UpTo(Tail(rest), "\"") ELSE UpTo(rest, ";"))
  IN  IF value = <<"\"", "\"">> THEN <<>> ELSE value

IniparserLine(text) ==
  LET line == Strstrip(text)
      key == UpTo(line, "=")
      is(status, k, v) == [status |-> status, key |-> Strlwc(Strstrip(k)), value |-> v]
  IN  CASE line = <<>> -> is("LINE_EMPTY", <<>>, NULL)
        [] line # <<>> /\ line[1] = ";" -> is("LINE_COMMENT", <<>>, NULL)
        [] line # <<>> /\ line[1] = "[" /\ Last(line) = "]" ->
             is("LINE_SECTION", UpTo(Tail(line), "]"), NULL)
        [] OTHER ->
             IF key = line \/ key = <<>> THEN is("LINE_ERROR", <<>>, NULL)
             ELSE is("LINE_VALUE", key,
                     ValueOf(Strstrip(SubSeq(line, Len(key) + 2, Len(line)))))

SecKey(section, key) == section \o <<":">> \o key

-----------------------------------------------------------------------------
(* iniparser_load.  p holds its variables; errs is overwritten by the      *)
(* result of dictionary_set, which is 0.                                   *)

LoadStart ==
  [dict |-> DictionaryNew(0), full |-> <<>>, section |-> <<>>, errs |-> 0, stop |-> FALSE]

(* The text of a line without its newline, the blanks before that and, if  *)
(* it has one, its backslash.                                              *)
Trimmed(l) == IF l.more THEN l.text ELSE SubSeq(l.text, 1, Max({0} \cup
                {i \in DOMAIN l.text : l.text[i] # " "}))

TooLong(l) == Len(l.text) + (IF l.more THEN 2 ELSE 1) > AsciiLineSz - 1

(* What physical lines say when they are continued from one to the next.   *)
Joined(ls) == FlattenSeq([n \in DOMAIN ls |-> Trimmed(ls[n])])

(* The texts that can stand in logical lines, and the names of sections in *)
(* them.  Keys and values are arbitrary strings: those that the lines can  *)
(* give are among Key and Value.                                           *)
Unfinished == {l \in Lines : l.more \/ l.text = <<>>}
Texts == {Joined(Append(ls, l)) : ls \in BoundedSeq(Unfinished, MaxSteps - 1), l \in Lines}
Headings ==
  {IniparserLine(t).key : t \in {u \in Texts : IniparserLine(u).status = "LINE_SECTION"}}

ASSUME LinesAssumption ==
  /\ Headings \subseteq Key
  /\ \A t \in Texts : IniparserLine(t).status = "LINE_VALUE" =>
       /\ IniparserLine(t).value \in Value
       /\ \A s \in Headings \cup {<<>>} : SecKey(s, IniparserLine(t).key) \in Key

MutDefineFirstWins(p, key, value) ==
  IF Matches(p.dict, key) # {} THEN [p EXCEPT !.errs = 0]
  ELSE [p EXCEPT !.dict = DictionarySet(@, key, value), !.errs = 0]

MutDefineKeepsErrors(p, key, value) == [p EXCEPT !.dict = DictionarySet(@, key, value)]

Define(p, key, value) == [p EXCEPT !.dict = DictionarySet(@, key, value), !.errs = 0]

EndOfLogicalLine(p, line) ==
  CASE line.status = "LINE_SECTION" ->
         [Define(p, line.key, NULL) EXCEPT !.section = line.key]
    [] line.status = "LINE_VALUE" -> Define(p, SecKey(p.section, line.key), line.value)
    [] line.status = "LINE_ERROR" -> [p EXCEPT !.errs = @ + 1]
    [] OTHER -> p

LoadLine(p, l) ==
  IF p.stop \/ (l.text = <<>> /\ ~ l.more) THEN p
  ELSE IF TooLong(l) THEN [p EXCEPT !.errs = @ + 1, !.stop = TRUE]
  ELSE LET text == p.full \o Trimmed(l)
       IN  IF l.more THEN [p EXCEPT !.full = text]
           ELSE EndOfLogicalLine([p EXCEPT !.full = <<>>], IniparserLine(text))

(* The dictionary that a whole file gives, or NULL.                        *)
IniparserLoad(f) ==
  LET p == FoldLeft(LoadLine, LoadStart, f)
  IN  IF p.errs > 0 THEN NULL ELSE p.dict

-----------------------------------------------------------------------------
(* Asking.                                                                 *)

IniparserGetString(d, k, def) == DictionaryGet(d, Strlwc(k), def)

IniparserFindEntry(d, k) == IniparserGetString(d, k, <<"INI_INVALID_KEY">>) # <<"INI_INVALID_KEY">>

KeysInOrder(d) == [r \in DOMAIN DictionaryDump(d) |-> DictionaryDump(d)[r][1]]

IsSection(k) == ":" \notin Range(k)

Sections(d) == {i \in Used(d) : IsSection(d.key[i])}

IniparserGetNSec(d) == Cardinality(Sections(d))

(* How many sections are found before slot i: n of them before section n.  *)
FoundBefore(d, i) == Cardinality({j \in Sections(d) : j < i})

IniparserGetSecName(d, n) ==
  IF n \in 0 .. IniparserGetNSec(d) - 1
  THEN d.key[CHOOSE i \in Sections(d) : FoundBefore(d, i) = n] ELSE NULL

MutGetSecKeys(d, s) ==
  LET inSection(k) == IsPrefix(s, k) /\ k # s
  IN  SelectSeq(KeysInOrder(d), inSection)

IniparserGetSecKeys(d, s) ==
  LET inSection(k) == IsPrefix(s \o <<":">>, k)
  IN  IF IniparserFindEntry(d, s) THEN SelectSeq(KeysInOrder(d), inSection) ELSE <<>>

IniparserGetSecNKeys(d, s) == Len(IniparserGetSecKeys(d, s))

-----------------------------------------------------------------------------
(* Writing: the physical lines that iniparser_dump_ini prints.             *)

Printed(text) == [text |-> text, more |-> FALSE]

IniparserDumpSection(d, s) ==
  LET keys == IniparserGetSecKeys(d, s)
      value(k) == IF DictionaryGet(d, k, NULL) = NULL THEN <<>> ELSE DictionaryGet(d, k, NULL)
      name(k) == SubSeq(k, Len(s) + 2, Len(k))
      entry(k) == Printed(name(k) \o <<" ", "=", " ">> \o value(k))
  IN  IF ~ IniparserFindEntry(d, s) THEN <<>>
      ELSE <<Printed(<<>>), Printed(<<"[">> \o s \o <<"]">>)>>
             \o [i \in DOMAIN keys |-> entry(keys[i])] \o <<Printed(<<>>)>>

IniparserDumpIni(d) ==
  LET bare(e) == Printed(e[1] \o <<" ", "=", " ">> \o IF e[2] = NULL THEN <<"(null)">> ELSE e[2])
      section(i) == IniparserDumpSection(d, IniparserGetSecName(d, i - 1))
  IN  IF IniparserGetNSec(d) < 1
      THEN [r \in DOMAIN DictionaryDump(d) |-> bare(DictionaryDump(d)[r])]
      ELSE FlattenSeq([i \in 1 .. IniparserGetNSec(d) |-> section(i)]) \o <<Printed(<<>>)>>

-----------------------------------------------------------------------------
Init ==
  /\ dict = LoadStart.dict
  /\ parser = [LoadStart EXCEPT !.dict = NULL]
  /\ file = <<>>
  /\ phase = "loading"
  /\ edits = 0

(* One turn of the loop around fgets.                                      *)
ReadLine(l) ==
  /\ phase = "loading" /\ ~ parser.stop /\ Len(file) < MaxSteps
  /\ LET p == LoadLine([parser EXCEPT !.dict = dict], l)
     IN  /\ dict' = p.dict
         /\ parser' = [p EXCEPT !.dict = NULL]
  /\ file' = Append(file, l)
  /\ UNCHANGED <<phase, edits>>

(* The label out.                                                          *)
EndLoad ==
  /\ phase = "loading"
  /\ IF parser.errs > 0 THEN phase' = "refused" /\ dict' = DictionaryNew(0)
     ELSE phase' = "loaded" /\ UNCHANGED dict
  /\ parser' = [LoadStart EXCEPT !.dict = NULL]
  /\ UNCHANGED <<file, edits>>

Edit(d) ==
  /\ phase = "loaded" /\ Len(file) + edits < MaxSteps
  /\ dict' = d
  /\ edits' = edits + 1
  /\ UNCHANGED <<parser, file, phase>>

IniparserSet(k, v) == Edit(DictionarySet(dict, Strlwc(k), v))

IniparserUnset(k) == Edit(DictionaryUnset(dict, Strlwc(k)))

IniparserFreedict ==
  /\ phase = "loaded"
  /\ dict' = DictionaryNew(0)
  /\ phase' = "freed"
  /\ UNCHANGED <<parser, file, edits>>

Next ==
  \/ \E l \in Lines : ReadLine(l)
  \/ EndLoad
  \/ \E k \in EditKeys, v \in EditValues : IniparserSet(k, v)
  \/ \E k \in EditKeys : IniparserUnset(k)
  \/ IniparserFreedict

Spec == Init /\ [][Next]_vars

-----------------------------------------------------------------------------
(* Properties.                                                             *)

TypeOK ==
  /\ DictionaryOK
  /\ DOMAIN parser = {"dict", "full", "section", "errs", "stop"}
  /\ parser.dict = NULL /\ parser.errs \in 0 .. MaxSteps /\ parser.stop \in BOOLEAN
  /\ file \in BoundedSeq(Lines, MaxSteps)
  /\ phase \in {"loading", "loaded", "refused", "freed"}
  /\ edits \in 0 .. MaxSteps

(* A reader's view of a file f, by positions instead of by state.  A       *)
(* logical line ends where a physical one has no backslash and is not a    *)
(* mere newline, and says what stands between the last such end and it.    *)
Ends(f) == {i \in DOMAIN f : ~ f[i].more /\ f[i].text # <<>>}

BeginsAt(f, i) == Max({0} \cup {j \in Ends(f) : j < i}) + 1

LogicalLine(f, i) == IniparserLine(Joined(SubSeq(f, BeginsAt(f, i), i)))

EndsWith(f, status) ==
  {i \in Ends(f) : ~ TooLong(f[i]) /\ LogicalLine(f, i).status = status}

(* The section that the line at i stands in, and the key that it defines.  *)
SectionAt(f, i) ==
  LET before == {j \in EndsWith(f, "LINE_SECTION") : j < i}
  IN  IF before = {} THEN <<>> ELSE LogicalLine(f, Max(before)).key

DefinedAt(f, i) ==
  IF i \in EndsWith(f, "LINE_SECTION") THEN LogicalLine(f, i).key
  ELSE SecKey(SectionAt(f, i), LogicalLine(f, i).key)

Definitions(f) == EndsWith(f, "LINE_SECTION") \cup EndsWith(f, "LINE_VALUE")

Defining(f, k) == {i \in Definitions(f) : DefinedAt(f, i) = k}

Written(f) ==
  [k \in {DefinedAt(f, i) : i \in Definitions(f)} |-> LogicalLine(f, Max(Defining(f, k))).value]

(* What a file says is what is loaded: each key has the value of the last  *)
(* line that gives it one, continued, commented, quoted or not, and stands *)
(* under the section it was written under; nothing else is in there.       *)
LoadedAsWritten ==
  phase = "loaded" /\ edits = 0 => Contents(dict) = Written(file)

(* A file is refused when a wrong line comes after the last definition; a  *)
(* wrong line in front of a definition is forgotten, because the result of *)
(* dictionary_set overwrites the number of errors (lines 816 and 834).     *)
RefusedForLastError ==
  phase \in {"loaded", "refused"} =>
    (phase = "refused" <=>
       \/ \E i \in DOMAIN file : TooLong(file[i])
       \/ \E i \in EndsWith(file, "LINE_ERROR") : \A j \in Definitions(file) : j < i)

(* The sections are numbered in the order in which the file names them     *)
(* first: vt_loadAction gives the actions these numbers, and its sample    *)
(* file says that what is put at the beginning comes first.                *)
SectionsInFileOrder ==
  phase = "loaded" /\ edits = 0 =>
    \A n, m \in 0 .. IniparserGetNSec(dict) - 1 :
      n < m => Min(Defining(file, IniparserGetSecName(dict, n)))
                 < Min(Defining(file, IniparserGetSecName(dict, m)))

(* Writing a dictionary and loading it again gives back every section and  *)
(* every entry under a section that exists and whose value has no comment  *)
(* character, however the dictionary came about, and makes nothing up; an  *)
(* entry's value NULL comes back empty, a section's value as NULL.  Only a *)
(* value so long that it was written over several lines cannot be loaded   *)
(* again from the one line into which it is dumped.  An entry that begins  *)
(* with "[" and whose value ends in "]" would be read as a heading: this   *)
(* is a promise about lines without such entries.                          *)
DumpLoadsAgain ==
  phase = "loaded" /\ IniparserGetNSec(dict) > 0 =>
    LET again == IniparserLoad(IniparserDumpIni(dict))
        sectionOf(k) == UpTo(k, ":")
        kept == {k \in DOMAIN Contents(dict) : IniparserFindEntry(dict, sectionOf(k))}
        written(k) == IF IsSection(k) THEN NULL
                      ELSE IF Contents(dict)[k] = NULL THEN <<>> ELSE Contents(dict)[k]
    IN  IF \E l \in Range(IniparserDumpIni(dict)) : TooLong(l) THEN again = NULL ELSE
        /\ DOMAIN Contents(again) = kept
        /\ \A k \in kept : written(k) = NULL \/ ";" \notin Range(written(k))
             => Contents(again)[k] = written(k)

===============================================================================
