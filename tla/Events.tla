------------------------------- MODULE Events -------------------------------
(***************************************************************************)
(* What becomes of one event: the text decoder makes it of a frame, the    *)
(* file input adds the path of the file, the regex filter the fields it    *)
(* captures (component/decoder/event/text, component/input/file,           *)
(* component/filter/regex).                                                *)
(*                                                                         *)
(* The fields of an event are a function from names to texts.  A regular   *)
(* expression is a function from texts to what the named groups of its     *)
(* first match capture, as <<name, text>> pairs: <<>> when nothing matches *)
(* or is named.                                                            *)
(***************************************************************************)
EXTENDS Naturals, SequencesExt

CONSTANTS
  Lossy,     \* the text of a frame: what is not UTF-8 in it is replaced
  Paths,     \* the names of the files, as texts
  Patterns   \* the filter's configuration: a set of [field, regexes], one for a field

ASSUME EventsAssumption ==
  /\ IsFiniteSet(Patterns)
  /\ \A p, q \in Patterns : p.field = q.field => p = q
  /\ \A p \in Patterns : p.regexes \in Seq(Range(p.regexes))

Texts == Range(Lossy) \union Paths

\* What an expression captures is a sequence of pairs.
ASSUME CapturesAssumption ==
  \A p \in Patterns : \A regex \in Range(p.regexes), text \in Texts :
    /\ regex[text] \in Seq(Range(regex[text]))
    /\ \A capture \in Range(regex[text]) : capture = <<capture[1], capture[2]>>

\* What a stream is made of: frames, each from a file.
Lines == [frame : DOMAIN Lossy, path : Paths]

\* Event::new and the text decoder's one field.
TextFields(frame) == [name \in {"message"} |-> Lossy[frame]]

\* WatchedFile::decode sets the path, in place of one that is there.
FileFields(line) ==
  LET fields == TextFields(line.frame)
  IN  [name \in DOMAIN fields \union {"path"} |->
         IF name = "path" THEN line.path ELSE fields[name]]

\* `match` is a map: its patterns come in any order, the same one for every clone.
PatternOrders == SetToSeqs(Patterns)

\* The captures of all expressions for a field, or none when the event has no such field.
Captures(fields, pattern) ==
  IF pattern.field \notin DOMAIN fields THEN <<>>
  ELSE FlattenSeq([r \in DOMAIN pattern.regexes |->
                     pattern.regexes[r][fields[pattern.field]]])

\* Mutant of OrInsert: a capture replaces the field that is there.
Insert(fields, capture) ==
  [name \in DOMAIN fields \union {capture[1]} |->
     IF name = capture[1] THEN capture[2] ELSE fields[name]]

OrInsert(fields, capture) ==
  [name \in DOMAIN fields \union {capture[1]} |->
     IF name \in DOMAIN fields THEN fields[name] ELSE capture[2]]

\* All patterns look at the event as it came; then the captures are added.
Filtered(patterns, fields) ==
  FoldLeft(OrInsert, fields,
           FlattenSeq([p \in DOMAIN patterns |-> Captures(fields, patterns[p])]))

-----------------------------------------------------------------------------
(* What the filter is for                                                  *)

\* The expressions that are tried, by their place in the configuration.
Tried(patterns, fields) ==
  UNION {{p} \X DOMAIN patterns[p].regexes :
           p \in {q \in DOMAIN patterns : patterns[q].field \in DOMAIN fields}}

CapturedAt(patterns, fields, place) ==
  ToSet(patterns[place[1]].regexes[place[2]][fields[patterns[place[1]].field]])

Before(a, b) == a[1] < b[1] \/ (a[1] = b[1] /\ a[2] < b[2])

\* The fields an event came with are untouched, and a field it has gained is what the first
\* of the expressions that capture it captured.
AsConfigured(patterns, before, after) ==
  LET tried     == Tried(patterns, before)
      At(place) == CapturedAt(patterns, before, place)
      Has(place, name) == \E c \in At(place) : c[1] = name
  IN  /\ \A name \in DOMAIN before : name \in DOMAIN after /\ after[name] = before[name]
      /\ \A place \in tried : \A c \in At(place) : c[1] \in DOMAIN after
      /\ \A name \in DOMAIN after \ DOMAIN before :
           \E place \in tried :
             /\ <<name, after[name]>> \in At(place)
             /\ \A other \in tried : Before(other, place) => ~Has(other, name)
=============================================================================
