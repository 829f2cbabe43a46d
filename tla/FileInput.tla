----------------------------- MODULE FileInput -----------------------------
(***************************************************************************)
(* component/input/file.rs: a task that looks for files every five         *)
(* seconds, and a stream that reads the files found, one after the other,  *)
(* at each tick of its own timer and whenever the trigger (a pulse) is     *)
(* raised.  They share State behind one mutex, and each WatchedFile behind *)
(* a mutex of its own.                                                     *)
(*                                                                         *)
(* A file's content is counted in lines: a read returns whole lines and a  *)
(* decoded line is one event (Delimited and BufDecoder carry the rest of a *)
(* line over to the next read).  The file system is external: the names    *)
(* the patterns match are 1 .. NPaths, in the order glob lists them, and a *)
(* file is known by its device and inode.                                  *)
(***************************************************************************)
EXTENDS Naturals, Sequences

CONSTANTS
  Files,           \* device and inode of the files that can come to exist
  NoFile,          \* no such file
  NPaths,          \* how many names the path patterns match
  InitialLines,    \* bound: lines of a file when it gets its first name
  MaxWrites,       \* bound: lines appended, and truncations, all files together
  MaxChunk,        \* bound: lines for which the decoder's buffer has room
  FromBeginning,   \* start_position = "beginning"
  OverflowChecks,  \* a debug build: an underflow panics, where a release build wraps
  MayOverrun,      \* a read may be longer than the free part of the decoder's buffer
  Corrupt,         \* files the decoder may fail on
  Unreadable,      \* files that may refuse to be opened or read
  MayTruncate,     \* the environment shrinks files,
  MayReusePath     \*   gives a new file the name an older one had

Paths == 1 .. NPaths

ASSUME FileInputAssumption ==
  /\ NoFile \notin Files
  /\ NPaths \in Nat
  /\ {InitialLines, MaxWrites} \subseteq Nat
  /\ MaxChunk \in Nat \ {0}
  /\ {FromBeginning, OverflowChecks, MayOverrun, MayTruncate, MayReusePath} \subseteq BOOLEAN
  /\ {Corrupt, Unreadable} \subseteq SUBSET Files

VARIABLES
  dir,       \* file system: which file has the name
  size,      \*   how many lines a file has
  born,      \*   files created so far
  used,      \*   names that have been used
  writes,    \*   lines appended and truncations so far
  files,     \* State.files; file_id_to_idx is its inverse
  cur,       \* State.cur_file_idx
  trigger,   \* State.trigger: the pulse is up
  shutdown,  \* the signal that stops both
  dpc,       \* discovery: idle | scan | apply (holds the mutex of State) | ended
  todo,      \*   the next name to look at
  found,     \*   discovered_files
  fresh,     \*   `trigger`: one of them was new
  rpc,       \* reader: wait | pick | stat | check | fill | decode | more | emit | error
             \*   | ended | panicked
  fi,        \*   `i`, `file_idx`: the file this turn is about
  batch,     \*   lines lo + 1 .. hi of file id, read and not yet emitted
  settled,   \* history: the lines of a file that were emitted since it was last truncated, or
             \*   read from its first line, and those skipped when it was found
  cut        \* history: the files truncated since they were found or read from the first line

diskVars == <<dir, size, born, used, writes>>
discoveryVars == <<dpc, todo, found, fresh>>
readerVars == <<rpc, fi, batch>>
history == <<settled, cut>>
vars == <<diskVars, files, cur, trigger, shutdown, discoveryVars, readerVars, history>>

NoBatch == [id |-> NoFile, lo |-> 0, hi |-> 0]

Init ==
  /\ dir = [p \in Paths |-> NoFile]
  /\ size = [f \in Files |-> InitialLines]
  /\ born = {}
  /\ used = {}
  /\ writes = 0
  /\ files = <<>>
  /\ cur = 0
  /\ trigger = FALSE
  /\ shutdown = FALSE
  /\ dpc = "idle"
  /\ todo = 1
  /\ found = <<>>
  /\ fresh = FALSE
  /\ rpc = "wait"
  /\ fi = 0
  /\ batch = NoBatch
  /\ settled = [f \in Files |-> {}]
  /\ cut = {}

-----------------------------------------------------------------------------
(* The file system (external)                                              *)

Linked(f) == \E p \in Paths : dir[p] = f

Vacant(p) == dir[p] = NoFile /\ (p \in used => MayReusePath)

Create(p, f) ==
  /\ Vacant(p)
  /\ f \notin born
  /\ dir' = [dir EXCEPT ![p] = f]
  /\ born' = born \union {f}
  /\ used' = used \union {p}
  /\ UNCHANGED <<size, writes, history>>

Write(f) ==
  /\ f \in born
  /\ writes < MaxWrites
  /\ size' = [size EXCEPT ![f] = @ + 1]
  /\ writes' = writes + 1
  /\ UNCHANGED <<dir, born, used, history>>

\* Somebody knows how long the file was.
Known(f) ==
  \/ \E k \in DOMAIN files : files[k].id = f
  \/ \E k \in DOMAIN found : found[k].id = f

Truncate(f) ==
  /\ MayTruncate
  /\ size[f] > 0
  /\ writes < MaxWrites
  /\ size' = [size EXCEPT ![f] = 0]
  /\ writes' = writes + 1
  /\ settled' = [settled EXCEPT ![f] = {}]
  /\ cut' = IF Known(f) THEN cut \union {f} ELSE cut
  /\ UNCHANGED <<dir, born, used>>

Rename(p, q) ==
  /\ dir[p] # NoFile
  /\ Vacant(q)
  /\ dir' = [dir EXCEPT ![p] = NoFile, ![q] = dir[p]]
  /\ used' = used \union {q}
  /\ UNCHANGED <<size, born, writes, history>>

Unlink(p) ==
  /\ dir[p] # NoFile
  /\ dir' = [dir EXCEPT ![p] = NoFile]
  /\ UNCHANGED <<size, born, used, writes, history>>

Environment ==
  /\ \/ \E p \in Paths, f \in Files : Create(p, f)
     \/ \E f \in Files : Write(f) \/ Truncate(f)
     \/ \E p, q \in Paths : Rename(p, q)
     \/ \E p \in Paths : Unlink(p)
  /\ UNCHANGED <<files, cur, trigger, shutdown, discoveryVars, readerVars>>

-----------------------------------------------------------------------------
(* State and WatchedFile                                                   *)

Trigger == INSTANCE WakeFlag WITH
  Receivers <- {"reader"}, latched <- FALSE, up <- trigger, seen <- {}

RaiseTriggerIf(condition) ==
  IF condition THEN Trigger!Raise ELSE UNCHANGED trigger

\* Mutant of NextFile: it does not raise the trigger.
NextFileSilently ==
  /\ cur' = IF cur < Len(files) THEN cur + 1 ELSE cur
  /\ UNCHANGED trigger

\* State::next_file, which calls trigger_if_more_files.
NextFile ==
  /\ cur' = IF cur < Len(files) THEN cur + 1 ELSE cur
  /\ RaiseTriggerIf(cur < Len(files) /\ cur + 1 < Len(files))

\* State::trigger_if_more_files
TriggerIfMoreFiles == RaiseTriggerIf(cur < Len(files))

\* Mutant of IndicesOf: the index of a new file is not entered in the map.
NeverIndexed(id) == {k \in {} : files[k].id = id}

\* file_id_to_idx, counted from 1.
IndicesOf(id) == {k \in DOMAIN files : files[k].id = id}

\* The reader finds the mutex of State free: only discovery keeps it for long.
StateFree == dpc # "apply"

-----------------------------------------------------------------------------
(* Discovery                                                               *)

DiscoveryTick ==
  /\ dpc = "idle"
  /\ ~shutdown
  /\ dpc' = "scan"
  /\ UNCHANGED <<todo, found, fresh, files, trigger, shutdown>>

\* glob and stat: a name that has gone is skipped.
ScanPath ==
  /\ dpc = "scan"
  /\ todo \in Paths
  /\ found' = IF dir[todo] = NoFile
                THEN found
                ELSE Append(found, [path |-> todo, id |-> dir[todo], len |-> size[dir[todo]]])
  /\ todo' = todo + 1
  /\ UNCHANGED <<dpc, fresh, files, trigger, shutdown>>

\* for_each: nothing was found, or the mutex of State is taken.
EndScan ==
  /\ dpc = "scan"
  /\ todo \notin Paths
  /\ dpc' = IF found = <<>> THEN "idle" ELSE "apply"
  /\ todo' = 1
  /\ UNCHANGED <<found, fresh, files, trigger, shutdown>>

NewFile(entry) ==
  [id     |-> entry.id,
   path   |-> entry.path,
   handle |-> NoFile,
   offset |-> IF FromBeginning THEN 0 ELSE entry.len,
   len    |-> entry.len]

\* One turn of `for (path, stat) in discovered_files`.
ApplyEntry ==
  /\ dpc = "apply"
  /\ found # <<>>
  /\ LET entry == Head(found)
         known == IndicesOf(entry.id)
     IN  IF known = {}
           THEN /\ files' = Append(files, NewFile(entry))
                /\ fresh' = TRUE
                /\ settled' = [settled EXCEPT ![entry.id] = 1 .. NewFile(entry).offset]
           ELSE /\ \E k \in known :
                     files' = [files EXCEPT ![k].path = entry.path, ![k].len = entry.len]
                /\ UNCHANGED <<fresh, settled>>
  /\ found' = Tail(found)
  /\ UNCHANGED <<dpc, todo, trigger, shutdown>>

\* `if trigger`, and the mutex is released.
EndApply ==
  /\ dpc = "apply"
  /\ found = <<>>
  /\ RaiseTriggerIf(fresh)
  /\ fresh' = FALSE
  /\ dpc' = "idle"
  /\ UNCHANGED <<todo, found, files, shutdown>>

\* The timer fails: inspect_err stops the reader as well.
DiscoveryFail ==
  /\ dpc = "idle"
  /\ ~shutdown
  /\ shutdown' = TRUE
  /\ dpc' = "ended"
  /\ UNCHANGED <<todo, found, fresh, files, trigger>>

Discovery ==
  /\ \/ ApplyEntry
     \/ /\ DiscoveryTick \/ ScanPath \/ EndScan \/ EndApply \/ DiscoveryFail
        /\ UNCHANGED settled
  /\ UNCHANGED <<diskVars, cur, rpc, fi, batch, cut>>

-----------------------------------------------------------------------------
(* The reader                                                              *)

\* What the reader works on.
File == files[fi + 1]

\* The turn is over: the stream asks for the next item.
EndTurn == rpc' = "wait" /\ fi' = 0

\* Mutant of NextItem: take_until guards the timer's items only.
NextItemAfterShutdown ==
  /\ rpc = "wait"
  /\ UNCHANGED trigger \/ Trigger!Take("reader")
  /\ rpc' = "pick"
  /\ UNCHANGED <<files, cur, fi, batch, settled>>

\* An item of the timer or of the pulse, unless take_until has seen the signal.
NextItem ==
  /\ rpc = "wait"
  /\ ~shutdown
  /\ UNCHANGED trigger \/ Trigger!Take("reader")
  /\ rpc' = "pick"
  /\ UNCHANGED <<files, cur, fi, batch, settled>>

ReaderEnd ==
  /\ rpc = "wait"
  /\ shutdown
  /\ rpc' = "ended"
  /\ UNCHANGED <<files, cur, trigger, fi, batch, settled>>

\* Mutant of Pick: the index is not wrapped.
PickWithoutWrap ==
  /\ rpc = "pick"
  /\ StateFree
  /\ IF files = <<>>
       THEN /\ EndTurn
            /\ UNCHANGED cur
       ELSE /\ cur' = cur
            /\ fi' = cur
            /\ rpc' = "stat"
  /\ UNCHANGED <<files, trigger, batch, settled>>

\* The first and_then: `i`, or false when there is no file yet.
Pick ==
  /\ rpc = "pick"
  /\ StateFree
  /\ IF files = <<>>
       THEN /\ EndTurn
            /\ UNCHANGED cur
       ELSE /\ cur' = cur % Len(files)
            /\ fi' = cur'
            /\ rpc' = "stat"
  /\ UNCHANGED <<files, trigger, batch, settled>>

\* The file was cloned out of State before; the stat and the update need only its own
\* mutex, so discovery may be in the middle of its list.
Stat ==
  /\ rpc = "stat"
  /\ LET id == dir[File.path]
     IN  IF id = NoFile
           THEN /\ rpc' = "error"
                /\ UNCHANGED files
           ELSE /\ files' = [files EXCEPT ![fi + 1].len = size[id]]
                /\ rpc' = "check"
  /\ UNCHANGED <<cur, trigger, fi, batch, settled>>

\* Mutant of Check: a file that shrank is not read from its start again.
CheckWithoutRestart ==
  /\ rpc = "check"
  /\ StateFree
  /\ LET w == files[cur + 1]
     IN  IF w.offset = w.len
           THEN NextFile /\ EndTurn
           ELSE /\ fi' = cur
                /\ rpc' = "fill"
                /\ UNCHANGED <<cur, trigger>>
  /\ UNCHANGED <<files, batch, settled>>

\* The second and_then, up to the read: restart a file that shrank, go to the next
\* file when this one is exhausted.
Check ==
  /\ rpc = "check"
  /\ StateFree
  /\ LET w      == files[cur + 1]
         offset == IF w.offset > w.len THEN 0 ELSE w.offset
     IN  /\ files' = [files EXCEPT ![cur + 1].offset = offset]
         /\ IF offset = w.len
              THEN NextFile /\ EndTurn
              ELSE /\ fi' = cur
                   /\ rpc' = "fill"
                   /\ UNCHANGED <<cur, trigger>>
  /\ UNCHANGED <<batch, settled>>

\* `self.len - self.offset`, which wraps to more than any buffer has room for.
CanRead(w, room) ==
  IF w.offset <= w.len /\ w.len - w.offset < room THEN w.len - w.offset ELSE room

Underflows(w) == OverflowChecks /\ w.len < w.offset

\* can_read is capped by the length of the buffer and slices what is free of it: with a
\* rest of a line in the buffer that may be too much (BufDecoder says when).
Overruns(w) == MayOverrun /\ w.len # w.offset

\* Where a read of up to `room` lines ends in a file that has n lines now: read_at on a
\* regular file returns what is asked for, up to the end of the file.
ReadEnd(w, room, n) ==
  LET end == w.offset + CanRead(w, room)
  IN  IF end <= n THEN end ELSE IF w.offset <= n THEN n ELSE w.offset

\* The handle of file h, if fill_buf gets one: it is kept, or the file is opened by name.
Opens(w, h) ==
  IF w.handle = NoFile THEN h = dir[w.path] /\ h # NoFile ELSE h = w.handle

CannotOpen(w) == w.handle = NoFile /\ dir[w.path] \in Unreadable \union {NoFile}

\* History: a read from the first line of a file counts its lines anew.
CountsAnew(w, h) == w.offset = 0 /\ h = w.id

\* WatchedFile::fill_buf.  A read that fails leaves the offset and the buffer alone.
Fill ==
  /\ rpc = "fill"
  /\ \/ /\ CannotOpen(File)
        /\ rpc' = "error"
        /\ UNCHANGED <<files, batch, settled, cut>>
     \/ \E h \in Files :
          /\ Opens(File, h)
          /\ \/ /\ Underflows(File) \/ Overruns(File)
                /\ rpc' = "panicked"
                /\ files' = [files EXCEPT ![fi + 1].handle = h]
                /\ UNCHANGED <<batch, settled, cut>>
             \/ /\ ~Underflows(File)
                /\ h \in Unreadable
                /\ rpc' = "error"
                /\ files' = [files EXCEPT ![fi + 1].handle = h]
                /\ UNCHANGED <<batch, settled, cut>>
             \/ /\ ~Underflows(File)
                /\ \E room \in 1 .. MaxChunk :
                     LET hi == ReadEnd(File, room, size[h])
                     IN  /\ files' = [files EXCEPT ![fi + 1].handle = h,
                                                   ![fi + 1].offset = hi]
                         /\ batch' = [id |-> h, lo |-> File.offset, hi |-> hi]
                /\ rpc' = "decode"
                /\ settled' = IF CountsAnew(File, h)
                                THEN [settled EXCEPT ![h] = {}] ELSE settled
                /\ cut' = IF CountsAnew(File, h) THEN cut \ {h} ELSE cut
  /\ UNCHANGED <<cur, trigger, fi>>

\* WatchedFile::decode.  An error drops the events decoded before it.
Decode ==
  /\ rpc = "decode"
  /\ \/ /\ rpc' = "more"
        /\ UNCHANGED batch
     \/ /\ batch.id \in Corrupt
        /\ rpc' = "error"
        /\ batch' = NoBatch
  /\ UNCHANGED <<files, cur, trigger, fi, settled>>

More ==
  /\ rpc = "more"
  /\ StateFree
  /\ TriggerIfMoreFiles
  /\ rpc' = "emit"
  /\ UNCHANGED <<files, cur, fi, batch, settled>>

\* Mutant of Emit: only the first event of a batch gets out.
EmitFirst ==
  /\ rpc = "emit"
  /\ IF batch.lo < batch.hi
       THEN settled' = [settled EXCEPT ![batch.id] = @ \union {batch.lo + 1}]
       ELSE UNCHANGED settled
  /\ batch' = NoBatch
  /\ EndTurn
  /\ UNCHANGED <<files, cur, trigger>>

\* flatten: the events, one by one, before the next item is asked for.
Emit ==
  /\ rpc = "emit"
  /\ IF batch.lo < batch.hi
       THEN /\ batch' = [batch EXCEPT !.lo = @ + 1]
            /\ settled' = [settled EXCEPT ![batch.id] = @ \union {batch.lo + 1}]
            /\ UNCHANGED <<rpc, fi>>
       ELSE /\ batch' = NoBatch
            /\ EndTurn
            /\ UNCHANGED settled
  /\ UNCHANGED <<files, cur, trigger>>

\* Mutant of Error: the file that failed stays the current one.
ErrorStays ==
  /\ rpc = "error"
  /\ StateFree
  /\ EndTurn
  /\ UNCHANGED <<files, cur, trigger, batch, settled>>

\* then: the error is logged with the path of the current file.
Error ==
  /\ rpc = "error"
  /\ StateFree
  /\ NextFile
  /\ EndTurn
  /\ UNCHANGED <<files, batch, settled>>

ReadFile ==
  \/ Fill
  \/ /\ Pick \/ Stat \/ Check \/ Decode \/ More \/ Emit \/ Error
     /\ UNCHANGED cut

Reader ==
  /\ \/ ReadFile
     \/ /\ NextItem \/ ReaderEnd
        /\ UNCHANGED cut
  /\ UNCHANGED <<diskVars, shutdown, discoveryVars>>

-----------------------------------------------------------------------------
Next == Environment \/ Discovery \/ Reader

\* Ticks come, locks are fair, system calls return and the pipeline takes every event.
\* Timers do not fail, and the file system does what it likes.
Fairness ==
  /\ WF_vars(Discovery /\ ~DiscoveryFail)
  /\ SF_vars(Reader)

Spec == Init /\ [][Next]_vars /\ Fairness

-----------------------------------------------------------------------------
ReaderSteps ==
  {"wait", "pick", "stat", "check", "fill", "decode", "more", "emit", "error", "ended",
   "panicked"}

Entries == [path : Paths, id : Files, len : Nat]

WatchedFiles ==
  [id : Files, path : Paths, handle : Files \union {NoFile}, offset : Nat, len : Nat]

\* Types; no file is watched twice.
TypeOK ==
  /\ dir \in [Paths -> Files \union {NoFile}]
  /\ size \in [Files -> Nat]
  /\ born \subseteq Files
  /\ used \subseteq Paths
  /\ writes \in Nat
  /\ files \in Seq(WatchedFiles)
  /\ \A j, k \in DOMAIN files : files[j].id = files[k].id => j = k
  /\ cur \in Nat
  /\ trigger \in BOOLEAN
  /\ shutdown \in BOOLEAN
  /\ dpc \in {"idle", "scan", "apply", "ended"}
  /\ todo \in 1 .. NPaths + 1
  /\ found \in Seq(Entries)
  /\ fresh \in BOOLEAN
  /\ rpc \in ReaderSteps
  /\ fi \in Nat
  /\ batch \in [id : Files \union {NoFile}, lo : Nat, hi : Nat]
  /\ settled \in [Files -> SUBSET Nat]
  /\ cut \subseteq Files

-----------------------------------------------------------------------------
Stopped == shutdown \/ rpc = "panicked"

\* Between picking a file and being done with it the reader's index stays valid and
\* keeps naming the same file, although discovery adds files in between and the index is
\* read again under a second lock (file.rs:186-224, 256-258).
IndexInBounds ==
  /\ cur <= Len(files)
  /\ rpc \in {"stat", "check", "fill", "decode", "more", "error"}
       => cur < Len(files) /\ fi = cur

\* A reader that waits for its timer has been through the list: files after the current
\* one mean the trigger is up, or discovery is about to raise it (file.rs:167-169,
\* 345-357).  Otherwise each of them would cost a period of five seconds.
NoStall ==
  rpc = "wait" /\ ~trigger /\ cur < Len(files) => dpc = "apply" /\ fresh

InFlight(f) == IF batch.id = f THEN batch.lo + 1 .. batch.hi ELSE {}

\* The handle was opened on the file that was found, and what the offset counts has not
\* been truncated since.
Undisturbed(w) ==
  /\ w.handle \in {NoFile, w.id}
  /\ w.id \in cut => w.offset = 0

\* The offset in the file counts lines that may have been truncated.
Stale(f) == \E k \in DOMAIN files : files[k].id = f /\ ~Undisturbed(files[k])

\* A file's offset never gets ahead of what its events account for: each line below it,
\* as the file is now, was emitted or will be (file.rs:297-323).  Not so when the decoder
\* failed on the file; when it was truncated and the reader has not begun it again, which
\* it never does if the file is as long as before when it looks (file.rs:225-231); or
\* when its name led to another file the moment it was opened (file.rs:300).
NoGap ==
  \A k \in DOMAIN files :
    LET w == files[k]
    IN  w.id \notin Corrupt /\ Undisturbed(w)
          => 1 .. w.offset \subseteq settled[w.id] \union InFlight(w.id)

\* The reader never turns back in a file that did not shrink: file.rs:228 calls an offset
\* beyond the length a "file shrunk".
RestartsOnlyShrunkFiles ==
  [][\A k \in DOMAIN files :
       files'[k].offset < files[k].offset => size[files[k].id] < files[k].offset]_vars

\* Every line of a file that keeps a name the patterns match, and is not truncated while
\* the reader is in it, is emitted, whatever happens to the other files: truncated,
\* removed, not readable, not decodable.
EventuallyEmitted ==
  \A f \in Files \ (Corrupt \union Unreadable), n \in 1 .. InitialLines + MaxWrites :
    size[f] >= n /\ ~Stale(f)
      ~> n \in settled[f] \/ size[f] < n \/ Stale(f) \/ ~Linked(f) \/ Stopped

\* No file keeps the reader from the others: it always gets to the end of its list.  This
\* takes files that do not grow for ever: one that does, as fast as it is read, is never
\* exhausted, and the reader stays with it (file.rs:231, 247).
RoundsComplete == []<>(cur = Len(files) \/ Stopped)

\* When discovery fails the reader's stream ends (file.rs:174-177, 185).
ShutdownEndsReader == shutdown ~> rpc \in {"ended", "panicked"}
=============================================================================
