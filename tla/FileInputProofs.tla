-------------------------- MODULE FileInputProofs --------------------------
(***************************************************************************)
(* Proofs about FileInput.tla, for any set of files, any number of names,  *)
(* any bounds and any of its switches: the types, that the reader's index  *)
(* is valid whenever it is used, that the reader does not wait while it    *)
(* has files to look at, and that no line of an undisturbed file is left   *)
(* behind.  Only OpensWhatItFound assumes that no name is used again.      *)
(***************************************************************************)
EXTENDS FileInput, SequenceTheorems, TLAPS

-----------------------------------------------------------------------------
(* The list of watched files                                               *)

\* The list keeps its files: none is dropped, none becomes another one.
KeepsFiles ==
  /\ files' \in Seq(WatchedFiles)
  /\ Len(files') = Len(files)
  /\ \A j \in 1 .. Len(files) : files'[j].id = files[j].id

LEMMA ReplaceFile ==
  ASSUME files \in Seq(WatchedFiles),
         NEW k \in 1 .. Len(files),
         NEW w \in WatchedFiles,
         w.id = files[k].id,
         files' = [files EXCEPT ![k] = w]
  PROVE  /\ KeepsFiles
         /\ files'[k] = w
         /\ \A j \in 1 .. Len(files) : j # k => files'[j] = files[j]
BY ExceptSeq, LenProperties DEF KeepsFiles

LEMMA KeepsDistinct ==
  ASSUME files \in Seq(WatchedFiles),
         \A j, k \in DOMAIN files : files[j].id = files[k].id => j = k,
         KeepsFiles
  PROVE  \A j, k \in DOMAIN files' : files'[j].id = files'[k].id => j = k
<1>1. DOMAIN files' = 1 .. Len(files) /\ DOMAIN files = 1 .. Len(files)
  BY LenProperties DEF KeepsFiles
<1> QED
  BY <1>1 DEF KeepsFiles

LEMMA AppendFile ==
  ASSUME files \in Seq(WatchedFiles),
         NEW w \in WatchedFiles,
         files' = Append(files, w)
  PROVE  /\ files' \in Seq(WatchedFiles)
         /\ Len(files') = Len(files) + 1
         /\ files'[Len(files) + 1] = w
         /\ \A j \in 1 .. Len(files) : files'[j] = files[j]
BY AppendProperties

\* The index after `cur_file_idx %= files.len()`.
LEMMA Wrapped ==
  ASSUME NEW a \in Nat, NEW n \in Nat, n # 0
  PROVE  a % n \in 0 .. n - 1
OBVIOUS

-----------------------------------------------------------------------------
(* Types and the index                                                     *)

Core == TypeOK /\ IndexInBounds

LEMMA CoreInit == Init => Core
<1> USE FileInputAssumption
<1> SUFFICES ASSUME Init PROVE Core
  OBVIOUS
<1> USE DEF Init
<1>1. files \in Seq(WatchedFiles) /\ Len(files) = 0 /\ DOMAIN files = {}
  OBVIOUS
<1>2. found \in Seq(Entries)
  OBVIOUS
<1>3. batch \in [id : Files \union {NoFile}, lo : Nat, hi : Nat]
  BY DEF NoBatch
<1>4. /\ dir \in [Paths -> Files \union {NoFile}]
      /\ size \in [Files -> Nat]
      /\ settled \in [Files -> SUBSET Nat]
      /\ cut \subseteq Files
  OBVIOUS
<1>5. IndexInBounds
  BY <1>1 DEF IndexInBounds
<1>6. \A j, k \in DOMAIN files : files[j].id = files[k].id => j = k
  BY <1>1
<1>7. todo \in 1 .. NPaths + 1 /\ cur \in Nat /\ fi \in Nat /\ writes \in Nat
  OBVIOUS
<1> QED
  BY <1>1, <1>2, <1>3, <1>4, <1>5, <1>6, <1>7 DEF Core, TypeOK, ReaderSteps

LEMMA CoreEnvironment == Core /\ Environment => Core'
<1> SUFFICES ASSUME Core, Environment PROVE Core'
  OBVIOUS
<1> USE FileInputAssumption
<1>1. UNCHANGED <<files, cur, trigger, shutdown, discoveryVars, readerVars>>
  BY DEF Environment
<1> DEFINE DiskOK ==
      /\ dir \in [Paths -> Files \union {NoFile}]
      /\ size \in [Files -> Nat]
      /\ born \subseteq Files
      /\ used \subseteq Paths
      /\ writes \in Nat
      /\ settled \in [Files -> SUBSET Nat]
      /\ cut \subseteq Files
<1>2. DiskOK'
  <2> USE DEF Core, TypeOK
  <2>1. ASSUME NEW p \in Paths, NEW f \in Files, Create(p, f) PROVE DiskOK'
    BY <2>1 DEF Create, history
  <2>2. ASSUME NEW f \in Files, Write(f) PROVE DiskOK'
    BY <2>2 DEF Write, history
  <2>3. ASSUME NEW f \in Files, Truncate(f) PROVE DiskOK'
    BY <2>3 DEF Truncate
  <2>4. ASSUME NEW p \in Paths, NEW q \in Paths, Rename(p, q) PROVE DiskOK'
    BY <2>4 DEF Rename, history
  <2>5. ASSUME NEW p \in Paths, Unlink(p) PROVE DiskOK'
    BY <2>5 DEF Unlink, history
  <2> HIDE DEF Core, TypeOK, DiskOK
  <2> QED
    BY <2>1, <2>2, <2>3, <2>4, <2>5 DEF Environment
<1> QED
  BY <1>1, <1>2 DEF Core, TypeOK, IndexInBounds, discoveryVars, readerVars

LEMMA CoreDiscovery == Core /\ Discovery => Core'
<1> SUFFICES ASSUME Core, Discovery PROVE Core'
  OBVIOUS
<1> USE FileInputAssumption DEF Core, TypeOK, IndexInBounds, Discovery, diskVars
<1>0. Paths \subseteq Nat
  BY DEF Paths
<1>1. CASE DiscoveryTick /\ UNCHANGED settled
  BY <1>1 DEF DiscoveryTick
<1>2. CASE ScanPath /\ UNCHANGED settled
  <2>1. CASE dir[todo] = NoFile
    BY <1>0, <1>2, <2>1 DEF ScanPath, Paths
  <2>2. CASE dir[todo] # NoFile
    <3> DEFINE entry == [path |-> todo, id |-> dir[todo], len |-> size[dir[todo]]]
    <3>1. entry \in Entries
      BY <1>2, <2>2 DEF ScanPath, Entries
    <3>2. found' = Append(found, entry)
      BY <1>2, <2>2 DEF ScanPath
    <3> HIDE DEF entry
    <3>3. found' \in Seq(Entries)
      BY <3>1, <3>2, AppendProperties
    <3> QED
      BY <1>0, <1>2, <3>3 DEF ScanPath, Paths
  <2> QED
    BY <2>1, <2>2
<1>3. CASE EndScan /\ UNCHANGED settled
  BY <1>3 DEF EndScan
<1>4. CASE EndApply /\ UNCHANGED settled
  BY <1>4 DEF EndApply, RaiseTriggerIf, Trigger!Raise
<1>5. CASE DiscoveryFail /\ UNCHANGED settled
  BY <1>5 DEF DiscoveryFail
<1>6. CASE ApplyEntry
  <2> DEFINE entry == Head(found)
             known == IndicesOf(entry.id)
  <2>1. entry \in Entries /\ found' \in Seq(Entries)
    BY <1>6, HeadTailProperties DEF ApplyEntry
  <2>r. UNCHANGED <<diskVars, cur, rpc, fi, batch, cut, dpc, todo, trigger, shutdown>>
    BY <1>6 DEF ApplyEntry
  <2>2. CASE known = {}
    <3> DEFINE w == NewFile(entry)
    <3>1. w \in WatchedFiles /\ w.id = entry.id /\ 1 .. w.offset \subseteq Nat
      BY <2>1 DEF NewFile, WatchedFiles, Entries
    <3>2. /\ files' = Append(files, w)
          /\ settled' = [settled EXCEPT ![entry.id] = 1 .. w.offset]
          /\ fresh' = TRUE
      BY <1>6, <2>2 DEF ApplyEntry
    <3>3. \A j \in 1 .. Len(files) : files[j].id # w.id
      BY <2>2, <3>1 DEF IndicesOf
    <3> HIDE DEF entry, w
    <3>4. /\ files' \in Seq(WatchedFiles)
          /\ Len(files') = Len(files) + 1
          /\ \A j, k \in DOMAIN files' : files'[j].id = files'[k].id => j = k
      BY <3>1, <3>2, <3>3, AppendFile, LenProperties
    <3>5. settled' \in [Files -> SUBSET Nat]
      BY <2>1, <3>1, <3>2 DEF Entries
    <3> HIDE DEF known, Discovery
    <3>6. IndexInBounds'
      BY <2>r, <3>4
    <3>7. TypeOK'
      BY <2>1, <2>r, <3>2, <3>4, <3>5
    <3> QED
      BY <3>6, <3>7 DEF Core
  <2>3. CASE known # {}
    <3>1. PICK k \in known :
            files' = [files EXCEPT ![k].path = entry.path, ![k].len = entry.len]
      BY <1>6, <2>3 DEF ApplyEntry
    <3> DEFINE w == [files[k] EXCEPT !.path = entry.path, !.len = entry.len]
    <3>2. k \in 1 .. Len(files) /\ files[k] \in WatchedFiles
      BY LenProperties DEF IndicesOf
    <3>3. w \in WatchedFiles /\ w.id = files[k].id
      BY <2>1, <3>2 DEF WatchedFiles, Entries
    <3>4. files' = [files EXCEPT ![k] = w]
      BY <3>1, <3>2
    <3>5. KeepsFiles
      BY <3>2, <3>3, <3>4, ReplaceFile
    <3>6. UNCHANGED <<fresh, settled>>
      BY <1>6, <2>3 DEF ApplyEntry
    <3>7. /\ files' \in Seq(WatchedFiles)
          /\ Len(files') = Len(files)
          /\ \A i, j \in DOMAIN files' : files'[i].id = files'[j].id => i = j
      BY <3>5, KeepsDistinct DEF KeepsFiles
    <3> HIDE DEF entry, known, w, Discovery
    <3>8. IndexInBounds'
      BY <2>r, <3>7
    <3>9. TypeOK'
      BY <2>1, <2>r, <3>6, <3>7
    <3> QED
      BY <3>8, <3>9 DEF Core
  <2> QED
    BY <2>2, <2>3
<1> QED
  BY <1>1, <1>2, <1>3, <1>4, <1>5, <1>6

-----------------------------------------------------------------------------
(* The reader's steps                                                      *)

\* What a reader's step leaves alone.
ReaderFrame == UNCHANGED <<diskVars, shutdown, discoveryVars>>

\* A read ends where it began or after.
LEMMA ReadBounds ==
  ASSUME NEW w \in WatchedFiles, NEW room \in Nat, NEW n \in Nat
  PROVE  ReadEnd(w, room, n) \in Nat /\ w.offset <= ReadEnd(w, room, n)
<1>1. w.offset \in Nat /\ w.len \in Nat
  BY DEF WatchedFiles
<1>2. CanRead(w, room) \in Nat
  BY <1>1 DEF CanRead
<1> QED
  BY <1>1, <1>2 DEF ReadEnd

\* The current file changes and stays the same file.
LEMMA CurrentFile ==
  ASSUME Core, rpc \in {"stat", "check", "fill", "decode", "more", "error"}
  PROVE  /\ fi = cur
         /\ fi + 1 \in 1 .. Len(files)
         /\ File \in WatchedFiles
         /\ File = files[cur + 1]
<1> USE DEF Core, TypeOK, IndexInBounds
<1>1. fi = cur /\ fi + 1 \in 1 .. Len(files)
  BY LenProperties
<1> QED
  BY <1>1, ElementOfSeq DEF File

\* What TypeOK says of the list, for a step that replaces the current file.
LEMMA CurrentReplaced ==
  ASSUME Core, rpc \in {"stat", "check", "fill", "decode", "more", "error"},
         NEW w \in WatchedFiles,
         w.id = File.id,
         files' = [files EXCEPT ![fi + 1] = w]
  PROVE  /\ files' \in Seq(WatchedFiles)
         /\ Len(files') = Len(files)
         /\ \A j, k \in DOMAIN files' : files'[j].id = files'[k].id => j = k
         /\ files'[fi + 1] = w
         /\ \A j \in 1 .. Len(files) : j # fi + 1 => files'[j] = files[j]
<1>1. fi + 1 \in 1 .. Len(files) /\ files[fi + 1] = File
  BY CurrentFile DEF File
<1>2. files \in Seq(WatchedFiles)
  BY DEF Core, TypeOK
<1>3. /\ KeepsFiles
      /\ files'[fi + 1] = w
      /\ \A j \in 1 .. Len(files) : j # fi + 1 => files'[j] = files[j]
  BY <1>1, <1>2, ReplaceFile
<1>4. \A j, k \in DOMAIN files : files[j].id = files[k].id => j = k
  BY DEF Core, TypeOK
<1> QED
  BY <1>2, <1>3, <1>4, LenProperties DEF KeepsFiles

\* What each step of the reader does to the list.
LEMMA StatStep ==
  ASSUME Core, Stat
  PROVE  \/ /\ rpc' = "error"
            /\ UNCHANGED files
         \/ /\ rpc' = "check"
            /\ \E n \in Nat : files' = [files EXCEPT ![fi + 1] = [File EXCEPT !.len = n]]
<1>1. dir[File.path] # NoFile => size[dir[File.path]] \in Nat
  BY CurrentFile DEF Core, TypeOK, Stat, WatchedFiles
<1> QED
  BY <1>1 DEF Stat, File

LEMMA CheckStep ==
  ASSUME Core, Check
  PROVE  \E n \in 0 .. File.offset :
           files' = [files EXCEPT ![fi + 1] = [File EXCEPT !.offset = n]]
<1> DEFINE n == IF File.offset > File.len THEN 0 ELSE File.offset
<1>1. File.offset \in Nat
  BY CurrentFile DEF Check, WatchedFiles
<1>2. n \in 0 .. File.offset
  BY <1>1
<1>3. fi = cur /\ File = files[cur + 1]
  BY CurrentFile DEF Check
<1>4. files' = [files EXCEPT ![fi + 1].offset = n]
  BY <1>3 DEF Check
<1>5. files' = [files EXCEPT ![fi + 1] = [File EXCEPT !.offset = n]]
  BY <1>4 DEF File
<1> QED
  BY <1>2, <1>5

\* History: what a read of file h makes of it.
Counted(h) ==
  /\ settled' = IF CountsAnew(File, h) THEN [settled EXCEPT ![h] = {}] ELSE settled
  /\ cut' = IF CountsAnew(File, h) THEN cut \ {h} ELSE cut

LEMMA FillStep ==
  ASSUME Core, Fill
  PROVE  \/ /\ rpc' = "error"
            /\ UNCHANGED <<files, batch, history>>
         \/ \E h \in Files :
              /\ rpc' \in {"error", "panicked"}
              /\ Opens(File, h)
              /\ files' = [files EXCEPT ![fi + 1] = [File EXCEPT !.handle = h]]
              /\ UNCHANGED <<batch, history>>
         \/ \E h \in Files, hi \in Nat :
              /\ rpc' = "decode"
              /\ Opens(File, h)
              /\ File.offset <= hi
              /\ files' = [files EXCEPT ![fi + 1] =
                             [File EXCEPT !.handle = h, !.offset = hi]]
              /\ batch' = [id |-> h, lo |-> File.offset, hi |-> hi]
              /\ Counted(h)
<1>1. File \in WatchedFiles
  BY CurrentFile DEF Fill
<1>2. CASE rpc' = "error" /\ UNCHANGED <<files, batch, settled, cut>>
  BY <1>2 DEF history
<1>3. ASSUME NEW h \in Files,
             rpc' \in {"error", "panicked"},
             Opens(File, h),
             files' = [files EXCEPT ![fi + 1].handle = h],
             UNCHANGED <<batch, settled, cut>>
      PROVE  \E g \in Files :
               /\ rpc' \in {"error", "panicked"}
               /\ Opens(File, g)
               /\ files' = [files EXCEPT ![fi + 1] = [File EXCEPT !.handle = g]]
               /\ UNCHANGED <<batch, history>>
  <2>1. files' = [files EXCEPT ![fi + 1] = [File EXCEPT !.handle = h]]
    BY <1>3 DEF File
  <2> QED
    BY <1>3, <2>1 DEF history
<1>4. ASSUME NEW h \in Files,
             NEW room \in 1 .. MaxChunk,
             rpc' = "decode",
             Opens(File, h),
             files' = [files EXCEPT ![fi + 1].handle = h,
                                    ![fi + 1].offset = ReadEnd(File, room, size[h])],
             batch' = [id |-> h, lo |-> File.offset, hi |-> ReadEnd(File, room, size[h])],
             Counted(h)
      PROVE  \E g \in Files, hi \in Nat :
               /\ rpc' = "decode"
               /\ Opens(File, g)
               /\ File.offset <= hi
               /\ files' = [files EXCEPT ![fi + 1] =
                              [File EXCEPT !.handle = g, !.offset = hi]]
               /\ batch' = [id |-> g, lo |-> File.offset, hi |-> hi]
               /\ Counted(g)
  <2> DEFINE hi == ReadEnd(File, room, size[h])
  <2>1. room \in Nat /\ size[h] \in Nat
    BY FileInputAssumption DEF Core, TypeOK
  <2>2. hi \in Nat /\ File.offset <= hi
    BY <1>1, <2>1, ReadBounds
  <2> HIDE DEF hi
  <2>3. files' = [files EXCEPT ![fi + 1] = [File EXCEPT !.handle = h, !.offset = hi]]
    BY <1>4 DEF File, hi
  <2>4. batch' = [id |-> h, lo |-> File.offset, hi |-> hi]
    BY <1>4 DEF hi
  <2> QED
    BY <1>4, <2>2, <2>3, <2>4
<1> QED
  BY <1>2, <1>3, <1>4 DEF Fill, Counted

LEMMA CoreReader == Core /\ Reader => Core'
<1> SUFFICES ASSUME Core, Reader PROVE Core'
  OBVIOUS
<1> DEFINE
      \* What is left of Core when the frame of the reader and the list are dealt with.
      ReaderOK ==
        /\ cur \in Nat
        /\ trigger \in BOOLEAN
        /\ rpc \in ReaderSteps
        /\ fi \in Nat
        /\ batch \in [id : Files \union {NoFile}, lo : Nat, hi : Nat]
        /\ settled \in [Files -> SUBSET Nat]
        /\ IndexInBounds
      ListOK ==
        /\ files \in Seq(WatchedFiles)
        /\ \A j, k \in DOMAIN files : files[j].id = files[k].id => j = k
<1>0. ReaderOK /\ ListOK
  BY DEF Core, TypeOK
<1>n. Len(files) \in Nat /\ cur <= Len(files)
  BY LenProperties DEF Core, TypeOK, IndexInBounds
<1>f. UNCHANGED <<diskVars, shutdown, discoveryVars>>
  BY DEF Reader
\* Only a read changes which files count as truncated, and it adds none.
<1>h. cut' \subseteq cut
  <2>1. Fill => cut' \subseteq cut
    BY DEF Fill
  <2> QED
    BY <2>1 DEF Reader, ReadFile
<1>q. SUFFICES ReaderOK' /\ ListOK'
  BY <1>f, <1>h DEF Core, TypeOK, diskVars, discoveryVars
<1>b. NoBatch \in [id : Files \union {NoFile}, lo : Nat, hi : Nat]
  BY DEF NoBatch
<1>t. ASSUME NEW c \in BOOLEAN, RaiseTriggerIf(c) PROVE trigger' \in BOOLEAN
  BY <1>0, <1>t DEF RaiseTriggerIf, Trigger!Raise
\* Moving on keeps the index within the list.
<1>m. ASSUME NextFile PROVE trigger' \in BOOLEAN /\ cur' \in Nat /\ cur' <= Len(files)
  <2>1. trigger' \in BOOLEAN
    BY <1>0, <1>m DEF NextFile, RaiseTriggerIf, Trigger!Raise
  <2>2. cur' = IF cur < Len(files) THEN cur + 1 ELSE cur
    BY <1>m DEF NextFile
  <2> QED
    BY <1>0, <1>n, <2>1, <2>2
<1>p. ASSUME NEW w \in WatchedFiles, w.id = File.id,
             files' = [files EXCEPT ![fi + 1] = w],
             rpc \in {"stat", "check", "fill", "decode", "more", "error"}
      PROVE  ListOK' /\ Len(files') = Len(files)
  BY <1>p, CurrentReplaced
<1>c. rpc \in {"stat", "check", "fill", "decode", "more", "error"}
        => File \in WatchedFiles /\ fi = cur /\ cur < Len(files)
  BY CurrentFile DEF Core, IndexInBounds
<1> USE DEF ReaderSteps, IndexInBounds
<1>1. CASE NextItem
  BY <1>0, <1>1 DEF NextItem, Trigger!Take
<1>2. CASE ReaderEnd
  BY <1>0, <1>2 DEF ReaderEnd
<1>3. CASE Pick
  <2>1. CASE files = <<>>
    BY <1>0, <1>3, <2>1 DEF Pick, EndTurn
  <2>2. CASE files # <<>>
    <3>1. Len(files) # 0
      BY <1>0, <2>2, EmptySeq
    <3>2. cur' \in Nat /\ cur' < Len(files) /\ fi' = cur'
      <4>1. cur' = cur % Len(files) /\ fi' = cur'
        BY <1>3, <2>2 DEF Pick
      <4>2. cur % Len(files) \in 0 .. Len(files) - 1
        BY <1>0, <1>n, <3>1, Wrapped
      <4> QED
        BY <1>n, <4>1, <4>2
    <3> QED
      BY <1>0, <1>3, <2>2, <3>2 DEF Pick
  <2> QED
    BY <2>1, <2>2
<1>4. CASE Stat
  <2>1. UNCHANGED <<cur, trigger, fi, batch, settled>> /\ rpc = "stat"
    BY <1>4 DEF Stat
  <2>2. ASSUME NEW n \in Nat, files' = [files EXCEPT ![fi + 1] = [File EXCEPT !.len = n]]
        PROVE  ListOK' /\ Len(files') = Len(files)
    <3>1. /\ [File EXCEPT !.len = n] \in WatchedFiles
          /\ [File EXCEPT !.len = n].id = File.id
      BY <1>c, <2>1 DEF WatchedFiles
    <3> QED
      BY <1>p, <2>1, <2>2, <3>1
  <2> HIDE DEF ListOK
  <2>3. ListOK' /\ Len(files') = Len(files) /\ rpc' \in {"error", "check"}
    <3>1. CASE UNCHANGED files /\ rpc' = "error"
      BY <1>0, <3>1 DEF ListOK
    <3>2. CASE rpc' = "check"
               /\ \E n \in Nat : files' = [files EXCEPT ![fi + 1] = [File EXCEPT !.len = n]]
      BY <2>2, <3>2
    <3> QED
      BY <1>4, <3>1, <3>2, StatStep
  <2> QED
    BY <1>0, <1>c, <2>1, <2>3
<1>5. CASE Check
  <2>1. UNCHANGED <<batch, settled>> /\ rpc = "check"
    BY <1>5 DEF Check
  <2>2. PICK n \in 0 .. File.offset :
          files' = [files EXCEPT ![fi + 1] = [File EXCEPT !.offset = n]]
    BY <1>5, CheckStep
  <2>3. n \in Nat
    BY <1>c, <2>1 DEF WatchedFiles
  <2>4. [File EXCEPT !.offset = n] \in WatchedFiles /\ [File EXCEPT !.offset = n].id = File.id
    BY <1>c, <2>1, <2>3 DEF WatchedFiles
  <2>5. ListOK' /\ Len(files') = Len(files)
    BY <1>p, <2>1, <2>2, <2>4
  <2> HIDE DEF ListOK
  <2>6. \/ NextFile /\ EndTurn
        \/ fi' = cur /\ rpc' = "fill" /\ UNCHANGED <<cur, trigger>>
    BY <1>5 DEF Check
  <2> QED
    BY <1>0, <1>n, <1>c, <1>m, <2>1, <2>5, <2>6 DEF EndTurn
<1>6. CASE Fill
  <2>1. UNCHANGED <<cur, trigger, fi>> /\ rpc = "fill"
    BY <1>6 DEF Fill
  <2>2. ASSUME NEW h \in Files, NEW hi \in Nat,
               \/ files' = [files EXCEPT ![fi + 1] = [File EXCEPT !.handle = h]]
               \/ files' = [files EXCEPT ![fi + 1] =
                              [File EXCEPT !.handle = h, !.offset = hi]]
        PROVE  ListOK' /\ Len(files') = Len(files)
    <3>1. /\ [File EXCEPT !.handle = h] \in WatchedFiles
          /\ [File EXCEPT !.handle = h].id = File.id
          /\ [File EXCEPT !.handle = h, !.offset = hi] \in WatchedFiles
          /\ [File EXCEPT !.handle = h, !.offset = hi].id = File.id
      BY <1>c, <2>1 DEF WatchedFiles
    <3> QED
      BY <1>p, <2>1, <2>2, <3>1
  <2> HIDE DEF ListOK
  <2>3. CASE rpc' = "error" /\ UNCHANGED <<files, batch, history>>
    BY <1>0, <1>c, <2>1, <2>3 DEF ListOK, history
  <2>4. ASSUME NEW h \in Files,
               rpc' \in {"error", "panicked"},
               files' = [files EXCEPT ![fi + 1] = [File EXCEPT !.handle = h]],
               UNCHANGED <<batch, history>>
        PROVE  ReaderOK' /\ ListOK'
    BY <1>0, <1>c, <2>1, <2>2, <2>4 DEF history
  <2>5. ASSUME NEW h \in Files, NEW hi \in Nat,
               rpc' = "decode",
               files' = [files EXCEPT ![fi + 1] = [File EXCEPT !.handle = h, !.offset = hi]],
               batch' = [id |-> h, lo |-> File.offset, hi |-> hi],
               Counted(h)
        PROVE  ReaderOK' /\ ListOK'
    <3>1. File.offset \in Nat
      BY <1>c, <2>1 DEF WatchedFiles
    <3>2. settled' \in [Files -> SUBSET Nat]
      BY <1>0, <2>5 DEF Counted
    <3> QED
      BY <1>0, <1>c, <2>1, <2>2, <2>5, <3>1, <3>2
  <2> QED
    BY <1>6, <2>3, <2>4, <2>5, FillStep
<1>7. CASE Decode
  BY <1>0, <1>b, <1>c, <1>7 DEF Decode
<1>8. CASE More
  BY <1>0, <1>n, <1>t, <1>8 DEF More, TriggerIfMoreFiles
<1>9. CASE Emit
  <2>1. CASE batch.lo < batch.hi
    <3>1. batch.lo \in Nat /\ batch' = [batch EXCEPT !.lo = @ + 1]
      BY <1>0, <1>9, <2>1 DEF Emit
    <3>2. batch' \in [id : Files \union {NoFile}, lo : Nat, hi : Nat]
      BY <1>0, <3>1
    <3>3. settled' \in [Files -> SUBSET Nat]
      BY <1>0, <1>9, <2>1, <3>1 DEF Emit
    <3> QED
      BY <1>0, <1>9, <2>1, <3>2, <3>3 DEF Emit
  <2>2. CASE ~(batch.lo < batch.hi)
    BY <1>0, <1>b, <1>9, <2>2 DEF Emit, EndTurn
  <2> QED
    BY <2>1, <2>2
<1>10. CASE Error
  BY <1>0, <1>m, <1>10 DEF Error, EndTurn
<1> QED
  BY <1>1, <1>2, <1>3, <1>4, <1>5, <1>6, <1>7, <1>8, <1>9, <1>10 DEF Reader, ReadFile

LEMMA CoreNext == Core /\ [Next]_vars => Core'
<1>1. Core /\ UNCHANGED vars => Core'
  BY DEF Core, TypeOK, IndexInBounds, vars, diskVars, discoveryVars, readerVars, history
<1> QED
  BY <1>1, CoreEnvironment, CoreDiscovery, CoreReader DEF Next

THEOREM CoreHolds == Spec => []Core
  BY CoreInit, CoreNext, PTL DEF Spec

\* Type correctness; in particular no file is ever watched twice, although each scan
\* reports all of them again (file.rs:143-165).
THEOREM TypeCorrect == Spec => []TypeOK
<1>1. Core => TypeOK
  BY DEF Core
<1> QED
  BY <1>1, CoreHolds, PTL

\* The reader never indexes the list of files out of its bounds, and the file it checks
\* and reads is the one it asked the length of (file.rs:186-224, 256-258).
THEOREM IndexAlwaysInBounds == Spec => []IndexInBounds
<1>1. Core => IndexInBounds
  BY DEF Core
<1> QED
  BY <1>1, CoreHolds, PTL

-----------------------------------------------------------------------------
(* No stall                                                                *)

\* While events go out the trigger is up already: it was raised before them.
Rounds == NoStall /\ (rpc = "emit" => trigger)

LEMMA RoundsInit == Init => Rounds
<1>1. Init => Len(files) = 0 /\ cur = 0
  BY DEF Init
<1> QED
  BY <1>1 DEF Init, Rounds, NoStall

LEMMA RoundsDiscovery == Core /\ Rounds /\ Discovery => Rounds'
<1> SUFFICES ASSUME Core, Rounds, Discovery PROVE Rounds'
  OBVIOUS
<1>0. UNCHANGED <<cur, rpc>>
  BY DEF Discovery
<1> USE DEF Rounds, NoStall
<1>1. CASE DiscoveryTick \/ ScanPath \/ EndScan \/ DiscoveryFail
  <2>1. UNCHANGED <<files, trigger>> /\ dpc # "apply"
    BY <1>1 DEF DiscoveryTick, ScanPath, EndScan, DiscoveryFail
  <2> QED
    BY <1>0, <2>1
<1>2. CASE EndApply
  <2>1. CASE fresh
    BY <1>0, <1>2, <2>1 DEF EndApply, RaiseTriggerIf, Trigger!Raise
  <2>2. CASE ~fresh
    BY <1>0, <1>2, <2>2 DEF EndApply, RaiseTriggerIf
  <2> QED
    BY <2>1, <2>2
<1>3. CASE ApplyEntry
  <2>1. dpc' = "apply" /\ UNCHANGED trigger
    BY <1>3 DEF ApplyEntry
  <2>2. fresh' = TRUE \/ (UNCHANGED fresh /\ Len(files') = Len(files))
    <3>1. CASE IndicesOf(Head(found).id) = {}
      BY <1>3, <3>1 DEF ApplyEntry
    <3>2. CASE IndicesOf(Head(found).id) # {}
      <4>1. PICK k \in IndicesOf(Head(found).id) :
              files' = [files EXCEPT ![k].path = Head(found).path, ![k].len = Head(found).len]
        BY <1>3, <3>2 DEF ApplyEntry
      <4>2. files \in Seq(WatchedFiles)
        BY DEF Core, TypeOK
      <4>3. DOMAIN files' = DOMAIN files /\ Len(files') = Len(files)
        BY <4>1, <4>2
      <4> QED
        BY <1>3, <3>2, <4>3 DEF ApplyEntry
    <3> QED
      BY <3>1, <3>2
  <2> QED
    BY <1>0, <2>1, <2>2
<1> QED
  BY <1>1, <1>2, <1>3 DEF Discovery

LEMMA RoundsReader == Core /\ Core' /\ Rounds /\ Reader => Rounds'
<1> SUFFICES ASSUME Core, Core', Rounds, Reader PROVE Rounds'
  OBVIOUS
<1> USE DEF Rounds, NoStall
<1>0. Len(files) \in Nat /\ cur \in Nat /\ trigger \in BOOLEAN
  BY LenProperties DEF Core, TypeOK
\* Moving on raises the trigger unless the end of the list is reached.
<1>m. ASSUME NextFile, UNCHANGED Len(files), rpc' = "wait" PROVE Rounds'
  <2>1. CASE cur < Len(files) /\ cur + 1 < Len(files)
    BY <1>m, <2>1 DEF NextFile, RaiseTriggerIf, Trigger!Raise
  <2>2. CASE ~(cur < Len(files) /\ cur + 1 < Len(files))
    <3>1. cur' = IF cur < Len(files) THEN cur + 1 ELSE cur
      BY <1>m DEF NextFile
    <3>2. ~(cur' < Len(files))
      BY <1>0, <2>2, <3>1
    <3> QED
      BY <1>m, <3>2
  <2> QED
    BY <2>1, <2>2
<1>1. CASE NextItem \/ ReaderEnd \/ Stat \/ Fill \/ Decode
  BY <1>1 DEF NextItem, ReaderEnd, Stat, Fill, Decode
<1>2. CASE Pick
  <2>1. CASE files = <<>>
    <3>1. ~(cur < Len(files))
      BY <1>0, <2>1
    <3> QED
      BY <1>2, <2>1, <3>1 DEF Pick, EndTurn
  <2>2. CASE files # <<>>
    BY <1>2, <2>2 DEF Pick
  <2> QED
    BY <2>1, <2>2
<1>3. CASE Check
  <2>1. files \in Seq(WatchedFiles)
    BY DEF Core, TypeOK
  <2>2. Len(files') = Len(files)
    BY <1>3, <2>1 DEF Check
  <2> QED
    BY <1>3, <1>m, <2>2 DEF Check, EndTurn
<1>4. CASE More
  <2>1. cur < Len(files)
    BY <1>4 DEF More, Core, IndexInBounds
  <2> QED
    BY <1>4, <2>1 DEF More, TriggerIfMoreFiles, RaiseTriggerIf, Trigger!Raise
<1>5. CASE Emit
  BY <1>5 DEF Emit, EndTurn
<1>6. CASE Error
  BY <1>6, <1>m DEF Error, EndTurn
<1> QED
  BY <1>1, <1>2, <1>3, <1>4, <1>5, <1>6 DEF Reader, ReadFile

\* A reader that waits for its timer has been through the whole list, whatever discovery
\* adds meanwhile: the trigger cannot be missed (file.rs:167-169, 345-357).
THEOREM ReaderNeverStalls == Spec => []NoStall
<1>1. Init => Core /\ Rounds
  BY CoreInit, RoundsInit
<1>2. Core /\ Rounds /\ [Next]_vars => (Core /\ Rounds)'
  <2>1. Rounds /\ (UNCHANGED vars \/ Environment) => Rounds'
    BY DEF Rounds, NoStall, vars, diskVars, discoveryVars, readerVars, Environment
  <2> QED
    BY <2>1, CoreNext, RoundsDiscovery, RoundsReader DEF Next
<1>3. Rounds => NoStall
  BY DEF Rounds
<1> QED
  BY <1>1, <1>2, <1>3, PTL DEF Spec

-----------------------------------------------------------------------------
(* A file's handle is its own, when no name is used for a second file      *)

\* The name, if it is still there, is a name of the file.
OnlyNameOf(p, f) == p \in used /\ dir[p] \in {f, NoFile}

Names ==
  /\ \A p \in Paths : dir[p] # NoFile => p \in used
  /\ \A k \in DOMAIN files : OnlyNameOf(files[k].path, files[k].id)
  /\ \A k \in DOMAIN found : OnlyNameOf(found[k].path, found[k].id)

\* So opening a file by its name opens that file.
Handles == \A k \in DOMAIN files : files[k].handle \in {NoFile, files[k].id}

OwnInv == Names /\ Handles

LEMMA OwnInit == Init => OwnInv
<1> SUFFICES ASSUME Init PROVE OwnInv
  OBVIOUS
<1>1. DOMAIN files = {} /\ DOMAIN found = {}
  BY DEF Init
<1> QED
  BY <1>1 DEF Init, OwnInv, Names, Handles

LEMMA OwnEnvironment ==
  ASSUME ~MayReusePath, Core, OwnInv, Environment
  PROVE  OwnInv'
<1>0. UNCHANGED <<files, found>>
  BY DEF Environment, discoveryVars
<1>1. Handles'
  BY <1>0 DEF OwnInv, Handles
<1>d. dir \in [Paths -> Files \union {NoFile}] /\ used \subseteq Paths
  BY DEF Core, TypeOK
\* A name once used keeps its file or becomes vacant.
<1>2. ASSUME NEW p \in Paths, p \in used
      PROVE  p \in used' /\ dir'[p] \in {dir[p], NoFile}
  <2>1. ASSUME NEW q \in Paths, NEW f \in Files, Create(q, f)
        PROVE  p \in used' /\ dir'[p] \in {dir[p], NoFile}
    BY <1>2, <1>d, <2>1 DEF Create, Vacant
  <2>2. ASSUME NEW q1 \in Paths, NEW q2 \in Paths, Rename(q1, q2)
        PROVE  p \in used' /\ dir'[p] \in {dir[p], NoFile}
    BY <1>2, <1>d, <2>2 DEF Rename, Vacant
  <2>3. ASSUME NEW q \in Paths, Unlink(q)
        PROVE  p \in used' /\ dir'[p] \in {dir[p], NoFile}
    BY <1>2, <1>d, <2>3 DEF Unlink
  <2> QED
    BY <1>2, <2>1, <2>2, <2>3 DEF Environment, Write, Truncate
<1>3. ASSUME NEW p \in Paths, dir'[p] # NoFile PROVE p \in used'
  <2>1. CASE p \in used
    BY <1>2, <2>1
  <2>2. CASE p \notin used
    <3>1. dir[p] = NoFile
      BY <2>2 DEF OwnInv, Names
    <3>2. ASSUME NEW q \in Paths, NEW f \in Files, Create(q, f) PROVE p \in used'
      BY <1>3, <1>d, <3>1, <3>2 DEF Create
    <3>3. ASSUME NEW q1 \in Paths, NEW q2 \in Paths, Rename(q1, q2) PROVE p \in used'
      BY <1>3, <1>d, <3>1, <3>3 DEF Rename
    <3>4. ASSUME NEW q \in Paths, Unlink(q) PROVE p \in used'
      BY <1>3, <1>d, <3>1, <3>4 DEF Unlink
    <3>5. ASSUME NEW f \in Files, Write(f) \/ Truncate(f) PROVE p \in used'
      BY <1>3, <3>1, <3>5 DEF Write, Truncate
    <3> QED
      BY <3>2, <3>3, <3>4, <3>5 DEF Environment
  <2> QED
    BY <2>1, <2>2
<1>4. ASSUME NEW p, NEW f, OnlyNameOf(p, f) PROVE OnlyNameOf(p, f)'
  BY <1>2, <1>4, <1>d DEF OnlyNameOf
<1>5. Names'
  BY <1>0, <1>3, <1>4 DEF OwnInv, Names
<1> QED
  BY <1>1, <1>5 DEF OwnInv

LEMMA OwnDiscovery ==
  ASSUME Core, OwnInv, Discovery
  PROVE  OwnInv'
<1>0. UNCHANGED <<dir, used>>
  BY DEF Discovery, diskVars
<1>s. files \in Seq(WatchedFiles) /\ found \in Seq(Entries)
  BY DEF Core, TypeOK
<1>1. CASE DiscoveryTick \/ EndScan \/ EndApply \/ DiscoveryFail
  <2>1. UNCHANGED <<files, found>>
    BY <1>1 DEF DiscoveryTick, EndScan, EndApply, DiscoveryFail
  <2> QED
    BY <1>0, <2>1 DEF OwnInv, Names, OnlyNameOf, Handles
<1>2. CASE ScanPath
  <2>1. UNCHANGED files
    BY <1>2 DEF ScanPath
  <2>3. ASSUME NEW k \in DOMAIN found' PROVE OnlyNameOf(found'[k].path, found'[k].id)
    <3>1. CASE dir[todo] = NoFile
      BY <1>2, <2>3, <3>1 DEF ScanPath, OwnInv, Names
    <3>2. CASE dir[todo] # NoFile
      <4> DEFINE entry == [path |-> todo, id |-> dir[todo], len |-> size[dir[todo]]]
      <4>1. found' = Append(found, entry)
        BY <1>2, <3>2 DEF ScanPath
      <4>2. entry \in Entries
        BY <1>2, <3>2 DEF Core, TypeOK, ScanPath, Entries
      <4>3. OnlyNameOf(entry.path, entry.id)
        BY <1>2, <3>2 DEF ScanPath, OwnInv, Names, OnlyNameOf
      <4> HIDE DEF entry
      <4>4. k \in 1 .. Len(found) + 1 /\ DOMAIN found = 1 .. Len(found)
        BY <1>s, <2>3, <4>1, <4>2, AppendProperties, LenProperties
      <4>5. found'[k] = IF k \in 1 .. Len(found) THEN found[k] ELSE entry
        BY <1>s, <4>1, <4>2, <4>4, AppendProperties, LenProperties
      <4> QED
        BY <4>3, <4>4, <4>5 DEF OwnInv, Names
    <3> QED
      BY <3>1, <3>2
  <2> QED
    BY <1>0, <2>1, <2>3 DEF OwnInv, Names, OnlyNameOf, Handles
<1>3. CASE ApplyEntry
  <2> DEFINE entry == Head(found)
             known == IndicesOf(entry.id)
  <2>1. /\ entry \in Entries
        /\ found' \in Seq(Entries)
        /\ Len(found') = Len(found) - 1
        /\ \A k \in 1 .. Len(found') : found'[k] = found[k + 1]
    BY <1>s, <1>3, HeadTailProperties DEF ApplyEntry
  <2>2. OnlyNameOf(entry.path, entry.id)
    <3>1. 1 \in DOMAIN found /\ entry = found[1]
      BY <1>s, <1>3, LenProperties DEF ApplyEntry
    <3> QED
      BY <3>1 DEF OwnInv, Names
  <2>3. \A k \in DOMAIN found' : OnlyNameOf(found'[k].path, found'[k].id)
    <3>1. \A k \in DOMAIN found' : k + 1 \in DOMAIN found /\ found'[k] = found[k + 1]
      BY <1>s, <2>1, LenProperties
    <3> QED
      BY <3>1 DEF OwnInv, Names
  <2>4. CASE known = {}
    <3> DEFINE w == NewFile(entry)
    <3>1. /\ w \in WatchedFiles
          /\ w.id = entry.id
          /\ w.path = entry.path
          /\ w.handle = NoFile
      BY <2>1 DEF NewFile, WatchedFiles, Entries
    <3>2. files' = Append(files, w)
      BY <1>3, <2>4 DEF ApplyEntry
    <3> HIDE DEF entry, known, w
    <3>3. /\ DOMAIN files = 1 .. Len(files)
          /\ DOMAIN files' = 1 .. Len(files) + 1
          /\ files'[Len(files) + 1] = w
          /\ \A j \in 1 .. Len(files) : files'[j] = files[j]
          /\ Len(files) \in Nat
      BY <1>s, <3>1, <3>2, AppendFile, LenProperties
    <3>4. Names'
      BY <1>0, <2>2, <2>3, <3>1, <3>3 DEF OwnInv, Names, OnlyNameOf
    <3>5. Handles'
      BY <3>1, <3>3 DEF OwnInv, Handles
    <3> QED
      BY <3>4, <3>5 DEF OwnInv
  <2>5. CASE known # {}
    <3>1. PICK k \in known :
            files' = [files EXCEPT ![k].path = entry.path, ![k].len = entry.len]
      BY <1>3, <2>5 DEF ApplyEntry
    <3> DEFINE w == [files[k] EXCEPT !.path = entry.path, !.len = entry.len]
    <3>2. k \in 1 .. Len(files) /\ files[k] \in WatchedFiles /\ files[k].id = entry.id
      BY <1>s, LenProperties DEF IndicesOf
    <3>3. /\ w \in WatchedFiles
          /\ w.id = files[k].id
          /\ w.path = entry.path
          /\ w.handle = files[k].handle
      BY <2>1, <3>2 DEF WatchedFiles, Entries
    <3>4. files' = [files EXCEPT ![k] = w]
      BY <3>1, <3>2
    <3> HIDE DEF entry, known, w
    <3>5. /\ DOMAIN files = 1 .. Len(files)
          /\ DOMAIN files' = 1 .. Len(files)
          /\ files'[k] = w
          /\ \A j \in 1 .. Len(files) : j # k => files'[j] = files[j]
      BY <1>s, <3>2, <3>3, <3>4, ReplaceFile, LenProperties DEF KeepsFiles
    <3>6. Names'
      BY <1>0, <2>2, <2>3, <3>2, <3>3, <3>5 DEF OwnInv, Names, OnlyNameOf
    <3>7. Handles'
      BY <3>3, <3>5 DEF OwnInv, Handles
    <3> QED
      BY <3>6, <3>7 DEF OwnInv
  <2> QED
    BY <2>4, <2>5
<1> QED
  BY <1>1, <1>2, <1>3 DEF Discovery

LEMMA OwnReader ==
  ASSUME Core, OwnInv, Reader
  PROVE  OwnInv'
<1>f. UNCHANGED <<dir, used, found>>
  BY DEF Reader, diskVars, discoveryVars
<1>s. files \in Seq(WatchedFiles) /\ DOMAIN files = 1 .. Len(files)
  BY LenProperties DEF Core, TypeOK
<1>1. ASSUME UNCHANGED files PROVE OwnInv'
  BY <1>f, <1>1 DEF OwnInv, Names, OnlyNameOf, Handles
\* The current file keeps its name; its handle is kept, or is the file itself.
<1>2. ASSUME rpc \in {"stat", "check", "fill"},
             NEW w \in WatchedFiles,
             w.id = File.id,
             w.path = File.path,
             w.handle \in {File.handle, File.id},
             files' = [files EXCEPT ![fi + 1] = w]
      PROVE  OwnInv'
  <2>1. /\ Len(files') = Len(files)
        /\ files' \in Seq(WatchedFiles)
        /\ files'[fi + 1] = w
        /\ \A j \in 1 .. Len(files) : j # fi + 1 => files'[j] = files[j]
    BY <1>2, CurrentReplaced
  <2>2. DOMAIN files' = DOMAIN files
    BY <1>s, <2>1, LenProperties
  <2>3. \A k \in DOMAIN files : /\ files'[k].id = files[k].id
                                /\ files'[k].path = files[k].path
                                /\ files'[k].handle \in {files[k].handle, files[k].id}
    BY <1>s, <1>2, <2>1 DEF File
  <2> QED
    BY <1>f, <2>2, <2>3 DEF OwnInv, Names, OnlyNameOf, Handles
<1>3. CASE NextItem \/ ReaderEnd \/ Pick \/ Decode \/ More \/ Emit \/ Error
  BY <1>1, <1>3 DEF NextItem, ReaderEnd, Pick, Decode, More, Emit, Error
<1>4. CASE Stat
  <2>1. rpc = "stat"
    BY <1>4 DEF Stat
  <2>2. ASSUME NEW n \in Nat, files' = [files EXCEPT ![fi + 1] = [File EXCEPT !.len = n]]
        PROVE  OwnInv'
    <3> DEFINE w == [File EXCEPT !.len = n]
    <3>1. w \in WatchedFiles /\ w.id = File.id /\ w.path = File.path /\ w.handle = File.handle
      BY <2>1, CurrentFile DEF WatchedFiles
    <3>2. files' = [files EXCEPT ![fi + 1] = w]
      BY <2>2
    <3> HIDE DEF w
    <3> QED
      BY <1>2, <2>1, <3>1, <3>2
  <2> QED
    BY <1>1, <1>4, <2>2, StatStep
<1>5. CASE Check
  <2>1. rpc = "check"
    BY <1>5 DEF Check
  <2>2. PICK n \in 0 .. File.offset :
          files' = [files EXCEPT ![fi + 1] = [File EXCEPT !.offset = n]]
    BY <1>5, CheckStep
  <2> DEFINE w == [File EXCEPT !.offset = n]
  <2>3. n \in Nat
    BY <2>1, CurrentFile DEF WatchedFiles
  <2>4. w \in WatchedFiles /\ w.id = File.id /\ w.path = File.path /\ w.handle = File.handle
    BY <2>1, <2>3, CurrentFile DEF WatchedFiles
  <2>5. files' = [files EXCEPT ![fi + 1] = w]
    BY <2>2
  <2> HIDE DEF w
  <2> QED
    BY <1>2, <2>1, <2>4, <2>5
<1>6. CASE Fill
  <2>1. rpc = "fill"
    BY <1>6 DEF Fill
  <2>2. fi + 1 \in DOMAIN files /\ File \in WatchedFiles /\ File = files[fi + 1]
    BY <1>s, <2>1, CurrentFile DEF File
  \* The handle is the file's own: it was, or the name led to it.
  <2>3. ASSUME NEW h \in Files, Opens(File, h) PROVE h = File.id
    <3>1. OnlyNameOf(File.path, File.id) /\ File.handle \in {NoFile, File.id}
      BY <2>2 DEF OwnInv, Names, Handles
    <3> QED
      BY <2>3, <3>1, FileInputAssumption DEF OnlyNameOf, Opens
  <2>4. ASSUME NEW h \in Files, Opens(File, h),
               files' = [files EXCEPT ![fi + 1] = [File EXCEPT !.handle = h]]
        PROVE  OwnInv'
    <3> DEFINE w == [File EXCEPT !.handle = h]
    <3>1. w \in WatchedFiles /\ w.id = File.id /\ w.path = File.path /\ w.handle = File.id
      BY <2>2, <2>3, <2>4 DEF WatchedFiles
    <3>2. files' = [files EXCEPT ![fi + 1] = w]
      BY <2>4
    <3> HIDE DEF w
    <3> QED
      BY <1>2, <2>1, <3>1, <3>2
  <2>5. ASSUME NEW h \in Files, NEW hi \in Nat, Opens(File, h),
               files' = [files EXCEPT ![fi + 1] = [File EXCEPT !.handle = h, !.offset = hi]]
        PROVE  OwnInv'
    <3> DEFINE w == [File EXCEPT !.handle = h, !.offset = hi]
    <3>1. w \in WatchedFiles /\ w.id = File.id /\ w.path = File.path /\ w.handle = File.id
      BY <2>2, <2>3, <2>5 DEF WatchedFiles
    <3>2. files' = [files EXCEPT ![fi + 1] = w]
      BY <2>5
    <3> HIDE DEF w
    <3> QED
      BY <1>2, <2>1, <3>1, <3>2
  <2> QED
    BY <1>1, <1>6, <2>4, <2>5, FillStep
<1> QED
  BY <1>3, <1>4, <1>5, <1>6 DEF Reader, ReadFile

\* As long as no name is used for a second file, opening a file by its name, long after
\* the name was found, is opening that file (file.rs:204, 300).  Log rotation does use
\* names again; then the exception that Undisturbed makes is a real one.
THEOREM OpensWhatItFound ==
  ASSUME ~MayReusePath
  PROVE  Spec => []Handles
<1>1. Init => Core /\ OwnInv
  BY CoreInit, OwnInit
<1>2. Core /\ OwnInv /\ [Next]_vars => (Core /\ OwnInv)'
  <2>1. OwnInv /\ UNCHANGED vars => OwnInv'
    BY DEF OwnInv, Names, OnlyNameOf, Handles, vars, diskVars, discoveryVars
  <2> QED
    BY <2>1, CoreNext, OwnEnvironment, OwnDiscovery, OwnReader DEF Next
<1>3. OwnInv => Handles
  BY DEF OwnInv
<1> QED
  BY <1>1, <1>2, <1>3, PTL DEF Spec

-----------------------------------------------------------------------------
(* No gap, whatever the file system does                                   *)

\* Lines are on their way out only between a read and the end of its turn.
Batch == rpc \notin {"decode", "more", "emit"} => batch = NoBatch

GapInv == Batch /\ NoGap

LEMMA GapInit == Init => GapInv
<1> SUFFICES ASSUME Init PROVE GapInv
  OBVIOUS
<1>1. DOMAIN files = {}
  BY DEF Init
<1> QED
  BY <1>1 DEF Init, GapInv, Batch, NoGap

LEMMA GapEnvironment ==
  ASSUME Core, GapInv, Environment
  PROVE  GapInv'
<1>0. UNCHANGED <<files, found, rpc, batch>>
  BY DEF Environment, discoveryVars, readerVars
<1>1. Batch'
  BY <1>0 DEF GapInv, Batch
<1>2. CASE UNCHANGED history
  BY <1>0, <1>1, <1>2 DEF GapInv, NoGap, Undisturbed, InFlight, history
\* A file that is truncated and watched is excepted until the reader begins it again.
<1>3. ASSUME NEW f \in Files, Truncate(f) PROVE NoGap'
  <2> SUFFICES ASSUME NEW k \in DOMAIN files,
                      files[k].id \notin Corrupt,
                      Undisturbed(files[k])'
               PROVE  (1 .. files[k].offset
                         \subseteq settled[files[k].id] \union InFlight(files[k].id))'
    BY <1>0 DEF NoGap
  <2>1. /\ settled' = [settled EXCEPT ![f] = {}]
        /\ cut' = IF Known(f) THEN cut \union {f} ELSE cut
    BY <1>3 DEF Truncate
  <2>2. CASE files[k].id = f
    <3>1. f \in cut'
      BY <2>1, <2>2 DEF Known
    <3>2. files[k].offset = 0
      BY <1>0, <2>2, <3>1 DEF Undisturbed
    <3>3. 1 .. files[k].offset = {}
      BY <3>2
    <3> QED
      BY <1>0, <3>3
  <2>3. CASE files[k].id # f
    <3>1. Undisturbed(files[k])
      BY <1>0, <2>1, <2>3 DEF Undisturbed
    <3>2. settled'[files[k].id] = settled[files[k].id]
      BY <2>1, <2>3 DEF Core, TypeOK
    <3>3. InFlight(files[k].id)' = InFlight(files[k].id)
      BY <1>0 DEF InFlight
    <3> QED
      BY <1>0, <3>1, <3>2, <3>3 DEF GapInv, NoGap
  <2> QED
    BY <2>2, <2>3
<1> QED
  BY <1>1, <1>2, <1>3 DEF GapInv, Environment, Create, Write, Rename, Unlink

LEMMA GapDiscovery ==
  ASSUME Core, GapInv, Discovery
  PROVE  GapInv'
<1>0. UNCHANGED <<rpc, batch, cut>>
  BY DEF Discovery
<1>s. files \in Seq(WatchedFiles) /\ found \in Seq(Entries)
  BY DEF Core, TypeOK
<1>b. Batch'
  BY <1>0 DEF GapInv, Batch
<1>1. CASE UNCHANGED <<files, settled>>
  BY <1>0, <1>b, <1>1 DEF GapInv, NoGap, Undisturbed, InFlight
<1>2. CASE ApplyEntry
  <2> DEFINE entry == Head(found)
             known == IndicesOf(entry.id)
  <2>1. entry \in Entries
    BY <1>s, <1>2, HeadTailProperties DEF ApplyEntry
  <2>2. CASE known = {}
    <3> DEFINE w == NewFile(entry)
    <3>1. w \in WatchedFiles /\ w.id = entry.id
      BY <2>1 DEF NewFile, WatchedFiles, Entries
    <3>2. /\ files' = Append(files, w)
          /\ settled' = [settled EXCEPT ![entry.id] = 1 .. w.offset]
      BY <1>2, <2>2 DEF ApplyEntry
    <3>3. \A j \in 1 .. Len(files) : files[j].id # entry.id
      BY <2>2, <1>s, LenProperties DEF IndicesOf
    <3>4. entry.id \in Files /\ settled \in [Files -> SUBSET Nat]
      BY <2>1 DEF Entries, Core, TypeOK
    <3> HIDE DEF entry, known, w
    <3>5. /\ DOMAIN files = 1 .. Len(files)
          /\ DOMAIN files' = 1 .. Len(files) + 1
          /\ files'[Len(files) + 1] = w
          /\ \A j \in 1 .. Len(files) : files'[j] = files[j]
          /\ Len(files) \in Nat
      BY <1>s, <3>1, <3>2, AppendFile, LenProperties
    <3>6. \A j \in 1 .. Len(files) : files[j].id \in Files
      <4>1. \A j \in 1 .. Len(files) : files[j] \in WatchedFiles
        BY <1>s, ElementOfSeq
      <4> QED
        BY <4>1 DEF WatchedFiles
    <3>7. \A j \in 1 .. Len(files) : settled'[files[j].id] = settled[files[j].id]
      BY <3>2, <3>3, <3>4, <3>6
    <3>8. settled'[w.id] = 1 .. w.offset
      BY <3>1, <3>2, <3>4
    <3>9. NoGap'
      <4> SUFFICES ASSUME NEW k \in DOMAIN files',
                          files'[k].id \notin Corrupt,
                          Undisturbed(files[k])'
                   PROVE  1 .. files'[k].offset
                            \subseteq settled'[files'[k].id] \union InFlight(files'[k].id)
        BY <1>0 DEF NoGap, InFlight
      <4>1. CASE k = Len(files) + 1
        BY <3>1, <3>5, <3>8, <4>1
      <4>2. CASE k \in 1 .. Len(files)
        <5>1. Undisturbed(files[k])
          BY <1>0, <3>5, <4>2 DEF Undisturbed
        <5> QED
          BY <3>5, <3>7, <4>2, <5>1 DEF GapInv, NoGap
      <4> QED
        BY <3>5, <4>1, <4>2
    <3> QED
      BY <1>b, <3>9 DEF GapInv
  <2>3. CASE known # {}
    <3>1. PICK k \in known :
            files' = [files EXCEPT ![k].path = entry.path, ![k].len = entry.len]
      BY <1>2, <2>3 DEF ApplyEntry
    <3>2. UNCHANGED settled
      BY <1>2, <2>3 DEF ApplyEntry
    <3> DEFINE w == [files[k] EXCEPT !.path = entry.path, !.len = entry.len]
    <3>3. k \in 1 .. Len(files) /\ files[k] \in WatchedFiles
      BY <1>s, LenProperties DEF IndicesOf
    <3>4. /\ w \in WatchedFiles
          /\ w.id = files[k].id
          /\ w.handle = files[k].handle
          /\ w.offset = files[k].offset
      BY <2>1, <3>3 DEF WatchedFiles, Entries
    <3>5. files' = [files EXCEPT ![k] = w]
      BY <3>1, <3>3
    <3> HIDE DEF entry, known, w
    <3>6. /\ DOMAIN files = 1 .. Len(files)
          /\ DOMAIN files' = 1 .. Len(files)
          /\ files'[k] = w
          /\ \A j \in 1 .. Len(files) : j # k => files'[j] = files[j]
      BY <1>s, <3>3, <3>4, <3>5, ReplaceFile, LenProperties DEF KeepsFiles
    <3>7. \A j \in DOMAIN files : /\ files'[j].id = files[j].id
                                  /\ files'[j].handle = files[j].handle
                                  /\ files'[j].offset = files[j].offset
      BY <3>4, <3>6
    <3>8. NoGap'
      BY <1>0, <3>2, <3>6, <3>7 DEF GapInv, NoGap, Undisturbed, InFlight
    <3> QED
      BY <1>b, <3>8 DEF GapInv
  <2> QED
    BY <2>2, <2>3
<1> QED
  BY <1>1, <1>2
  DEF Discovery, DiscoveryTick, ScanPath, EndScan, EndApply, DiscoveryFail

\* A step that reads nothing and emits nothing, and moves no offset forward.
LEMMA GapKept ==
  ASSUME NoGap,
         UNCHANGED <<history, batch>>,
         DOMAIN files' = DOMAIN files,
         \A k \in DOMAIN files :
           /\ files'[k].id = files[k].id
           /\ files[k].handle \in {NoFile, files'[k].handle}
           /\ files[k].offset \in Nat
           /\ files'[k].offset \in 0 .. files[k].offset
  PROVE  NoGap'
<1> SUFFICES ASSUME NEW k \in DOMAIN files,
                    files[k].id \notin Corrupt,
                    Undisturbed(files[k])'
             PROVE  1 .. files'[k].offset
                      \subseteq settled[files[k].id] \union InFlight(files[k].id)
  BY DEF NoGap, InFlight, history
<1>0. files'[k].offset \in 0 .. files[k].offset /\ files[k].offset \in Nat
  OBVIOUS
<1>1. CASE files'[k].offset = 0
  <2>1. 1 .. files'[k].offset = {}
    BY <1>1
  <2> QED
    BY <2>1
<1>2. CASE files'[k].offset # 0
  <2>1. Undisturbed(files[k])
    BY <1>2 DEF Undisturbed, history
  <2>2. 1 .. files[k].offset \subseteq settled[files[k].id] \union InFlight(files[k].id)
    BY <2>1 DEF NoGap
  <2>3. 1 .. files'[k].offset \subseteq 1 .. files[k].offset
    BY <1>0
  <2> QED
    BY <2>2, <2>3
<1> QED
  BY <1>1, <1>2

\* A read: what is between the old offset and the new one is on its way out.
LEMMA GapRead ==
  ASSUME Core, GapInv, rpc = "fill",
         NEW h \in Files, NEW hi \in Nat,
         Opens(File, h),
         File.offset <= hi,
         files' = [files EXCEPT ![fi + 1] = [File EXCEPT !.handle = h, !.offset = hi]],
         batch' = [id |-> h, lo |-> File.offset, hi |-> hi],
         Counted(h)
  PROVE  NoGap'
<1> DEFINE w == [File EXCEPT !.handle = h, !.offset = hi]
<1>1. File \in WatchedFiles /\ fi + 1 \in 1 .. Len(files)
  BY CurrentFile
<1>2. /\ w \in WatchedFiles
      /\ w.id = File.id
      /\ w.handle = h
      /\ w.offset = hi
  BY <1>1 DEF WatchedFiles
<1>3. files' = [files EXCEPT ![fi + 1] = w]
  OBVIOUS
<1> HIDE DEF w
<1>4. /\ Len(files') = Len(files)
      /\ files' \in Seq(WatchedFiles)
      /\ files'[fi + 1] = w
      /\ \A j \in 1 .. Len(files) : j # fi + 1 => files'[j] = files[j]
  BY <1>2, <1>3, CurrentReplaced
<1>5. /\ files \in Seq(WatchedFiles)
      /\ DOMAIN files = 1 .. Len(files)
      /\ DOMAIN files' = 1 .. Len(files)
  BY <1>4, LenProperties DEF Core, TypeOK
<1>6. File = files[fi + 1] /\ File.offset \in Nat /\ File.id \in Files
  BY <1>1 DEF File, WatchedFiles
\* Nothing was on its way out before.
<1>7. \A k \in DOMAIN files :
        files[k].id \notin Corrupt /\ Undisturbed(files[k])
          => 1 .. files[k].offset \subseteq settled[files[k].id]
  <2>1. batch = NoBatch
    BY DEF GapInv, Batch
  <2>2. \A k \in DOMAIN files : files[k].id # NoFile
    <3>1. \A k \in DOMAIN files : files[k] \in WatchedFiles
      BY <1>5, ElementOfSeq
    <3> QED
      BY <3>1, FileInputAssumption DEF WatchedFiles
  <2>3. \A k \in DOMAIN files : InFlight(files[k].id) = {}
    BY <2>1, <2>2 DEF InFlight, NoBatch
  <2> QED
    BY <2>3 DEF GapInv, NoGap
<1>8. ASSUME NEW k \in 1 .. Len(files),
             files'[k].id \notin Corrupt,
             Undisturbed(files[k])'
      PROVE  (1 .. files[k].offset
                \subseteq settled[files[k].id] \union InFlight(files[k].id))'
  <2>1. CASE k = fi + 1
    <3>1. files'[k] = w
      BY <1>4, <2>1
    <3>2. h = File.id /\ (File.id \in cut' => hi = 0)
      BY <1>2, <1>8, <3>1, FileInputAssumption DEF Undisturbed
    <3>3. InFlight(files[k].id)' = File.offset + 1 .. hi
      BY <1>2, <3>1, <3>2 DEF InFlight
    <3>4. CASE File.offset = 0
      <4>1. 1 .. hi = File.offset + 1 .. hi
        BY <3>4
      <4> QED
        BY <1>2, <3>1, <3>3, <4>1
    <3>5. CASE File.offset # 0
      <4>1. UNCHANGED <<settled, cut>>
        BY <3>5 DEF Counted, CountsAnew
      <4>2. File.id \notin cut
        BY <1>6, <3>2, <3>5, <4>1
      <4>3. Undisturbed(File)
        BY <3>2, <4>2 DEF Undisturbed, Opens
      <4>4. 1 .. File.offset \subseteq settled[File.id]
        BY <1>1, <1>2, <1>5, <1>6, <1>7, <1>8, <3>1, <4>3
      <4>5. 1 .. hi = (1 .. File.offset) \union (File.offset + 1 .. hi)
        BY <1>6
      <4> QED
        BY <1>2, <3>1, <3>3, <4>1, <4>4, <4>5
    <3> QED
      BY <3>4, <3>5
  <2>2. CASE k # fi + 1
    <3>1. files'[k] = files[k]
      BY <1>4, <2>2
    <3>2. files[k].id # File.id
      BY <1>1, <1>5, <1>6, <2>2 DEF Core, TypeOK
    <3>3. /\ settled'[files[k].id] = settled[files[k].id]
          /\ files[k].id \in cut' <=> files[k].id \in cut
      BY <3>2 DEF Counted, CountsAnew, Core, TypeOK
    <3>4. Undisturbed(files[k])
      BY <1>8, <3>1, <3>3 DEF Undisturbed
    <3>5. 1 .. files[k].offset \subseteq settled[files[k].id]
      BY <1>5, <1>7, <1>8, <3>1, <3>4
    <3> QED
      BY <3>1, <3>3, <3>5
  <2> QED
    BY <2>1, <2>2
<1> QED
  BY <1>5, <1>8 DEF NoGap

LEMMA GapReader ==
  ASSUME Core, GapInv, Reader
  PROVE  GapInv'
<1>s. files \in Seq(WatchedFiles) /\ DOMAIN files = 1 .. Len(files)
  BY LenProperties DEF Core, TypeOK
<1>o. \A k \in DOMAIN files : files[k].offset \in Nat
  <2>1. \A k \in DOMAIN files : files[k] \in WatchedFiles
    BY <1>s, ElementOfSeq
  <2> QED
    BY <2>1 DEF WatchedFiles
\* The current file's offset stays or goes back, and its handle stays once it is open.
<1>k. ASSUME rpc \in {"stat", "check", "fill"},
             NEW w \in WatchedFiles,
             w.id = File.id,
             File.handle \in {NoFile, w.handle},
             w.offset \in 0 .. File.offset,
             files' = [files EXCEPT ![fi + 1] = w],
             UNCHANGED <<history, batch>>
      PROVE  NoGap'
  <2>1. /\ Len(files') = Len(files)
        /\ files' \in Seq(WatchedFiles)
        /\ files'[fi + 1] = w
        /\ \A j \in 1 .. Len(files) : j # fi + 1 => files'[j] = files[j]
    BY <1>k, CurrentReplaced
  <2>2. DOMAIN files' = DOMAIN files
    BY <1>s, <2>1, LenProperties
  <2>3. \A k \in DOMAIN files : /\ files'[k].id = files[k].id
                                /\ files[k].handle \in {NoFile, files'[k].handle}
                                /\ files[k].offset \in Nat
                                /\ files'[k].offset \in 0 .. files[k].offset
    BY <1>s, <1>o, <1>k, <2>1 DEF File
  <2> QED
    BY <1>k, <2>2, <2>3, GapKept DEF GapInv
<1>u. ASSUME UNCHANGED <<files, history, batch>> PROVE NoGap'
  BY <1>u DEF GapInv, NoGap, Undisturbed, InFlight, history
<1>1. CASE (NextItem \/ ReaderEnd \/ Pick \/ Error) /\ UNCHANGED cut
  <2>1. UNCHANGED <<files, history, batch>>
    BY <1>1 DEF NextItem, ReaderEnd, Pick, Error, history
  <2>2. Batch'
    BY <1>1, <2>1 DEF GapInv, Batch, NextItem, ReaderEnd, Pick, Error, EndTurn
  <2> QED
    BY <1>u, <2>1, <2>2 DEF GapInv
<1>2. CASE Stat /\ UNCHANGED cut
  <2>1. UNCHANGED <<history, batch>> /\ rpc = "stat" /\ rpc' \in {"error", "check"}
    BY <1>2 DEF Stat, history
  <2>2. Batch'
    BY <2>1 DEF GapInv, Batch
  <2>3. ASSUME NEW n \in Nat, files' = [files EXCEPT ![fi + 1] = [File EXCEPT !.len = n]]
        PROVE  NoGap'
    <3> DEFINE w == [File EXCEPT !.len = n]
    <3>1. /\ w \in WatchedFiles
          /\ w.id = File.id
          /\ w.handle = File.handle
          /\ w.offset \in 0 .. File.offset
      BY <2>1, CurrentFile DEF WatchedFiles
    <3>2. files' = [files EXCEPT ![fi + 1] = w]
      BY <2>3
    <3> HIDE DEF w
    <3> QED
      BY <1>k, <2>1, <3>1, <3>2
  <2>4. NoGap'
    BY <1>u, <1>2, <2>1, <2>3, StatStep
  <2> QED
    BY <2>2, <2>4 DEF GapInv
<1>3. CASE Check /\ UNCHANGED cut
  <2>1. UNCHANGED <<history, batch>> /\ rpc = "check" /\ rpc' \in {"wait", "fill"}
    BY <1>3 DEF Check, EndTurn, history
  <2>2. Batch'
    BY <2>1 DEF GapInv, Batch
  <2>3. PICK n \in 0 .. File.offset :
          files' = [files EXCEPT ![fi + 1] = [File EXCEPT !.offset = n]]
    BY <1>3, CheckStep
  <2> DEFINE w == [File EXCEPT !.offset = n]
  <2>4. n \in Nat
    BY <2>1, CurrentFile DEF WatchedFiles
  <2>5. /\ w \in WatchedFiles
        /\ w.id = File.id
        /\ w.handle = File.handle
        /\ w.offset \in 0 .. File.offset
    BY <2>1, <2>4, CurrentFile DEF WatchedFiles
  <2>6. files' = [files EXCEPT ![fi + 1] = w]
    BY <2>3
  <2> HIDE DEF w
  <2> QED
    BY <1>k, <2>1, <2>2, <2>5, <2>6 DEF GapInv
<1>4. CASE Fill
  <2>1. rpc = "fill" /\ rpc' \in {"error", "panicked", "decode"}
    BY <1>4 DEF Fill
  <2>2. CASE rpc' = "error" /\ UNCHANGED <<files, batch, history>>
    BY <1>u, <2>1, <2>2 DEF GapInv, Batch
  <2>3. ASSUME NEW h \in Files,
               rpc' \in {"error", "panicked"},
               Opens(File, h),
               files' = [files EXCEPT ![fi + 1] = [File EXCEPT !.handle = h]],
               UNCHANGED <<batch, history>>
        PROVE  GapInv'
    <3> DEFINE w == [File EXCEPT !.handle = h]
    <3>1. /\ w \in WatchedFiles
          /\ w.id = File.id
          /\ w.handle = h
          /\ w.offset \in 0 .. File.offset
      BY <2>1, CurrentFile DEF WatchedFiles
    <3>2. files' = [files EXCEPT ![fi + 1] = w]
      BY <2>3
    <3>3. File.handle \in {NoFile, w.handle}
      BY <2>3, <3>1 DEF Opens
    <3> HIDE DEF w
    <3>4. NoGap'
      BY <1>k, <2>1, <2>3, <3>1, <3>2, <3>3
    <3>5. Batch'
      BY <2>1, <2>3 DEF GapInv, Batch
    <3> QED
      BY <3>4, <3>5 DEF GapInv
  <2>4. ASSUME NEW h \in Files, NEW hi \in Nat,
               rpc' = "decode",
               Opens(File, h),
               File.offset <= hi,
               files' = [files EXCEPT ![fi + 1] = [File EXCEPT !.handle = h, !.offset = hi]],
               batch' = [id |-> h, lo |-> File.offset, hi |-> hi],
               Counted(h)
        PROVE  GapInv'
    <3>1. NoGap'
      BY <2>1, <2>4, GapRead
    <3> QED
      BY <2>4, <3>1 DEF GapInv, Batch
  <2> QED
    BY <1>4, <2>2, <2>3, <2>4, FillStep
<1>5. CASE Decode /\ UNCHANGED cut
  <2>1. UNCHANGED <<files, history>>
    BY <1>5 DEF Decode, history
  <2>2. CASE rpc' = "more" /\ UNCHANGED batch
    BY <1>u, <2>1, <2>2 DEF GapInv, Batch
  <2>3. CASE batch.id \in Corrupt /\ rpc' = "error" /\ batch' = NoBatch
    <3>1. NoGap'
      BY <2>1, <2>3 DEF GapInv, NoGap, Undisturbed, InFlight, history
    <3> QED
      BY <2>3, <3>1 DEF GapInv, Batch
  <2> QED
    BY <1>5, <2>2, <2>3 DEF Decode
<1>6. CASE More /\ UNCHANGED cut
  <2>1. UNCHANGED <<files, history, batch>> /\ rpc' = "emit"
    BY <1>6 DEF More, history
  <2> QED
    BY <1>u, <2>1 DEF GapInv, Batch
<1>7. CASE Emit /\ UNCHANGED cut
  <2>1. rpc = "emit" /\ UNCHANGED <<files, cut>>
    BY <1>7 DEF Emit
  <2>2. batch.lo \in Nat /\ batch.hi \in Nat /\ settled \in [Files -> SUBSET Nat]
    BY DEF Core, TypeOK
  <2>3. CASE batch.lo < batch.hi
    <3>1. /\ batch' = [batch EXCEPT !.lo = @ + 1]
          /\ settled' = [settled EXCEPT ![batch.id] = @ \union {batch.lo + 1}]
          /\ UNCHANGED rpc
      BY <1>7, <2>3 DEF Emit
    <3>2. batch'.id = batch.id /\ batch'.lo = batch.lo + 1 /\ batch'.hi = batch.hi
      BY <3>1 DEF Core, TypeOK
    <3>3. batch.lo + 1 .. batch.hi = {batch.lo + 1} \union (batch'.lo + 1 .. batch'.hi)
      BY <2>2, <2>3, <3>2
    <3>4. ASSUME NEW f \in Files
          PROVE  settled[f] \union InFlight(f) \subseteq settled'[f] \union InFlight(f)'
      <4>1. CASE f = batch.id
        <5>1. settled'[f] = settled[f] \union {batch.lo + 1}
          BY <2>2, <3>1, <4>1
        <5> QED
          BY <3>2, <3>3, <4>1, <5>1 DEF InFlight
      <4>2. CASE f # batch.id
        <5>1. settled'[f] = settled[f]
          BY <2>2, <3>1, <4>2
        <5> QED
          BY <4>2, <5>1 DEF InFlight
      <4> QED
        BY <4>1, <4>2
    <3>5. \A k \in DOMAIN files : files[k].id \in Files
      <4>1. \A k \in DOMAIN files : files[k] \in WatchedFiles
        BY <1>s, ElementOfSeq
      <4> QED
        BY <4>1 DEF WatchedFiles
    <3>6. \A k \in DOMAIN files : Undisturbed(files[k])' <=> Undisturbed(files[k])
      BY <2>1 DEF Undisturbed
    <3>7. NoGap'
      <4> SUFFICES ASSUME NEW k \in DOMAIN files,
                          files[k].id \notin Corrupt,
                          Undisturbed(files[k])
                   PROVE  1 .. files[k].offset
                            \subseteq settled'[files[k].id] \union InFlight(files[k].id)'
        BY <2>1, <3>6 DEF NoGap
      <4>1. 1 .. files[k].offset \subseteq settled[files[k].id] \union InFlight(files[k].id)
        BY DEF GapInv, NoGap
      <4>2. settled[files[k].id] \union InFlight(files[k].id)
              \subseteq settled'[files[k].id] \union InFlight(files[k].id)'
        BY <2>1, <3>4, <3>5
      <4> QED
        BY <4>1, <4>2
    <3> QED
      BY <2>1, <3>1, <3>7 DEF GapInv, Batch
  <2>4. CASE ~(batch.lo < batch.hi)
    <3>1. batch' = NoBatch /\ UNCHANGED settled
      BY <1>7, <2>4 DEF Emit
    <3>2. batch.lo + 1 .. batch.hi = {}
      BY <2>2, <2>4
    <3>3. NoGap'
      BY <2>1, <3>1, <3>2 DEF GapInv, NoGap, Undisturbed, InFlight
    <3> QED
      BY <3>1, <3>3 DEF GapInv, Batch
  <2> QED
    BY <2>3, <2>4
<1> QED
  BY <1>1, <1>2, <1>3, <1>4, <1>5, <1>6, <1>7 DEF Reader, ReadFile

\* No line of an undisturbed file is left behind, for any bounds and whatever the file
\* system does, log rotation included: each line below a file's offset was emitted, was
\* skipped when the file was found, or is in the batch on its way out.  Undisturbed names
\* the files of which this is not so (file.rs:225-231, 297-323).
THEOREM NoLineIsLeftBehind == Spec => []NoGap
<1>1. Init => Core /\ GapInv
  BY CoreInit, GapInit
<1>2. Core /\ GapInv /\ [Next]_vars => (Core /\ GapInv)'
  <2>1. GapInv /\ UNCHANGED vars => GapInv'
    BY DEF GapInv, Batch, NoGap, Undisturbed, InFlight, vars, readerVars, history
  <2> QED
    BY <2>1, CoreNext, GapEnvironment, GapDiscovery, GapReader DEF Next
<1>3. GapInv => NoGap
  BY DEF GapInv
<1> QED
  BY <1>1, <1>2, <1>3, PTL DEF Spec
=============================================================================
