----------------------------- MODULE AppsProofs -----------------------------
(***************************************************************************)
(* Theorems about the applications: Ramfs, for every size of the file      *)
(* table, of the arena and of the Notes buffer and every set of names and  *)
(* characters; Paint, for every panel, canvas and brush; Calculator, for   *)
(* every base, width of a number and sequence of keys.                     *)
(***************************************************************************)
EXTENDS Apps, FiniteSetTheorems, NaturalsInduction, WellFoundedInduction, TLAPS

Contents == Seq(Bytes)

FileNames == Names \cup {NoName}

Used == {i \in Slots : files[i].used}

FileType == [used : BOOLEAN, name : FileNames, off : 0 .. ARENA, size : 0 .. ARENA]

\* A name is in the table once; what a file holds was written below
\* arena_used, where nothing is written again.
StoreInv ==
    /\ files \in [Slots -> FileType]
    /\ arena \in [Cells -> Bytes \cup {NoByte}] /\ arena_used \in 0 .. ARENA
    /\ \A i, j \in Slots : files[i].used /\ files[j].used /\ files[i].name = files[j].name => i = j
    /\ \A i \in Slots : files[i].used =>
          files[i].off + files[i].size <= arena_used /\ files[i].name \in Names
    /\ \A c \in Cells : c < arena_used => arena[c] \in Bytes

CountInv == count = Cardinality(Used)

UiInv ==
    /\ booted \in 0 .. Len(Seeds)
    /\ notes_open \in BOOLEAN /\ edited \in BOOLEAN
    /\ no_buf \in Contents /\ Len(no_buf) <= NO_MAX
    /\ asked = NoRequest \/ asked \in FileNames \X Contents
    /\ notes_open => Running

FilesInv == StoreInv /\ CountInv /\ UiInv /\ NotesLostOnlyWhenFull

----------------------------------------------------------------------------
(* Reading, from a table fl and an arena ar.                               *)

HoldingIn(fl, n) == {i \in Slots : fl[i].used /\ fl[i].name = n}

ReadIn(fl, ar, i) == [k \in 1 .. fl[i].size |-> ar[fl[i].off + k - 1]]

ContentIn(fl, ar, n) ==
    IF HoldingIn(fl, n) = {} THEN Absent
    ELSE ReadIn(fl, ar, CHOOSE j \in Slots : IsFirst(j, HoldingIn(fl, n)))

LEMMA ContentNow ==
    ASSUME NEW n
    PROVE  /\ Content(n) = ContentIn(files, arena, n)
           /\ Content(n)' = ContentIn(files', arena', n)
  <1>1. Content(n) = ContentIn(files, arena, n)
    BY Zenon DEF Content, ContentIn, ReadIn, Holding, HoldingIn
  <1>2. Content(n)' = ContentIn(files', arena', n)
    BY Zenon DEF Content, ContentIn, ReadIn, Holding, HoldingIn
  <1> QED BY <1>1, <1>2

\* The content of a file is what its only entry describes.
LEMMA OnlyEntry ==
    ASSUME NEW fl, NEW ar, NEW n, NEW i \in Slots, HoldingIn(fl, n) = {i}
    PROVE  ContentIn(fl, ar, n) = ReadIn(fl, ar, i)
  <1>1. i \in Nat
    BY DEF Slots
  <1>2. IsFirst(i, {i}) /\ \A j \in Slots : IsFirst(j, {i}) => j = i
    BY <1>1 DEF IsFirst
  <1>3. (CHOOSE j \in Slots : IsFirst(j, {i})) = i
    BY <1>2
  <1> QED BY <1>3, Zenon DEF ContentIn

\* Every name has one entry or none.
LEMMA OneEntry ==
    ASSUME StoreInv, NEW n
    PROVE  HoldingIn(files, n) = {} \/ \E i \in Slots : HoldingIn(files, n) = {i}
  <1> SUFFICES ASSUME NEW i \in HoldingIn(files, n)
               PROVE  i \in Slots /\ HoldingIn(files, n) = {i}
    OBVIOUS
  <1> QED BY DEF StoreInv, HoldingIn

LEMMA ContentType ==
    ASSUME StoreInv, NEW n
    PROVE  Content(n) = Absent \/ Content(n) \in Contents
  <1>1. CASE HoldingIn(files, n) = {}
    BY <1>1, ContentNow DEF ContentIn
  <1>2. CASE HoldingIn(files, n) # {}
    <2>1. PICK i \in Slots : HoldingIn(files, n) = {i}
      BY <1>2, OneEntry
    <2>2. files[i].used
      BY <2>1 DEF HoldingIn
    <2>3. /\ files[i].off \in Nat /\ files[i].size \in Nat
          /\ files[i].off + files[i].size <= arena_used /\ arena_used \in Nat /\ arena_used <= ARENA
      BY <2>2, RamfsAssumption DEF StoreInv, FileType
    <2>4. ASSUME NEW k \in 1 .. files[i].size PROVE arena[files[i].off + k - 1] \in Bytes
      <3>1. files[i].off + k - 1 \in Cells /\ files[i].off + k - 1 < arena_used
        BY <2>3, RamfsAssumption DEF Cells
      <3> QED BY <3>1 DEF StoreInv
    <2>5. ReadIn(files, arena, i) \in Contents
      BY <2>3, <2>4 DEF Contents, ReadIn
    <2> QED BY <2>1, <2>5, ContentNow, OnlyEntry
  <1> QED BY <1>1, <1>2

----------------------------------------------------------------------------
(* Writing.                                                                *)

\* What a write that succeeds does to the table and the arena.
Written(i, n, d) ==
    /\ alloc_slot(i, n)
    /\ arena' = [k \in Cells |-> IF k \in arena_used .. arena_used + Len(d) - 1
                                 THEN d[k - arena_used + 1] ELSE arena[k]]
    /\ files' = [files EXCEPT ![i] = [used |-> TRUE, name |-> n,
                                      off |-> arena_used, size |-> Len(d)]]
    /\ arena_used' = arena_used + Len(d)
    /\ count' = IF files[i].used THEN count ELSE count + 1

LEMMA WriteOutcome ==
    ASSUME NEW n, NEW d, ramfs_write(n, d)
    PROVE  /\ asked' = <<n, d>>
           /\ CanWrite(n, d) => \E i \in Slots : Written(i, n, d)
           /\ ~CanWrite(n, d) => UNCHANGED fs
  BY DEF ramfs_write, Written, PlaceFor

\* The slot a write takes is the file's own or an unused one.
LEMMA SlotTaken ==
    ASSUME StoreInv, NEW n, NEW i \in Slots, alloc_slot(i, n)
    PROVE  /\ files[i].used => files[i].name = n
           /\ \A j \in Slots : files[j].used /\ files[j].name = n => j = i
  BY DEF alloc_slot, IsFirst, Holding, Unused, StoreInv

\* A write lays its text behind every file and gives it one entry.
LEMMA WriteStore ==
    ASSUME StoreInv, NEW n \in Names, NEW d \in Contents, Fits(d),
           NEW i \in Slots, Written(i, n, d)
    PROVE  /\ StoreInv'
           /\ ContentIn(files', arena', n) = d
           /\ \A m : m # n => ContentIn(files', arena', m) = ContentIn(files, arena, m)
  <1> DEFINE e == [used |-> TRUE, name |-> n, off |-> arena_used, size |-> Len(d)]
             u == arena_used
  <1>0. /\ u \in Nat /\ u <= ARENA /\ ARENA \in Nat /\ Len(d) \in Nat /\ u + Len(d) <= ARENA
        /\ files \in [Slots -> FileType] /\ arena \in [Cells -> Bytes \cup {NoByte}]
        /\ \A k \in 1 .. Len(d) : d[k] \in Bytes
    BY RamfsAssumption DEF StoreInv, Fits, Contents
  <1>1. /\ arena' = [k \in Cells |-> IF k \in u .. u + Len(d) - 1
                                      THEN d[k - u + 1] ELSE arena[k]]
        /\ files' = [files EXCEPT ![i] = e] /\ arena_used' = u + Len(d)
    BY DEF Written
  <1>2. e \in FileType
    BY <1>0 DEF FileType, FileNames
  <1>3. /\ e.used = TRUE /\ e.name = n /\ e.off = u /\ e.size = Len(d)
    OBVIOUS
  <1> HIDE DEF e
  <1>4. /\ files' \in [Slots -> FileType] /\ files'[i] = e
        /\ \A j \in Slots : j # i => files'[j] = files[j]
    BY <1>0, <1>1, <1>2
  <1>5. /\ files[i].used => files[i].name = n
        /\ \A j \in Slots : files[j].used /\ files[j].name = n => j = i
    BY SlotTaken DEF Written
  <1>6. \A c \in Cells : c < u => arena'[c] = arena[c]
    BY <1>0, <1>1 DEF Cells
  <1>7. \A k \in 1 .. Len(d) : u + k - 1 \in Cells /\ arena'[u + k - 1] = d[k]
    <2> SUFFICES ASSUME NEW k \in 1 .. Len(d)
                 PROVE  u + k - 1 \in Cells /\ arena'[u + k - 1] = d[k]
      OBVIOUS
    <2>1. \A c \in Cells : c \in u .. u + Len(d) - 1 => arena'[c] = d[c - u + 1]
      BY <1>1, Zenon
    <2>2. PICK c \in Cells : c = u + k - 1 /\ c \in u .. u + Len(d) - 1 /\ c - u + 1 = k
      BY <1>0 DEF Cells
    <2>3. arena'[c] = d[k]
      BY <2>1, <2>2, Zenon
    <2> QED BY <2>2, <2>3
  <1>8. ASSUME NEW c \in Cells, c < u + Len(d) PROVE arena'[c] \in Bytes
    <2>1. CASE c < u
      BY <1>6, <2>1 DEF StoreInv
    <2>2. CASE c >= u
      <3>1. c - u + 1 \in 1 .. Len(d) /\ u + (c - u + 1) - 1 = c
        BY <1>0, <1>8, <2>2 DEF Cells
      <3> QED BY <1>0, <1>7, <3>1
    <2> QED BY <1>0, <2>1, <2>2 DEF Cells
  <1>9. arena' \in [Cells -> Bytes \cup {NoByte}]
    <2> SUFFICES ASSUME NEW c \in Cells PROVE arena'[c] \in Bytes \cup {NoByte}
      BY <1>1
    <2>1. CASE c \in u .. u + Len(d) - 1
      BY <1>0, <1>8, <2>1 DEF Cells
    <2>2. CASE c \notin u .. u + Len(d) - 1
      BY <1>0, <1>1, <2>2
    <2> QED BY <2>1, <2>2
  <1>10. StoreInv'
    <2>1. ASSUME NEW j \in Slots, NEW k \in Slots, files'[j].used, files'[k].used,
                 files'[j].name = files'[k].name
          PROVE  j = k
      BY <1>3, <1>4, <1>5, <2>1 DEF StoreInv
    <2>2. ASSUME NEW j \in Slots, files'[j].used
          PROVE  files'[j].off + files'[j].size <= arena_used' /\ files'[j].name \in Names
      <3>1. CASE j = i
        BY <1>0, <1>1, <1>3, <1>4, <3>1
      <3>2. CASE j # i
        <4>1. files'[j] = files[j] /\ files[j].used /\ files[j] \in FileType
          BY <1>0, <1>4, <2>2, <3>2
        <4>2. files[j].off + files[j].size <= u /\ files[j].name \in Names
          BY <4>1 DEF StoreInv
        <4> QED BY <1>0, <1>1, <4>1, <4>2 DEF FileType
      <3> QED BY <3>1, <3>2
    <2>3. arena_used' \in 0 .. ARENA
      BY <1>0, <1>1
    <2> QED BY <1>1, <1>4, <1>8, <1>9, <2>1, <2>2, <2>3 DEF StoreInv
  <1>11. ContentIn(files', arena', n) = d
    <2>1. HoldingIn(files', n) = {i}
      BY <1>3, <1>4, <1>5 DEF HoldingIn
    <2>2. ReadIn(files', arena', i) = [k \in 1 .. Len(d) |-> d[k]]
      BY <1>3, <1>4, <1>7 DEF ReadIn
    <2>3. d = [k \in 1 .. Len(d) |-> d[k]]
      BY DEF Contents
    <2> QED BY <2>1, <2>2, <2>3, OnlyEntry
  <1>12. ASSUME NEW m, m # n PROVE ContentIn(files', arena', m) = ContentIn(files, arena, m)
    <2>1. HoldingIn(files', m) = HoldingIn(files, m)
      BY <1>3, <1>4, <1>5, <1>12 DEF HoldingIn
    <2>2. CASE HoldingIn(files, m) = {}
      BY <2>1, <2>2 DEF ContentIn
    <2>3. ASSUME NEW j \in Slots, HoldingIn(files, m) = {j}
          PROVE  ContentIn(files', arena', m) = ContentIn(files, arena, m)
      <3>1. files[j].used /\ files[j].name = m /\ j # i
        BY <1>5, <1>12, <2>3 DEF HoldingIn
      <3>2. files'[j] = files[j] /\ files[j] \in FileType
        BY <1>0, <1>4, <3>1
      <3>3. files[j].off + files[j].size <= u /\ files[j].off \in Nat /\ files[j].size \in Nat
        BY <1>0, <3>1, <3>2 DEF StoreInv, FileType
      <3>4. \A k \in 1 .. files[j].size : arena'[files[j].off + k - 1] = arena[files[j].off + k - 1]
        <4> SUFFICES ASSUME NEW k \in 1 .. files[j].size
                     PROVE  arena'[files[j].off + k - 1] = arena[files[j].off + k - 1]
          OBVIOUS
        <4>1. files[j].off + k - 1 \in Cells /\ files[j].off + k - 1 < u
          BY <1>0, <3>3 DEF Cells
        <4> QED BY <1>6, <4>1
      <3>5. ReadIn(files', arena', j) = ReadIn(files, arena, j)
        BY <3>2, <3>4 DEF ReadIn
      <3> QED BY <2>1, <2>3, <3>5, OnlyEntry
    <2> QED BY <2>2, <2>3, OneEntry
  <1> QED BY <1>10, <1>11, <1>12

LEMMA UsedCount ==
    /\ IsFiniteSet(Used) /\ Cardinality(Used) \in 0 .. MAX_FILES
  <1>1. IsFiniteSet(Slots) /\ Cardinality(Slots) = MAX_FILES
    <2>1. 0 \in Int /\ MAX_FILES - 1 \in Int /\ MAX_FILES \in Nat
      BY RamfsAssumption
    <2>2. /\ IsFiniteSet(0 .. MAX_FILES - 1)
          /\ Cardinality(0 .. MAX_FILES - 1) =
                IF 0 > MAX_FILES - 1 THEN 0 ELSE (MAX_FILES - 1) - 0 + 1
      BY <2>1, FS_Interval
    <2> QED BY <2>1, <2>2 DEF Slots
  <1>2. Used \subseteq Slots
    BY DEF Used
  <1>3. IsFiniteSet(Used) /\ Cardinality(Used) <= Cardinality(Slots)
    BY <1>1, <1>2, FS_Subset
  <1>4. Cardinality(Used) \in Nat
    BY <1>3, FS_CardinalityType
  <1> QED BY <1>1, <1>3, <1>4, RamfsAssumption

\* The number of files is the number of used entries.
LEMMA WriteCount ==
    ASSUME StoreInv, CountInv, NEW n \in Names, NEW d \in Contents,
           NEW i \in Slots, Written(i, n, d)
    PROVE  CountInv'
  <1>1. /\ files \in [Slots -> FileType]
        /\ files' = [files EXCEPT ![i] = [used |-> TRUE, name |-> n,
                                          off |-> arena_used, size |-> Len(d)]]
        /\ count' = IF files[i].used THEN count ELSE count + 1
    BY DEF StoreInv, Written
  <1>2. files'[i].used /\ \A j \in Slots : j # i => files'[j] = files[j]
    BY <1>1
  <1>3. Used' = Used \cup {i}
    BY <1>2 DEF Used
  <1>4. CASE files[i].used
    <2>1. Used' = Used
      BY <1>3, <1>4 DEF Used
    <2> QED BY <1>1, <1>4, <2>1 DEF CountInv
  <1>5. CASE ~files[i].used
    <2>1. i \notin Used
      BY <1>5 DEF Used
    <2>2. Cardinality(Used \cup {i}) = Cardinality(Used) + 1
      BY <2>1, UsedCount, FS_AddElement
    <2> QED BY <1>1, <1>3, <1>5, <2>2 DEF CountInv
  <1> QED BY <1>4, <1>5

\* A write replaces the content of the file it names and of no other, or
\* fails and changes nothing.
LEMMA WriteStep ==
    ASSUME StoreInv, CountInv, NEW n \in FileNames, NEW d \in Contents, ramfs_write(n, d)
    PROVE  /\ StoreInv' /\ CountInv' /\ asked' = <<n, d>>
           /\ \/ /\ n \in Names /\ Content(n)' = d
                 /\ \A m : m # n => Content(m)' = Content(m)
              \/ UNCHANGED fs /\ ~CanWrite(n, d)
  <1>1. CASE CanWrite(n, d)
    <2>1. PICK i \in Slots : Written(i, n, d)
      BY <1>1, WriteOutcome
    <2>2. n \in Names /\ Fits(d)
      BY <1>1 DEF CanWrite, FileNames
    <2>3. /\ StoreInv'
          /\ ContentIn(files', arena', n) = d
          /\ \A m : m # n => ContentIn(files', arena', m) = ContentIn(files, arena, m)
      BY <2>1, <2>2, WriteStore
    <2>4. CountInv'
      BY <2>1, <2>2, WriteCount
    <2>5. Content(n)' = d
      BY <2>3, ContentNow
    <2>6. ASSUME NEW m, m # n PROVE Content(m)' = Content(m)
      BY <2>3, <2>6, ContentNow
    <2> QED BY <2>2, <2>3, <2>4, <2>5, <2>6, WriteOutcome
  <1>2. CASE ~CanWrite(n, d)
    <2>1. UNCHANGED fs /\ asked' = <<n, d>>
      BY <1>2, WriteOutcome
    <2>2. StoreInv' /\ CountInv'
      BY <2>1 DEF StoreInv, CountInv, Used, fs
    <2> QED BY <1>2, <2>1, <2>2
  <1> QED BY <1>1, <1>2

LEMMA FsUnchanged ==
    ASSUME UNCHANGED fs, NEW n
    PROVE  /\ Content(n)' = Content(n)
           /\ StoreInv => StoreInv'
           /\ CountInv => CountInv'
  <1>1. files' = files /\ arena' = arena /\ arena_used' = arena_used /\ count' = count
    BY DEF fs
  <1>2. Content(n)' = Content(n)
    BY <1>1, ContentNow
  <1> QED BY <1>1, <1>2 DEF StoreInv, CountInv, Used

----------------------------------------------------------------------------
(* The steps.                                                              *)

\* A key in Notes: the file holds the buffer, or there was no room for it.
LEMMA SaveStep ==
    ASSUME FilesInv, notes_open, NEW buf \in Contents, Len(buf) <= NO_MAX, Save(buf)
    PROVE  FilesInv'
  <1>1. Notes \in Names /\ Notes \in FileNames
    BY RamfsAssumption DEF FileNames
  <1>2. /\ no_buf' = buf /\ ramfs_write(Notes, buf) /\ edited' = TRUE
        /\ booted' = booted /\ notes_open' = notes_open
    BY DEF Save
  <1>3. /\ StoreInv' /\ CountInv' /\ asked' = <<Notes, buf>>
        /\ \/ Content(Notes)' = buf
           \/ UNCHANGED fs /\ ~CanWrite(Notes, buf)
    BY <1>1, <1>2, WriteStep DEF FilesInv
  <1>4. UiInv'
    BY <1>1, <1>2, <1>3 DEF FilesInv, UiInv, Running
  <1>5. NotesLostOnlyWhenFull'
    <2>1. CASE Content(Notes)' = buf
      BY <1>2, <2>1 DEF NotesLostOnlyWhenFull
    <2>2. CASE UNCHANGED fs /\ ~CanWrite(Notes, buf)
      <3>1. ~CanWrite(Notes, no_buf)'
        BY <1>2, <2>2 DEF fs, CanWrite, Fits, Holding, Unused
      <3> QED BY <3>1 DEF NotesLostOnlyWhenFull
    <2> QED BY <1>3, <2>1, <2>2
  <1> QED BY <1>3, <1>4, <1>5 DEF FilesInv

LEMMA SeedType ==
    ASSUME NEW k \in Nat, k < Len(Seeds)
    PROVE  Seeds[k + 1][1] \in FileNames /\ Seeds[k + 1][2] \in Contents
  <1>1. Seeds \in Seq(Names \X Contents)
    BY RamfsAssumption DEF Contents
  <1>2. Seeds[k + 1] \in Names \X Contents
    BY <1>1
  <1> QED BY <1>2 DEF FileNames

LEMMA Shortened ==
    ASSUME NEW s \in Contents, NEW m \in Nat, m <= Len(s)
    PROVE  SubSeq(s, 1, m) \in Contents /\ Len(SubSeq(s, 1, m)) = m
  BY DEF Contents

LEMMA FilesStep ==
    ASSUME FilesInv, Next
    PROVE  FilesInv'
  <1>0. /\ StoreInv /\ CountInv /\ no_buf \in Contents /\ Len(no_buf) <= NO_MAX
        /\ NO_MAX \in Nat /\ booted \in 0 .. Len(Seeds) /\ Len(Seeds) \in Nat
    BY RamfsAssumption DEF FilesInv, UiInv
  <1>1. CASE kfs_init
    <2>1. /\ booted < Len(Seeds) /\ booted' = booted + 1
          /\ ramfs_write(Seeds[booted + 1][1], Seeds[booted + 1][2])
          /\ notes_open' = notes_open /\ no_buf' = no_buf /\ edited' = edited
      BY <1>1 DEF kfs_init
    <2>2. Seeds[booted + 1][1] \in FileNames /\ Seeds[booted + 1][2] \in Contents
      BY <1>0, <2>1, SeedType
    <2>3. /\ StoreInv' /\ CountInv'
          /\ asked' = << Seeds[booted + 1][1], Seeds[booted + 1][2] >>
      BY <1>0, <2>1, <2>2, WriteStep
    <2>4. asked' \in FileNames \X Contents
      BY <2>2, <2>3
    <2>5. booted' \in 0 .. Len(Seeds) /\ ~notes_open
      BY <1>0, <2>1 DEF FilesInv, UiInv, Running
    <2>6. UiInv' /\ NotesLostOnlyWhenFull'
      BY <2>1, <2>4, <2>5 DEF FilesInv, UiInv, NotesLostOnlyWhenFull
    <2> QED BY <2>3, <2>6 DEF FilesInv
  <1>2. ASSUME NEW n \in FileNames, NEW d \in Texts, cmd_write(n, d) PROVE FilesInv'
    <2>1. /\ ~notes_open /\ ramfs_write(n, d) /\ booted' = booted
          /\ notes_open' = notes_open /\ no_buf' = no_buf /\ edited' = edited
      BY <1>2 DEF cmd_write
    <2>2. d \in Contents
      BY RamfsAssumption DEF Contents
    <2>3. StoreInv' /\ CountInv' /\ asked' = <<n, d>>
      BY <1>0, <2>1, <2>2, WriteStep
    <2>4. UiInv' /\ NotesLostOnlyWhenFull'
      BY <2>1, <2>2, <2>3 DEF FilesInv, UiInv, NotesLostOnlyWhenFull
    <2> QED BY <2>3, <2>4 DEF FilesInv
  <1>3. CASE app_notes_open
    <2>1. /\ Running /\ notes_open' = TRUE /\ edited' = FALSE /\ UNCHANGED fs
          /\ booted' = booted /\ asked' = asked
          /\ no_buf' = IF Content(Notes) = Absent THEN <<>>
                       ELSE SubSeq(Content(Notes), 1,
                                   IF Len(Content(Notes)) < NO_MAX
                                   THEN Len(Content(Notes)) ELSE NO_MAX)
      BY <1>3 DEF app_notes_open
    <2>2. no_buf' \in Contents /\ Len(no_buf') <= NO_MAX
      <3>1. CASE Content(Notes) = Absent
        BY <1>0, <2>1, <3>1 DEF Contents
      <3>2. CASE Content(Notes) # Absent
        <4> DEFINE s == Content(Notes)
                   m == IF Len(s) < NO_MAX THEN Len(s) ELSE NO_MAX
        <4>1. s \in Contents
          BY <1>0, <3>2, ContentType
        <4>2. no_buf' = SubSeq(s, 1, m)
          BY <2>1, <3>2
        <4> HIDE DEF s
        <4>3. m \in Nat /\ m <= Len(s) /\ m <= NO_MAX
          BY <1>0, <4>1 DEF Contents
        <4> HIDE DEF m
        <4>4. SubSeq(s, 1, m) \in Contents /\ Len(SubSeq(s, 1, m)) = m
          BY <4>1, <4>3, Shortened
        <4> QED BY <4>2, <4>3, <4>4
      <3> QED BY <3>1, <3>2
    <2>3. StoreInv' /\ CountInv'
      BY <1>0, <2>1, FsUnchanged
    <2>4. UiInv' /\ NotesLostOnlyWhenFull'
      BY <2>1, <2>2 DEF FilesInv, UiInv, Running, NotesLostOnlyWhenFull
    <2> QED BY <2>3, <2>4 DEF FilesInv
  <1>4. CASE leave_notes
    <2>1. /\ notes_open' = FALSE /\ edited' = FALSE /\ UNCHANGED fs
          /\ booted' = booted /\ asked' = asked /\ no_buf' = no_buf
      BY <1>4 DEF leave_notes
    <2>2. StoreInv' /\ CountInv'
      BY <1>0, <2>1, FsUnchanged
    <2>3. UiInv' /\ NotesLostOnlyWhenFull'
      BY <2>1 DEF FilesInv, UiInv, Running, NotesLostOnlyWhenFull
    <2> QED BY <2>2, <2>3 DEF FilesInv
  <1>5. CASE notes_backspace
    <2> DEFINE buf == IF no_buf = <<>> THEN no_buf ELSE SubSeq(no_buf, 1, Len(no_buf) - 1)
    <2>1. notes_open /\ Save(buf)
      BY <1>5 DEF notes_backspace
    <2>2. buf \in Contents /\ Len(buf) <= NO_MAX
      <3>1. CASE no_buf = <<>>
        BY <1>0, <3>1
      <3>2. CASE no_buf # <<>>
        <4>1. Len(no_buf) \in Nat /\ Len(no_buf) - 1 \in Nat /\ Len(no_buf) - 1 <= Len(no_buf)
          BY <1>0, <3>2 DEF Contents
        <4>2. /\ SubSeq(no_buf, 1, Len(no_buf) - 1) \in Contents
              /\ Len(SubSeq(no_buf, 1, Len(no_buf) - 1)) = Len(no_buf) - 1
          BY <1>0, <4>1, Shortened
        <4> QED BY <1>0, <3>2, <4>1, <4>2
      <3> QED BY <3>1, <3>2
    <2> HIDE DEF buf
    <2> QED BY <2>1, <2>2, SaveStep
  <1>6. ASSUME NEW c \in Bytes, notes_char(c) PROVE FilesInv'
    <2> DEFINE buf == IF Len(no_buf) < NO_MAX THEN Append(no_buf, c) ELSE no_buf
    <2>1. notes_open /\ Save(buf)
      BY <1>6 DEF notes_char
    <2>2. buf \in Contents /\ Len(buf) <= NO_MAX
      BY <1>0 DEF Contents
    <2> HIDE DEF buf
    <2> QED BY <2>1, <2>2, SaveStep
  <1> QED BY <1>1, <1>2, <1>3, <1>4, <1>5, <1>6 DEF Next, FileNames

\* No session but the one on files touches them.
LEMMA AppsStep ==
    ASSUME FilesInv, [AppsNext]_appVars
    PROVE  FilesInv' /\ [Next]_vars
  <1>1. Next \/ UNCHANGED vars
    BY DEF AppsNext, appVars
  <1>2. ASSUME Next PROVE FilesInv'
    BY <1>2, FilesStep
  <1>3. ASSUME UNCHANGED vars PROVE FilesInv'
    <2>1. UNCHANGED fs /\ booted' = booted /\ notes_open' = notes_open
          /\ no_buf' = no_buf /\ edited' = edited /\ asked' = asked
      BY <1>3 DEF vars, fs
    <2>2. StoreInv' /\ CountInv' /\ Content(Notes)' = Content(Notes)
      BY <2>1, FsUnchanged DEF FilesInv
    <2>3. UiInv'
      BY <2>1 DEF FilesInv, UiInv, Running
    <2>4. CanWrite(Notes, no_buf)' <=> CanWrite(Notes, no_buf)
      BY <2>1 DEF fs, CanWrite, Fits, Holding, Unused
    <2>5. NotesLostOnlyWhenFull'
      BY <2>1, <2>2, <2>4 DEF FilesInv, NotesLostOnlyWhenFull
    <2> QED BY <2>2, <2>3, <2>5 DEF FilesInv
  <1>4. [Next]_vars
    BY <1>1
  <1> QED BY <1>1, <1>2, <1>3, <1>4, Zenon

LEMMA FilesInit ==
    ASSUME AppsInit
    PROVE  FilesInv
  <1>1. Init
    BY DEF AppsInit
  <1>2. /\ files = [i \in Slots |-> [used |-> FALSE, name |-> NoName, off |-> 0, size |-> 0]]
        /\ count = 0 /\ arena = [i \in Cells |-> NoByte] /\ arena_used = 0
        /\ booted = 0 /\ notes_open = FALSE /\ no_buf = <<>> /\ edited = FALSE
        /\ asked = NoRequest
    BY <1>1 DEF Init
  <1>3. ARENA \in Nat /\ NO_MAX \in Nat /\ Len(Seeds) \in Nat
    BY RamfsAssumption
  <1>4. \A i \in Slots : files[i] \in FileType /\ ~files[i].used
    BY <1>2, <1>3 DEF FileType, FileNames
  <1>5. StoreInv
    <2>1. files \in [Slots -> FileType]
      BY <1>2, <1>4
    <2>2. arena \in [Cells -> Bytes \cup {NoByte}] /\ arena_used \in 0 .. ARENA
      BY <1>2, <1>3
    <2>3. \A c \in Cells : ~(c < arena_used)
      BY <1>2, <1>3 DEF Cells
    <2> QED BY <1>4, <2>1, <2>2, <2>3 DEF StoreInv
  <1>6. Used = {}
    BY <1>4 DEF Used
  <1>7. CountInv
    BY <1>2, <1>6, FS_EmptySet DEF CountInv
  <1>8. UiInv /\ NotesLostOnlyWhenFull
    <2>1. no_buf \in Contents /\ Len(no_buf) <= NO_MAX
      BY <1>2, <1>3 DEF Contents
    <2>2. booted \in 0 .. Len(Seeds)
      BY <1>2, <1>3
    <2> QED BY <1>2, <2>1, <2>2 DEF UiInv, NotesLostOnlyWhenFull
  <1> QED BY <1>5, <1>7, <1>8 DEF FilesInv

LEMMA FilesAlways == AppsSpec => []FilesInv
  BY FilesInit, AppsStep, PTL DEF AppsSpec

----------------------------------------------------------------------------
(* Theorems.                                                               *)

\* The file table, the arena and the Notes buffer stay within their sizes
\* (ramfs_core.c, apps.c), whatever is written in whatever order.
THEOREM FilesTyped == AppsSpec => []TypeOK
  <1>1. FilesInv => TypeOK
    <2> SUFFICES ASSUME FilesInv PROVE TypeOK
      OBVIOUS
    <2>1. count \in 0 .. MAX_FILES
      BY UsedCount DEF FilesInv, CountInv
    <2> QED BY <2>1 DEF FilesInv, StoreInv, UiInv, TypeOK, FileType, FileNames, Contents
  <1> QED BY <1>1, FilesAlways, PTL

\* Autosave (app_notes_key in apps.c): after a key in Notes the file holds
\* the buffer, unless the arena cannot take it or there is no slot.
THEOREM NotesAutosaved == AppsSpec => []NotesLostOnlyWhenFull
  <1>1. FilesInv => NotesLostOnlyWhenFull
    BY DEF FilesInv
  <1> QED BY <1>1, FilesAlways, PTL

\* One step of the filesystem is a write of one file, a failed write, or
\* nothing a reader can see.
LEMMA MapStep ==
    ASSUME FilesInv, [Next]_vars
    PROVE  [Map!Next]_(Map!vars)
  <1> DEFINE now == [n \in Names |-> Content(n)]
             then == [n \in Names |-> Content(n)']
  <1>0. StoreInv /\ CountInv
    BY DEF FilesInv
  <1>1. ASSUME NEW n \in FileNames, NEW d \in Contents, ramfs_write(n, d)
        PROVE  Map!Next
    <2>1. /\ asked' = <<n, d>> 
          /\ \/ /\ n \in Names /\ Content(n)' = d
                /\ \A m : m # n => Content(m)' = Content(m)
             \/ UNCHANGED fs
      BY <1>0, <1>1, WriteStep
    <2>2. asked' # NoRequest /\ asked'[1] = n /\ asked'[2] = d
      BY <2>1 DEF NoRequest
    <2>3. CASE n \in Names /\ Content(n)' = d /\ \A m : m # n => Content(m)' = Content(m)
      <3>1. then = [now EXCEPT ![n] = d]
        BY <2>3
      <3> QED BY <2>2, <2>3, <3>1 DEF Map!Next, Map!Write, Contents
    <2>4. CASE UNCHANGED fs
      <3>1. then = now
        BY <2>4, FsUnchanged
      <3> QED BY <2>2, <3>1 DEF Map!Next, Map!Fail, Contents
    <2> QED BY <2>1, <2>3, <2>4
  <1>2. ASSUME UNCHANGED fs, asked' = asked PROVE UNCHANGED Map!vars
    <2>1. then = now
      BY <1>2, FsUnchanged
    <2> QED BY <1>2, <2>1 DEF Map!vars
  <1>3. CASE kfs_init
    <2>1. /\ booted < Len(Seeds) /\ booted \in Nat
          /\ ramfs_write(Seeds[booted + 1][1], Seeds[booted + 1][2])
      BY <1>3, RamfsAssumption DEF kfs_init, FilesInv, UiInv
    <2> QED BY <1>1, <2>1, SeedType
  <1>4. ASSUME NEW n \in FileNames, NEW d \in Texts, cmd_write(n, d) PROVE Map!Next
    BY <1>1, <1>4, RamfsAssumption DEF cmd_write, Contents
  <1>5. ASSUME NEW buf, Save(buf) PROVE buf \in Contents => Map!Next
    BY <1>1, <1>5, RamfsAssumption DEF Save, FileNames
  <1>6. CASE notes_backspace \/ \E c \in Bytes : notes_char(c)
    <2>1. PICK buf : Save(buf)
      BY <1>6 DEF notes_backspace, notes_char
    <2>2. no_buf' = buf
      BY <2>1 DEF Save
    <2>3. FilesInv'
      BY <1>6, FilesStep DEF Next
    <2> QED BY <1>5, <2>1, <2>2, <2>3 DEF FilesInv, UiInv
  <1>7. CASE app_notes_open \/ leave_notes \/ UNCHANGED vars
    <2>1. UNCHANGED fs /\ asked' = asked
      BY <1>7 DEF app_notes_open, leave_notes, vars, fs
    <2> QED BY <1>2, <2>1
  <1> QED BY <1>3, <1>4, <1>6, <1>7 DEF Next, FileNames

\* ramfs_core.h, "Create-or-replace a file's content": the table of recycled
\* slots and the append-only arena implement a map from names to contents.
THEOREM FilesAreMap == AppsSpec => IsFileMap
  <1>1. AppsInit => Map!Init
    <2> SUFFICES ASSUME AppsInit PROVE Map!Init
      OBVIOUS
    <2>1. /\ files = [i \in Slots |-> [used |-> FALSE, name |-> NoName, off |-> 0, size |-> 0]]
          /\ asked = NoRequest
      BY DEF AppsInit, Init
    <2>2. \A n : Content(n) = Absent
      BY <2>1 DEF Content, Holding
    <2> QED BY <2>1, <2>2 DEF Map!Init
  <1>2. FilesInv /\ [AppsNext]_appVars => [Map!Next]_(Map!vars)
    BY AppsStep, MapStep
  <1> QED BY <1>1, <1>2, FilesAlways, PTL DEF AppsSpec, IsFileMap, Map!Spec

----------------------------------------------------------------------------
(* Paint.  Positions along a stroke.                                       *)

LEMMA QuotientBounds ==
    ASSUME NEW x \in Nat, NEW n \in Nat \ {0}
    PROVE  x \div n \in Nat /\ (x \div n) * n <= x /\ x < (x \div n) * n + n
  <1>1. x \div n \in Int /\ x = n * (x \div n) + (x % n) /\ x % n \in 0 .. n - 1
    OBVIOUS
  <1>2. (x \div n) * n <= x /\ x < (x \div n) * n + n
    BY <1>1
  <1>3. x \div n >= 0
    <2> SUFFICES ASSUME x \div n <= -1 PROVE FALSE
      BY <1>1
    <2>1. (x \div n) * n <= (-1) * n
      BY <1>1
    <2> QED BY <1>2, <2>1
  <1> QED BY <1>1, <1>2, <1>3

LEMMA Ordered ==
    ASSUME NEW a \in Int, NEW b \in Int, NEW n \in Nat \ {0}, a * n < b * n
    PROVE  a < b
  <1> SUFFICES ASSUME b <= a PROVE FALSE
    OBVIOUS
  <1>1. b * n <= a * n
    OBVIOUS
  <1>2. a * n \in Int /\ b * n \in Int
    OBVIOUS
  <1> QED BY <1>1, <1>2

\* Going a pixels in n steps, a <= n, each step goes one pixel or none.
LEMMA Along ==
    ASSUME NEW n \in Nat \ {0}, NEW a \in 0 .. n, NEW k \in 0 .. n
    PROVE  /\ (a * k) \div n \in 0 .. a
           /\ (a * (k + 1)) \div n - (a * k) \div n \in 0 .. 1
           /\ k = 0 => (a * k) \div n = 0
           /\ k = n => (a * k) \div n = a
  <1> DEFINE p == a * k
             q == p \div n
             r == (p + a) \div n
  <1>1. p \in Nat /\ p + a \in Nat /\ a \in Nat /\ k \in Nat /\ a * (k + 1) = p + a
    OBVIOUS
  <1>2. p <= a * n /\ (k = 0 => p = 0) /\ (k = n => p = a * n)
    BY <1>1
  <1> HIDE DEF p
  <1>3. q \in Nat /\ q * n <= p /\ p < q * n + n
    BY <1>1, QuotientBounds
  <1>4. r \in Nat /\ r * n <= p + a /\ p + a < r * n + n
    BY <1>1, QuotientBounds
  <1> HIDE DEF q, r
  <1>5. /\ q * n \in Int /\ r * n \in Int /\ a * n \in Int
        /\ (a + 1) * n = a * n + n /\ (q + 1) * n = q * n + n /\ (r + 1) * n = r * n + n
        /\ (q + 2) * n = q * n + n + n
    BY <1>1, <1>3, <1>4
  <1>6. q < a + 1
    <2>1. q * n < (a + 1) * n
      BY <1>1, <1>2, <1>3, <1>5
    <2> QED BY <1>1, <1>3, <2>1, Ordered
  <1>7. r < q + 2
    <2>1. r * n < (q + 2) * n
      BY <1>1, <1>3, <1>4, <1>5
    <2> QED BY <1>3, <1>4, <2>1, Ordered
  <1>8. q < r + 1
    <2>1. q * n < (r + 1) * n
      BY <1>1, <1>3, <1>4, <1>5
    <2> QED BY <1>3, <1>4, <2>1, Ordered
  <1>9. k = 0 => q = 0
    <2> SUFFICES ASSUME k = 0 PROVE q = 0
      OBVIOUS
    <2>1. p = 0
      BY <1>2
    <2>2. q * n < 1 * n
      BY <1>3, <1>5, <2>1
    <2> QED BY <1>3, <2>2, Ordered
  <1>10. k = n => q = a
    <2> SUFFICES ASSUME k = n PROVE q = a
      OBVIOUS
    <2>1. a * n < (q + 1) * n
      BY <1>2, <1>3, <1>5
    <2>2. a < q + 1
      BY <1>1, <1>3, <2>1, Ordered
    <2> QED BY <1>1, <1>3, <1>6, <2>2
  <1>11. q \in 0 .. a /\ r - q \in 0 .. 1
    BY <1>1, <1>3, <1>4, <1>6, <1>7, <1>8
  <1> QED BY <1>1, <1>9, <1>10, <1>11 DEF p, q, r

\* The same in either direction, with C's division.
LEMMA Strides ==
    ASSUME NEW n \in Nat \ {0}, NEW d \in -n .. n, NEW k \in 0 .. n
    PROVE  /\ Div(d * k, n) \in Int
           /\ (0 <= Div(d * k, n) /\ Div(d * k, n) <= d) \/ (d <= Div(d * k, n) /\ Div(d * k, n) <= 0)
           /\ Div(d * (k + 1), n) - Div(d * k, n) \in -1 .. 1
           /\ k = 0 => Div(d * k, n) = 0
           /\ k = n => Div(d * k, n) = d
  <1>1. d \in Int /\ k \in Nat /\ n \in Int
    OBVIOUS
  <1>2. CASE d >= 0
    <2>1. d \in 0 .. n
      BY <1>1, <1>2
    <2>2. d * k \in Nat /\ d * (k + 1) \in Nat
      BY <1>1, <1>2
    <2>3. Div(d * k, n) = (d * k) \div n /\ Div(d * (k + 1), n) = (d * (k + 1)) \div n
      BY <2>2 DEF Div
    <2>4. /\ (d * k) \div n \in 0 .. d
          /\ (d * (k + 1)) \div n - (d * k) \div n \in 0 .. 1
          /\ k = 0 => (d * k) \div n = 0
          /\ k = n => (d * k) \div n = d
      BY <2>1, Along
    <2>5. (d * k) \div n \in Int /\ 0 <= (d * k) \div n /\ (d * k) \div n <= d
      BY <1>1, <2>4
    <2>6. (d * (k + 1)) \div n - (d * k) \div n \in -1 .. 1
      BY <2>4
    <2> QED BY <2>3, <2>4, <2>5, <2>6
  <1>3. CASE d < 0
    <2> DEFINE a == -d
    <2>1. a \in 0 .. n /\ a \in Nat /\ d = -a
      BY <1>1, <1>3
    <2>2. \A j \in Nat : d * j = -(a * j) /\ a * j \in Nat
      BY <1>1, <2>1
    <2>3. \A j \in Nat : Div(d * j, n) = -((a * j) \div n)
      <3> SUFFICES ASSUME NEW j \in Nat PROVE Div(d * j, n) = -((a * j) \div n)
        OBVIOUS
      <3> DEFINE p == a * j
      <3>1. d * j = -p /\ p \in Nat
        BY <2>2
      <3> HIDE DEF p
      <3>2. Div(-p, n) = -(p \div n)
        <4>1. CASE p = 0
          <5>1. 0 \div n = 0
            OBVIOUS
          <5> QED BY <4>1, <5>1 DEF Div
        <4>2. CASE p # 0
          <5>1. -p < 0 /\ -(-p) = p
            BY <3>1, <4>2
          <5> QED BY <5>1 DEF Div
        <4> QED BY <4>1, <4>2
      <3> QED BY <3>1, <3>2 DEF p
    <2>4. /\ (a * k) \div n \in 0 .. a
          /\ (a * (k + 1)) \div n - (a * k) \div n \in 0 .. 1
          /\ k = 0 => (a * k) \div n = 0
          /\ k = n => (a * k) \div n = a
      BY <2>1, Along
    <2> DEFINE q == (a * k) \div n
               r == (a * (k + 1)) \div n
    <2>5. Div(d * k, n) = -q /\ Div(d * (k + 1), n) = -r
      <3>1. k + 1 \in Nat
        BY <1>1
      <3> QED BY <1>1, <2>3, <3>1
    <2>6. q \in Nat /\ q <= a /\ r \in Int
      <3>1. q \in Nat /\ q <= a
        BY <2>1, <2>4
      <3>2. a * (k + 1) \in Nat
        BY <1>1, <2>1
      <3> QED BY <3>1, <3>2, QuotientBounds
    <2> HIDE DEF q, r
    <2>7. r - q \in 0 .. 1 /\ (k = 0 => q = 0) /\ (k = n => q = a)
      BY <2>4 DEF q, r
    <2>8. /\ -q \in Int /\ d <= -q /\ -q <= 0 /\ (-r) - (-q) \in -1 .. 1
          /\ (k = 0 => -q = 0) /\ (k = n => -q = d)
      BY <1>1, <2>1, <2>6, <2>7
    <2> QED BY <2>5, <2>8
  <1> QED BY <1>1, <1>2, <1>3

LEMMA StepsCover ==
    ASSUME NEW dx \in Int, NEW dy \in Int
    PROVE  /\ Steps(dx, dy) \in Nat \ {0}
           /\ dx \in -Steps(dx, dy) .. Steps(dx, dy) /\ dy \in -Steps(dx, dy) .. Steps(dx, dy)
  <1> DEFINE S == {1, dx, -dx, dy, -dy}
  <1>1. \E n \in S : \A m \in S : n >= m
    OBVIOUS
  <1>2. Steps(dx, dy) \in S /\ \A m \in S : Steps(dx, dy) >= m
    BY <1>1 DEF Steps
  <1>3. Steps(dx, dy) \in Int
    BY <1>2
  <1> QED BY <1>2, <1>3

----------------------------------------------------------------------------
(* Strokes.                                                                *)

Points == Int \X Int

Solid(s) ==
    /\ \A i \in 1 .. Len(s) : Disc(s[i]) \subseteq (0 .. PANEL_W - 1) \X (0 .. CANVAS_H - 1)
    /\ \A i \in 1 .. Len(s) - 1 : Near(s[i], s[i + 1])

LEMMA CanvasTyped ==
    ASSUME NEW x, NEW y, pa_in_canvas(x, y)
    PROVE  x \in Nat /\ y \in Nat /\ in_panel(x, y)
  <1>1. MARGIN \in Nat /\ PANEL_W \in Nat /\ CANVAS_H \in Nat /\ PANEL_H \in Nat /\ CANVAS_H <= PANEL_H
    BY PaintAssumption
  <1> QED BY <1>1 DEF pa_in_canvas, in_panel

\* The margin is as wide as the brush.
LEMMA DiscOnCanvas ==
    ASSUME NEW x, NEW y, pa_in_canvas(x, y)
    PROVE  Disc(<<x, y>>) \subseteq (0 .. PANEL_W - 1) \X (0 .. CANVAS_H - 1)
  <1>1. MARGIN \in Nat /\ PANEL_W \in Nat /\ CANVAS_H \in Nat /\ RADIUS \in Nat /\ RADIUS <= MARGIN
    BY PaintAssumption
  <1>2. /\ x \in Int /\ MARGIN <= x /\ x <= PANEL_W - MARGIN - 1
        /\ y \in Int /\ MARGIN <= y /\ y <= CANVAS_H - MARGIN - 1
    BY <1>1 DEF pa_in_canvas
  <1>3. /\ \A p \in x - RADIUS .. x + RADIUS : p \in 0 .. PANEL_W - 1
        /\ \A p \in y - RADIUS .. y + RADIUS : p \in 0 .. CANVAS_H - 1
    BY <1>1, <1>2
  <1> QED BY <1>3 DEF Disc

LEMMA CanvasBetween ==
    ASSUME NEW x0 \in Int, NEW y0 \in Int, NEW dx \in Int, NEW dy \in Int,
           pa_in_canvas(x0, y0), pa_in_canvas(x0 + dx, y0 + dy),
           NEW u \in Int, NEW v \in Int,
           (0 <= u /\ u <= dx) \/ (dx <= u /\ u <= 0),
           (0 <= v /\ v <= dy) \/ (dy <= v /\ v <= 0)
    PROVE  pa_in_canvas(x0 + u, y0 + v)
  <1>1. MARGIN \in Nat /\ PANEL_W \in Nat /\ CANVAS_H \in Nat
    BY PaintAssumption
  <1> QED BY <1>1 DEF pa_in_canvas

\* A line between two points of the canvas.
LEMMA InterpolatedSolid ==
    ASSUME NEW x0, NEW y0, NEW x1, NEW y1, pa_in_canvas(x0, y0), pa_in_canvas(x1, y1)
    PROVE  LET s == Interpolated(x0, y0, x1, y1)
           IN s \in Seq(Points) /\ Solid(s) /\ s[1] = <<x0, y0>> /\ s[Len(s)] = <<x1, y1>>
  <1> DEFINE dx == x1 - x0
             dy == y1 - y0
             n == Steps(dx, dy)
             X(k) == x0 + Div(dx * k, n)
             Y(k) == y0 + Div(dy * k, n)
             s == Interpolated(x0, y0, x1, y1)
  <1>1. x0 \in Int /\ y0 \in Int /\ x1 \in Int /\ y1 \in Int
    BY CanvasTyped
  <1>2. dx \in Int /\ dy \in Int /\ x1 = x0 + dx /\ y1 = y0 + dy
    BY <1>1
  <1>3. n \in Nat \ {0} /\ dx \in -n .. n /\ dy \in -n .. n
    BY <1>2, StepsCover
  <1>4. s = [i \in 1 .. n + 1 |-> <<X(i - 1), Y(i - 1)>>]
    BY DEF Interpolated
  <1> HIDE DEF dx, dy, n, s
  <1>5. ASSUME NEW k \in 0 .. n
        PROVE  /\ X(k) \in Int /\ Y(k) \in Int /\ pa_in_canvas(X(k), Y(k))
               /\ k = 0 => X(k) = x0 /\ Y(k) = y0
               /\ k = n => X(k) = x1 /\ Y(k) = y1
               /\ X(k + 1) - X(k) \in -1 .. 1 /\ Y(k + 1) - Y(k) \in -1 .. 1
    <2> DEFINE u == Div(dx * k, n)
               v == Div(dy * k, n)
               uu == Div(dx * (k + 1), n)
               vv == Div(dy * (k + 1), n)
    <2>1. /\ u \in Int /\ ((0 <= u /\ u <= dx) \/ (dx <= u /\ u <= 0))
          /\ uu - u \in -1 .. 1 /\ (k = 0 => u = 0) /\ (k = n => u = dx)
      BY <1>3, Strides
    <2>2. /\ v \in Int /\ ((0 <= v /\ v <= dy) \/ (dy <= v /\ v <= 0))
          /\ vv - v \in -1 .. 1 /\ (k = 0 => v = 0) /\ (k = n => v = dy)
      BY <1>3, Strides
    <2>3. X(k) = x0 + u /\ Y(k) = y0 + v /\ X(k + 1) = x0 + uu /\ Y(k + 1) = y0 + vv
      OBVIOUS
    <2>4. uu \in Int /\ vv \in Int
      <3>1. dx * (k + 1) \in Int /\ dy * (k + 1) \in Int /\ n \in Int /\ n # 0
        BY <1>2, <1>3
      <3>2. \A m \in Int : Div(m, n) \in Int
        BY <3>1 DEF Div
      <3> QED BY <3>1, <3>2
    <2> HIDE DEF u, v, uu, vv, X, Y
    <2>5. pa_in_canvas(X(k), Y(k))
      <3>1. pa_in_canvas(x0 + dx, y0 + dy)
        BY <1>2
      <3>2. pa_in_canvas(x0 + u, y0 + v)
        BY <1>1, <1>2, <2>1, <2>2, <3>1, CanvasBetween
      <3> QED BY <2>3, <3>2
    <2>6. X(k + 1) - X(k) \in -1 .. 1 /\ Y(k + 1) - Y(k) \in -1 .. 1
      <3>1. (x0 + uu) - (x0 + u) = uu - u /\ (y0 + vv) - (y0 + v) = vv - v
        BY <1>1, <2>1, <2>2, <2>4
      <3> QED BY <2>1, <2>2, <2>3, <3>1
    <2> QED BY <1>1, <1>2, <2>1, <2>2, <2>3, <2>5, <2>6
  <1> HIDE DEF X, Y
  <1>6. Len(s) = n + 1 /\ s \in Seq(Points) /\ \A i \in 1 .. n + 1 : s[i] = <<X(i - 1), Y(i - 1)>>
    <2>1. \A i \in 1 .. n + 1 : i - 1 \in 0 .. n
      BY <1>3
    <2>2. \A i \in 1 .. n + 1 : <<X(i - 1), Y(i - 1)>> \in Points
      BY <1>5, <2>1 DEF Points
    <2> QED BY <1>3, <1>4, <2>2
  <1>7. \A i \in 1 .. Len(s) : Disc(s[i]) \subseteq (0 .. PANEL_W - 1) \X (0 .. CANVAS_H - 1)
    <2> SUFFICES ASSUME NEW i \in 1 .. n + 1
                 PROVE  Disc(s[i]) \subseteq (0 .. PANEL_W - 1) \X (0 .. CANVAS_H - 1)
      BY <1>6
    <2>1. i - 1 \in 0 .. n
      BY <1>3
    <2>2. pa_in_canvas(X(i - 1), Y(i - 1))
      BY <1>5, <2>1
    <2> QED BY <1>6, <2>2, DiscOnCanvas
  <1>8. \A i \in 1 .. Len(s) - 1 : Near(s[i], s[i + 1])
    <2> SUFFICES ASSUME NEW i \in 1 .. n PROVE Near(s[i], s[i + 1])
      BY <1>3, <1>6
    <2>1. i - 1 \in 0 .. n /\ i \in 1 .. n + 1 /\ i + 1 \in 1 .. n + 1 /\ (i - 1) + 1 = i /\ (i + 1) - 1 = i
      BY <1>3
    <2>2. X((i - 1) + 1) - X(i - 1) \in -1 .. 1 /\ Y((i - 1) + 1) - Y(i - 1) \in -1 .. 1
      BY <1>5, <2>1
    <2>3. s[i] = <<X(i - 1), Y(i - 1)>> /\ s[i + 1] = <<X(i), Y(i)>>
      BY <1>6, <2>1
    <2> QED BY <2>1, <2>2, <2>3 DEF Near
  <1>9. s[1] = <<x0, y0>> /\ s[Len(s)] = <<x1, y1>>
    <2>1. 1 \in 1 .. n + 1 /\ n + 1 \in 1 .. n + 1 /\ 1 - 1 = 0 /\ (n + 1) - 1 = n /\ 0 \in 0 .. n /\ n \in 0 .. n
      BY <1>3
    <2>2. s[1] = <<X(0), Y(0)>> /\ s[n + 1] = <<X(n), Y(n)>>
      BY <1>6, <2>1
    <2>3. X(0) = x0 /\ Y(0) = y0 /\ X(n) = x1 /\ Y(n) = y1
      BY <1>5, <2>1
    <2> QED BY <1>6, <2>2, <2>3
  <1> QED BY <1>6, <1>7, <1>8, <1>9 DEF Solid, s

\* Where the stroke goes on from is the last canvas point of the press, if the
\* application has seen the press begin.
PaintInv ==
    /\ stroke \in Seq(Points) /\ trail \in Seq(Points) /\ pa_lx \in Int /\ pa_ly \in Int
    /\ pa_lx # NoPoint => pa_in_canvas(pa_lx, pa_ly)
    /\ g_paint /\ inside /\ prevl /\ pa_lx # NoPoint =>
          trail # <<>> /\ trail[Len(trail)] = <<pa_lx, pa_ly>>
    /\ StrokesAreSolid

LEMMA MotionStep ==
    ASSUME NEW x \in Int, NEW y \in Int, NEW lx \in {NoPoint, pa_lx}, pa_ly \in Int,
           pa_lx # NoPoint => pa_in_canvas(pa_lx, pa_ly), app_paint_motion(x, y, lx)
    PROVE  /\ stroke' \in Seq(Points) /\ Solid(stroke') /\ pa_lx' \in Int /\ pa_ly' \in Int
           /\ pa_in_canvas(x, y) => pa_lx' = x /\ pa_ly' = y
           /\ ~pa_in_canvas(x, y) => pa_lx' = NoPoint
           /\ stroke' # <<>> => /\ pa_in_canvas(x, y) /\ stroke'[Len(stroke')] = <<x, y>>
                                /\ \/ stroke'[1] = <<x, y>>
                                   \/ /\ lx = pa_lx /\ pa_lx # NoPoint
                                      /\ stroke'[1] = <<pa_lx, pa_ly>>
  <1>1. CASE ~pa_in_canvas(x, y)
    BY <1>1 DEF app_paint_motion, Solid, NoPoint
  <1>2. CASE pa_in_canvas(x, y) /\ lx < 0
    <2>1. stroke' = << <<x, y>> >> /\ pa_lx' = x /\ pa_ly' = y
      BY <1>2 DEF app_paint_motion
    <2>2. stroke' \in Seq(Points) /\ Len(stroke') = 1 /\ stroke'[1] = <<x, y>>
      BY <2>1 DEF Points
    <2>3. Disc(<<x, y>>) \subseteq (0 .. PANEL_W - 1) \X (0 .. CANVAS_H - 1)
      BY <1>2, DiscOnCanvas
    <2>4. Solid(stroke')
      BY <2>2, <2>3 DEF Solid
    <2> QED BY <1>2, <2>1, <2>2, <2>4
  <1>3. CASE pa_in_canvas(x, y) /\ ~(lx < 0)
    <2>1. stroke' = Interpolated(lx, pa_ly, x, y) /\ pa_lx' = x /\ pa_ly' = y
      BY <1>3 DEF app_paint_motion
    <2>2. lx = pa_lx /\ pa_lx # NoPoint
      BY <1>3 DEF NoPoint
    <2>3. /\ stroke' \in Seq(Points) /\ Solid(stroke') /\ stroke'[1] = <<lx, pa_ly>>
          /\ stroke'[Len(stroke')] = <<x, y>>
      BY <1>3, <2>1, <2>2, InterpolatedSolid
    <2> QED BY <1>3, <2>1, <2>2, <2>3
  <1> QED BY <1>1, <1>2, <1>3

LEMMA PaintStep == PaintInv /\ PaintNext => PaintInv'
  <1> SUFFICES ASSUME PaintInv, PaintNext PROVE PaintInv'
    OBVIOUS
  <1>0. Solid(<<>>) /\ <<>> \in Seq(Points) /\ NoPoint \in Int
    BY DEF Solid, NoPoint
  <1>1. ASSUME stroke' = <<>> PROVE StrokesAreSolid' /\ stroke' \in Seq(Points)
    BY <1>1 DEF StrokesAreSolid
  <1>2. CASE app_paint_open
    <2>1. stroke' = <<>> /\ trail' = <<>> /\ pa_lx' = NoPoint /\ pa_ly' = NoPoint
      BY <1>2 DEF app_paint_open
    <2> QED BY <1>0, <1>1, <2>1 DEF PaintInv
  <1>3. CASE leave_paint
    <2>1. stroke' = <<>> /\ g_paint' = FALSE /\ UNCHANGED <<trail, pa_lx, pa_ly>>
      BY <1>3 DEF leave_paint
    <2> QED BY <1>1, <2>1 DEF PaintInv, pa_in_canvas
  <1>4. ASSUME NEW x \in -1 .. PANEL_W, NEW y \in -1 .. PANEL_H, NEW l \in BOOLEAN,
               mouse_event(x, y, l)
        PROVE  PaintInv'
    <2> DEFINE before == IF l /\ prevl /\ trail # <<>> THEN <<trail[Len(trail)]>> ELSE <<>>
    <2>0. x \in Int /\ y \in Int /\ <<x, y>> \in Points
      BY PaintAssumption DEF Points
    <2>1. /\ prevl' = l /\ g_paint' = g_paint
          /\ inside' = IF l /\ ~prevl THEN in_panel(x, y) ELSE inside
          /\ trail' = IF l /\ pa_in_canvas(x, y) THEN Append(before, <<x, y>>) ELSE before
      BY <1>4 DEF mouse_event, Followed
    <2>2. /\ before \in Seq(Points)
          /\ l /\ prevl /\ trail # <<>> => Len(before) = 1 /\ before[1] = trail[Len(trail)]
      <3>1. CASE l /\ prevl /\ trail # <<>>
        <4>1. trail \in Seq(Points) /\ Len(trail) \in 1 .. Len(trail)
          BY <3>1 DEF PaintInv
        <4>2. trail[Len(trail)] \in Points
          BY <4>1
        <4> QED BY <3>1, <4>2
      <3>2. CASE ~(l /\ prevl /\ trail # <<>>)
        BY <1>0, <3>2
      <3> QED BY <3>1, <3>2
    <2> HIDE DEF before
    <2>3. /\ trail' \in Seq(Points)
          /\ l /\ pa_in_canvas(x, y) => trail' # <<>> /\ trail'[Len(trail')] = <<x, y>>
          /\ l /\ ~pa_in_canvas(x, y) => trail' = before
          /\ \A i \in DOMAIN before : before[i] \in {trail'[j] : j \in DOMAIN trail'}
      <3>1. CASE l /\ pa_in_canvas(x, y)
        <4>1. trail' = Append(before, <<x, y>>)
          BY <2>1, <3>1
        <4>2. /\ trail' \in Seq(Points) /\ Len(trail') = Len(before) + 1 /\ trail'[Len(before) + 1] = <<x, y>>
              /\ Len(before) \in Nat /\ \A i \in 1 .. Len(before) : trail'[i] = before[i]
          BY <2>0, <2>2, <4>1
        <4>3. DOMAIN before = 1 .. Len(before) /\ DOMAIN trail' = 1 .. Len(before) + 1
          BY <2>2, <4>2
        <4>4. \A i \in DOMAIN before : i \in DOMAIN trail' /\ before[i] = trail'[i]
          BY <4>2, <4>3
        <4>5. trail' # <<>>
          BY <4>2
        <4> QED BY <3>1, <4>2, <4>4, <4>5
      <3>2. CASE ~(l /\ pa_in_canvas(x, y))
        BY <2>1, <2>2, <3>2
      <3> QED BY <3>1, <3>2
    <2>4. CASE ~(g_paint /\ l /\ in_panel(x, y))
      <3>1. stroke' = <<>> /\ UNCHANGED <<pa_lx, pa_ly>>
        BY <1>4, <2>4 DEF mouse_event
      <3>2. /\ pa_lx' \in Int /\ pa_ly' \in Int
            /\ pa_lx' # NoPoint => pa_in_canvas(pa_lx', pa_ly')
        BY <3>1 DEF PaintInv
      <3>3. ASSUME g_paint', inside', prevl', pa_lx' # NoPoint
            PROVE  trail' # <<>> /\ trail'[Len(trail')] = <<pa_lx', pa_ly'>>
        <4>1. l /\ g_paint /\ ~in_panel(x, y)
          BY <2>1, <2>4, <3>3
        <4>2. prevl /\ inside
          BY <2>1, <3>3, <4>1
        <4>3. trail # <<>> /\ trail[Len(trail)] = <<pa_lx, pa_ly>>
          BY <3>1, <3>3, <4>1, <4>2 DEF PaintInv
        <4>4. ~pa_in_canvas(x, y)
          BY <4>1, CanvasTyped
        <4>5. trail' = before /\ Len(before) = 1 /\ before[1] = <<pa_lx, pa_ly>>
          BY <2>2, <2>3, <4>1, <4>2, <4>3, <4>4
        <4> QED BY <3>1, <4>5
      <3> QED BY <1>1, <2>3, <3>1, <3>2, <3>3 DEF PaintInv
    <2>5. CASE g_paint /\ l /\ in_panel(x, y)
      <3>1. ASSUME stroke' = <<>>, pa_lx' = NoPoint, pa_ly' \in Int PROVE PaintInv'
        BY <1>0, <1>1, <2>3, <3>1 DEF PaintInv
      <3>2. ASSUME NEW lx \in {NoPoint, pa_lx}, app_paint_motion(x, y, lx),
                   lx # NoPoint => prevl
            PROVE  PaintInv'
        <4>1. /\ stroke' \in Seq(Points) /\ Solid(stroke') /\ pa_lx' \in Int /\ pa_ly' \in Int
              /\ pa_in_canvas(x, y) => pa_lx' = x /\ pa_ly' = y
              /\ ~pa_in_canvas(x, y) => pa_lx' = NoPoint
              /\ stroke' # <<>> => /\ pa_in_canvas(x, y) /\ stroke'[Len(stroke')] = <<x, y>>
                                   /\ \/ stroke'[1] = <<x, y>>
                                      \/ /\ lx = pa_lx /\ pa_lx # NoPoint
                                         /\ stroke'[1] = <<pa_lx, pa_ly>>
          BY <2>0, <3>2, MotionStep DEF PaintInv
        <4>2. pa_lx' # NoPoint => /\ pa_in_canvas(x, y) /\ pa_lx' = x /\ pa_ly' = y
                                  /\ trail' # <<>> /\ trail'[Len(trail')] = <<x, y>>
          BY <2>3, <2>5, <4>1
        <4>3. stroke' # <<>> /\ inside' =>
                 {stroke'[1], stroke'[Len(stroke')]} \subseteq {trail'[i] : i \in DOMAIN trail'}
          <5> SUFFICES ASSUME stroke' # <<>>, inside'
                       PROVE  {stroke'[1], stroke'[Len(stroke')]} \subseteq {trail'[i] : i \in DOMAIN trail'}
            OBVIOUS
          <5>1. trail' # <<>> /\ trail'[Len(trail')] = <<x, y>> /\ trail' \in Seq(Points)
            BY <2>3, <2>5, <4>1
          <5>2. <<x, y>> \in {trail'[i] : i \in DOMAIN trail'}
            <6>1. Len(trail') \in DOMAIN trail'
              BY <5>1
            <6> QED BY <5>1, <6>1
          <5>3. CASE lx = pa_lx /\ pa_lx # NoPoint /\ stroke'[1] = <<pa_lx, pa_ly>>
            <6>1. prevl /\ inside
              BY <2>1, <3>2, <5>3
            <6>2. trail # <<>> /\ trail[Len(trail)] = <<pa_lx, pa_ly>>
              BY <2>5, <5>3, <6>1 DEF PaintInv
            <6>3. Len(before) = 1 /\ before[1] = <<pa_lx, pa_ly>> /\ 1 \in DOMAIN before
              BY <2>2, <2>5, <6>1, <6>2
            <6>4. <<pa_lx, pa_ly>> \in {trail'[i] : i \in DOMAIN trail'}
              BY <2>3, <6>3
            <6> QED BY <4>1, <5>2, <5>3, <6>4
          <5>4. CASE stroke'[1] = <<x, y>>
            BY <4>1, <5>2, <5>4
          <5> QED BY <4>1, <5>3, <5>4
        <4>4. StrokesAreSolid'
          BY <4>1, <4>3 DEF StrokesAreSolid, Solid
        <4>5. pa_lx' # NoPoint => pa_in_canvas(pa_lx', pa_ly')
          BY <4>2
        <4>6. pa_lx' # NoPoint => trail' # <<>> /\ trail'[Len(trail')] = <<pa_lx', pa_ly'>>
          BY <4>2
        <4> QED BY <2>3, <4>1, <4>4, <4>5, <4>6 DEF PaintInv
      <3>3. CASE prevl
        <4>1. app_paint_motion(x, y, pa_lx)
          BY <1>4, <2>5, <3>3 DEF mouse_event
        <4> QED BY <3>2, <3>3, <4>1
      <3>4. CASE ~prevl
        <4>1. app_paint_click(x, y)
          BY <1>4, <2>5, <3>4 DEF mouse_event
        <4>2. \/ stroke' = <<>> /\ pa_lx' = NoPoint /\ UNCHANGED pa_ly
              \/ app_paint_motion(x, y, NoPoint)
          BY <4>1 DEF app_paint_click
        <4> QED BY <3>1, <3>2, <4>2 DEF PaintInv
      <3> QED BY <3>3, <3>4
    <2> QED BY <2>4, <2>5
  <1> QED BY <1>2, <1>3, <1>4 DEF PaintNext

\* apps.c:227, "interpolate -> solid stroke": for every panel, canvas and brush
\* no wider than the margin, a stroke has no gap, stays on the canvas and joins
\* two points of one press.
THEOREM StrokesStaySolid == AppsSpec => []StrokesAreSolid
  <1>1. AppsInit => PaintInv
    <2> SUFFICES ASSUME AppsInit PROVE PaintInv
      OBVIOUS
    <2>1. stroke = <<>> /\ trail = <<>> /\ pa_lx = NoPoint /\ pa_ly = NoPoint
      BY DEF AppsInit, PaintInit
    <2> QED BY <2>1 DEF PaintInv, StrokesAreSolid, NoPoint
  <1>2. PaintInv /\ [AppsNext]_appVars => PaintInv'
    <2> SUFFICES ASSUME PaintInv, [AppsNext]_appVars PROVE PaintInv'
      OBVIOUS
    <2>1. CASE PaintNext
      BY <2>1, PaintStep
    <2>2. CASE UNCHANGED paintVars
      BY <2>2 DEF paintVars, PaintInv, StrokesAreSolid, pa_in_canvas
    <2> QED BY <2>1, <2>2 DEF AppsNext, appVars
  <1>3. PaintInv => StrokesAreSolid
    BY DEF PaintInv
  <1> QED BY <1>1, <1>2, <1>3, PTL DEF AppsSpec

----------------------------------------------------------------------------
(* Recursive functions.                                                    *)

\* Induction, for sets of numbers.
NatLess == {p \in Nat \X Nat : p[1] < p[2]}

LEMMA NatLessWF == IsWellFoundedOn(NatLess, Nat)
  <1>1. NatLess = OpToRel(<, Nat)
    BY Zenon DEF OpToRel, NatLess
  <1>2. IsWellFoundedOn(OpToRel(<, Nat), Nat)
    BY NatLessThanWellFounded, Zenon
  <1> QED BY <1>1, <1>2, Zenon

LEMMA LeastOf ==
    ASSUME NEW U, U \subseteq Nat, U # {}
    PROVE  \E x \in U : \A y \in U : x <= y
  <1>1. PICK x \in U : \A y \in U : ~(<<y, x>> \in NatLess)
    BY NatLessWF, WFMin, Zenon
  <1>2. \A y \in U : ~(y < x)
    BY <1>1 DEF NatLess
  <1> QED BY <1>2

\* g and h are computed alike at every number up to n from what they are at
\* the numbers before it.
Alike(g, h, n) == \A i \in 0 .. n : (\A p \in 0 .. i - 1 : g[p] = h[p]) => g[i] = h[i]

LEMMA AlikeAgree ==
    ASSUME NEW n \in Nat, NEW g, NEW h, Alike(g, h, n)
    PROVE  \A i \in 0 .. n : g[i] = h[i]
  <1> DEFINE U == {i \in 0 .. n : g[i] # h[i]}
  <1> SUFFICES ASSUME U # {} PROVE FALSE
    OBVIOUS
  <1>1. PICK x \in U : \A y \in U : x <= y
    <2>1. U \subseteq Nat
      OBVIOUS
    <2> HIDE DEF U
    <2> QED BY <2>1, LeastOf
  <1>2. \A p \in 0 .. x - 1 : g[p] = h[p]
    BY <1>1
  <1>3. g[x] = h[x]
    BY <1>2 DEF Alike
  <1> QED BY <1>3

\* g starts with a and is computed at i > 0 by F from its value at P[i].
Descends(P) == P \in [Nat -> Nat] /\ \A i \in Nat : i > 0 => P[i] < i

Recurs(g, P, F, a) == g[0] = a /\ \A i \in Nat : i > 0 => g[i] = F[<<i, g[P[i]]>>]

\* h is such a function up to n, with values in D.
Part(h, n, P, F, a, D) ==
    h \in [0 .. n -> D] /\ h[0] = a /\ \A i \in 1 .. n : h[i] = F[<<i, h[P[i]]>>]

LEMMA PartsAgree ==
    ASSUME NEW D, NEW a, NEW P, NEW F, Descends(P), NEW n \in Nat, NEW m \in Nat, n <= m,
           NEW g, NEW h, Part(g, n, P, F, a, D), Part(h, m, P, F, a, D)
    PROVE  \A i \in 0 .. n : g[i] = h[i]
  <1>1. ASSUME NEW i \in 0 .. n, \A p \in 0 .. i - 1 : g[p] = h[p] PROVE g[i] = h[i]
    <2>1. CASE i = 0
      BY <2>1 DEF Part
    <2>2. CASE i # 0
      <3>1. i \in 1 .. n /\ i \in 1 .. m /\ i \in Nat /\ i > 0
        BY <2>2
      <3>2. P[i] \in 0 .. i - 1
        BY <3>1 DEF Descends
      <3>3. g[i] = F[<<i, g[P[i]]>>] /\ h[i] = F[<<i, h[P[i]]>>]
        BY <3>1 DEF Part
      <3> QED BY <1>1, <3>2, <3>3
    <2> QED BY <2>1, <2>2
  <1>2. Alike(g, h, n)
    BY <1>1 DEF Alike
  <1> QED BY <1>2, AlikeAgree

LEMMA PartExists ==
    ASSUME NEW D, NEW a \in D, NEW P, NEW F \in [Nat \X D -> D], Descends(P), NEW n \in Nat
    PROVE  \E h : Part(h, n, P, F, a, D)
  <1> DEFINE U == {m \in Nat : ~ \E h : Part(h, m, P, F, a, D)}
  <1> SUFFICES ASSUME U # {} PROVE FALSE
    OBVIOUS
  <1>1. PICK x \in U : \A y \in U : x <= y
    <2>1. U \subseteq Nat
      OBVIOUS
    <2> HIDE DEF U
    <2> QED BY <2>1, LeastOf
  <1>2. CASE x = 0
    <2> DEFINE h == [i \in 0 .. 0 |-> a]
    <2>1. Part(h, 0, P, F, a, D)
      BY DEF Part
    <2> QED BY <1>1, <1>2, <2>1
  <1>3. CASE x # 0
    <2> DEFINE y == x - 1
    <2>1. y \in Nat /\ y \notin U /\ x \in Nat /\ x > 0 /\ x = y + 1
      BY <1>1, <1>3
    <2>2. PICK h : Part(h, y, P, F, a, D)
      BY <2>1
    <2> HIDE DEF y
    <2> DEFINE v == F[<<x, h[P[x]]>>]
               f == [i \in 0 .. x |-> IF i = x THEN v ELSE h[i]]
    <2>3. P[x] \in 0 .. y
      BY <2>1 DEF Descends
    <2>4. h \in [0 .. y -> D] /\ h[0] = a /\ \A i \in 1 .. y : h[i] = F[<<i, h[P[i]]>>]
      BY <2>2 DEF Part
    <2>5. v \in D
      BY <2>1, <2>3, <2>4
    <2> HIDE DEF v
    <2>6. /\ f \in [0 .. x -> D] /\ f[x] = v
          /\ \A i \in 0 .. y : f[i] = h[i]
      BY <2>1, <2>4, <2>5
    <2> HIDE DEF f
    <2>7. f[0] = a
      BY <2>1, <2>4, <2>6
    <2>8. ASSUME NEW i \in 1 .. x PROVE f[i] = F[<<i, f[P[i]]>>]
      <3>1. CASE i = x
        BY <2>3, <2>6, <3>1 DEF v
      <3>2. CASE i # x
        <4>1. i \in 1 .. y /\ i \in Nat /\ i > 0
          BY <2>1, <3>2
        <4>2. P[i] \in 0 .. y
          BY <2>1, <4>1 DEF Descends
        <4> QED BY <2>4, <2>6, <4>1, <4>2
      <3> QED BY <3>1, <3>2
    <2>9. Part(f, x, P, F, a, D)
      BY <2>6, <2>7, <2>8 DEF Part
    <2> QED BY <1>1, <2>9
  <1> QED BY <1>2, <1>3

LEMMA RecursionExists ==
    ASSUME NEW D, NEW a \in D, NEW P, NEW F \in [Nat \X D -> D], Descends(P)
    PROVE  \E g \in [Nat -> D] : Recurs(g, P, F, a)
  <1> DEFINE H(n) == CHOOSE h : Part(h, n, P, F, a, D)
             g == [n \in Nat |-> H(n)[n]]
  <1>1. ASSUME NEW n \in Nat PROVE Part(H(n), n, P, F, a, D)
    BY PartExists
  <1> HIDE DEF H
  <1>2. ASSUME NEW n \in Nat PROVE H(n)[n] \in D
    BY <1>1 DEF Part
  <1>3. g \in [Nat -> D]
    BY <1>2
  <1>4. H(0)[0] = a
    BY <1>1 DEF Part
  <1>5. ASSUME NEW i \in Nat, i > 0 PROVE H(i)[i] = F[<<i, H(P[i])[P[i]]>>]
    <2>1. P[i] \in Nat /\ P[i] <= i /\ i \in 1 .. i
      BY <1>5 DEF Descends
    <2>2. Part(H(i), i, P, F, a, D) /\ Part(H(P[i]), P[i], P, F, a, D)
      BY <1>1, <2>1
    <2>3. H(i)[i] = F[<<i, H(i)[P[i]]>>]
      BY <2>1, <2>2 DEF Part
    <2>4. \A j \in 0 .. P[i] : H(P[i])[j] = H(i)[j]
      BY <2>1, <2>2, PartsAgree
    <2>5. P[i] \in 0 .. P[i]
      BY <2>1
    <2> QED BY <2>3, <2>4, <2>5
  <1>6. ASSUME NEW i \in Nat, i > 0 PROVE P[i] \in Nat
    BY DEF Descends
  <1>7. Recurs(g, P, F, a)
    BY <1>4, <1>5, <1>6 DEF Recurs
  <1> QED BY <1>3, <1>7

----------------------------------------------------------------------------
(* The reference calculation, of a sequence of keys.                       *)

\* A key as the history keeps it.
KeyType == [k : {"digit", "="} \cup Operators, d : Nat]

\* IsDigit, of the keys ks.
DigitAt(ks, i) == i \in DOMAIN ks /\ ks[i].k = "digit"

\* g is Number, Start or Result of the keys ks; st and nm are the first two.
IsNumber(g, ks) ==
    g = [i \in Nat |-> IF DigitAt(ks, i) THEN g[i - 1] * BASE + ks[i].d ELSE 0]

IsStart(g, ks) == g = [i \in Nat |-> IF DigitAt(ks, i - 1) THEN g[i - 1] ELSE i]

ValueAt(g, ks, st, nm, i) ==
    IF i <= 1 THEN 0
    ELSE IF ~DigitAt(ks, i - 1) THEN g[i - 1]
    ELSE LET before == st[i - 1] - 1
         IN IF before = 0 \/ ks[before].k = "=" THEN nm[i - 1]
            ELSE Exact(g[before], ks[before].k, nm[i - 1])

IsResult(g, ks, st, nm) == g = [i \in Nat |-> ValueAt(g, ks, st, nm, i)]

\* Where Number and Start are computed from.
Last(i) == IF i = 0 THEN 0 ELSE i - 1

LEMMA LastDescends == Descends([i \in Nat |-> Last(i)])
  BY DEF Descends, Last

LEMMA DigitPosition ==
    ASSUME NEW ks \in Seq(KeyType), NEW i \in Int, DigitAt(ks, i)
    PROVE  i \in 1 .. Len(ks) /\ ks[i].d \in Nat /\ i \in Nat \ {0}
  <1>1. i \in 1 .. Len(ks)
    BY DEF DigitAt
  <1>2. ks[i] \in KeyType
    BY <1>1
  <1> QED BY <1>1, <1>2 DEF KeyType

LEMMA NumberExists ==
    ASSUME NEW ks \in Seq(KeyType)
    PROVE  \E g \in [Nat -> Nat] : IsNumber(g, ks)
  <1> DEFINE P == [i \in Nat |-> Last(i)]
             F == [q \in Nat \X Nat |-> IF DigitAt(ks, q[1]) THEN q[2] * BASE + ks[q[1]].d ELSE 0]
  <1>0. BASE \in Nat
    BY CalcAssumption
  <1>1. F \in [Nat \X Nat -> Nat]
    <2>1. ASSUME NEW i \in Nat, NEW v \in Nat, DigitAt(ks, i) PROVE v * BASE + ks[i].d \in Nat
      BY <1>0, <2>1, DigitPosition
    <2> QED BY <2>1
  <1>2. PICK g \in [Nat -> Nat] : Recurs(g, P, F, 0)
    <2>1. Descends(P)
      BY LastDescends
    <2> HIDE DEF F, P
    <2> QED BY <1>1, <2>1, RecursionExists
  <1>3. ASSUME NEW i \in Nat PROVE g[i] = IF DigitAt(ks, i) THEN g[i - 1] * BASE + ks[i].d ELSE 0
    <2>1. CASE i = 0
      <3>1. ~DigitAt(ks, 0)
        BY DigitPosition
      <3>2. g[0] = 0
        BY <1>2 DEF Recurs
      <3> QED BY <2>1, <3>1, <3>2
    <2>2. CASE i # 0
      <3>1. i > 0 /\ P[i] = i - 1 /\ i - 1 \in Nat
        BY <2>2 DEF Last
      <3>2. g[i] = F[<<i, g[i - 1]>>]
        BY <1>2, <3>1 DEF Recurs
      <3>3. g[i - 1] \in Nat
        BY <3>1
      <3> QED BY <3>1, <3>2, <3>3
    <2> QED BY <2>1, <2>2
  <1>4. g = [i \in Nat |-> g[i]]
    OBVIOUS
  <1>5. IsNumber(g, ks)
    BY <1>3, <1>4 DEF IsNumber
  <1> QED BY <1>5

LEMMA StartExists ==
    ASSUME NEW ks \in Seq(KeyType)
    PROVE  \E g \in [Nat -> Nat] : IsStart(g, ks)
  <1> DEFINE P == [i \in Nat |-> Last(i)]
             F == [q \in Nat \X Nat |-> IF DigitAt(ks, q[1] - 1) THEN q[2] ELSE q[1]]
  <1>1. F \in [Nat \X Nat -> Nat]
    OBVIOUS
  <1>2. PICK g \in [Nat -> Nat] : Recurs(g, P, F, 0)
    <2>1. Descends(P)
      BY LastDescends
    <2> HIDE DEF F, P
    <2> QED BY <1>1, <2>1, RecursionExists
  <1>3. ASSUME NEW i \in Nat PROVE g[i] = IF DigitAt(ks, i - 1) THEN g[i - 1] ELSE i
    <2>1. CASE i = 0
      <3>1. ~DigitAt(ks, 0 - 1)
        BY DigitPosition
      <3>2. g[0] = 0
        BY <1>2 DEF Recurs
      <3> QED BY <2>1, <3>1, <3>2
    <2>2. CASE i # 0
      <3>1. i > 0 /\ P[i] = i - 1 /\ i - 1 \in Nat
        BY <2>2 DEF Last
      <3>2. g[i] = F[<<i, g[i - 1]>>]
        BY <1>2, <3>1 DEF Recurs
      <3>3. g[i - 1] \in Nat
        BY <3>1
      <3> QED BY <3>1, <3>2, <3>3
    <2> QED BY <2>1, <2>2
  <1>4. g = [i \in Nat |-> g[i]]
    OBVIOUS
  <1>5. IsStart(g, ks)
    BY <1>3, <1>4 DEF IsStart
  <1> QED BY <1>5

\* A number starts at one of its digits.
LEMMA StartBefore ==
    ASSUME NEW ks \in Seq(KeyType), NEW st \in [Nat -> Nat], IsStart(st, ks)
    PROVE  \A i \in Nat : i > 0 => st[i] \in 1 .. i
  <1> DEFINE U == {i \in Nat : i > 0 /\ st[i] \notin 1 .. i}
  <1> SUFFICES ASSUME U # {} PROVE FALSE
    OBVIOUS
  <1>1. PICK x \in U : \A y \in U : x <= y
    <2>1. U \subseteq Nat
      OBVIOUS
    <2> HIDE DEF U
    <2> QED BY <2>1, LeastOf
  <1>2. st[x] = IF DigitAt(ks, x - 1) THEN st[x - 1] ELSE x
    BY <1>1 DEF IsStart
  <1>3. CASE DigitAt(ks, x - 1)
    <2>0. x \in Nat /\ x - 1 \in Int
      BY <1>1
    <2>1. x - 1 \in Nat /\ x - 1 > 0
      <3>1. x - 1 \in Nat \ {0}
        BY <1>3, <2>0, DigitPosition
      <3> QED BY <3>1
    <2>2. st[x - 1] \in 1 .. x - 1
      <3>1. x - 1 \notin U
        <4> HIDE DEF U
        <4> QED BY <1>1, <2>0
      <3> QED BY <2>1, <3>1
    <2> QED BY <1>1, <1>2, <1>3, <2>1, <2>2
  <1>4. CASE ~DigitAt(ks, x - 1)
    BY <1>1, <1>2, <1>4
  <1> QED BY <1>3, <1>4

LEMMA QuotientInt ==
    ASSUME NEW a \in Int, NEW b \in Int, b # 0
    PROVE  Quotient(a, b) \in Int
  <1> DEFINE x == IF a < 0 THEN -a ELSE a
             y == IF b < 0 THEN -b ELSE b
  <1>1. x \in Nat /\ y \in Nat \ {0}
    OBVIOUS
  <1>2. Quotient(a, b) = IF (a < 0) = (b < 0) THEN x \div y ELSE -(x \div y)
    BY DEF Quotient
  <1> HIDE DEF x, y
  <1>3. x \div y \in Int
    BY <1>1
  <1> QED BY <1>2, <1>3

LEMMA ExactInt ==
    ASSUME NEW a \in Int, NEW op, NEW b \in Int
    PROVE  Exact(a, op, b) \in Int
  <1>1. a + b \in Int /\ a - b \in Int /\ a * b \in Int
    OBVIOUS
  <1>2. b # 0 => Quotient(a, b) \in Int
    BY QuotientInt
  <1> QED BY <1>1, <1>2 DEF Exact

LEMMA ResultExists ==
    ASSUME NEW ks \in Seq(KeyType), NEW st \in [Nat -> Nat], IsStart(st, ks), NEW nm \in [Nat -> Nat]
    PROVE  \E g \in [Nat -> Int] : IsResult(g, ks, st, nm)
  <1> DEFINE p(i) == IF i <= 1 THEN 0 ELSE IF ~DigitAt(ks, i - 1) THEN i - 1 ELSE st[i - 1] - 1
             f(i, v) == IF i <= 1 THEN 0 ELSE IF ~DigitAt(ks, i - 1) THEN v
                        ELSE IF p(i) = 0 \/ ks[p(i)].k = "=" THEN nm[i - 1]
                        ELSE Exact(v, ks[p(i)].k, nm[i - 1])
             P == [i \in Nat |-> p(i)]
             F == [q \in Nat \X Int |-> f(q[1], q[2])]
  <1>1. ASSUME NEW i \in Nat PROVE p(i) \in Nat /\ (i > 0 => p(i) < i)
    <2>1. CASE i <= 1
      BY <2>1
    <2>2. CASE i > 1 /\ ~DigitAt(ks, i - 1)
      BY <2>2
    <2>3. CASE i > 1 /\ DigitAt(ks, i - 1)
      <3>1. i - 1 \in Nat /\ i - 1 > 0
        BY <2>3
      <3>2. st[i - 1] \in 1 .. i - 1
        BY <3>1, StartBefore
      <3>3. p(i) = st[i - 1] - 1
        BY <2>3
      <3>4. PICK s \in 1 .. i - 1 : st[i - 1] = s
        BY <3>2
      <3>5. s - 1 \in Nat /\ s - 1 < i
        OBVIOUS
      <3> HIDE DEF p
      <3> QED BY <3>3, <3>4, <3>5
    <2>4. i <= 1 \/ (i > 1 /\ ~DigitAt(ks, i - 1)) \/ (i > 1 /\ DigitAt(ks, i - 1))
      OBVIOUS
    <2> HIDE DEF p
    <2> QED BY <2>1, <2>2, <2>3, <2>4
  <1>2. ASSUME NEW i \in Nat, NEW v \in Int PROVE f(i, v) \in Int
    <2> HIDE DEF p
    <2>1. i > 1 => nm[i - 1] \in Int
      OBVIOUS
    <2>2. i > 1 => Exact(v, ks[p(i)].k, nm[i - 1]) \in Int
      BY <2>1, ExactInt
    <2> QED BY <2>1, <2>2
  <1>3. Descends(P)
    <2> HIDE DEF p
    <2> QED BY <1>1 DEF Descends
  <1>4. F \in [Nat \X Int -> Int]
    <2> HIDE DEF f
    <2> QED BY <1>2
  <1>5. PICK g \in [Nat -> Int] : Recurs(g, P, F, 0)
    <2>1. 0 \in Int
      OBVIOUS
    <2> HIDE DEF F, P
    <2> QED BY <1>3, <1>4, <2>1, RecursionExists
  <1>6. ASSUME NEW i \in Nat PROVE g[i] = ValueAt(g, ks, st, nm, i)
    <2>1. CASE i = 0
      <3>1. g[0] = 0
        BY <1>5 DEF Recurs
      <3> QED BY <2>1, <3>1 DEF ValueAt
    <2>2. CASE i # 0
      <3>1. i > 0 /\ P[i] = p(i) /\ p(i) \in Nat
        <4>1. p(i) \in Nat
          BY <1>1
        <4> HIDE DEF p
        <4> QED BY <2>2, <4>1
      <3>2. g[i] = F[<<i, g[p(i)]>>] /\ g[p(i)] \in Int
        BY <1>5, <3>1 DEF Recurs
      <3>3. g[i] = f(i, g[p(i)])
        <4> HIDE DEF f, p
        <4> QED BY <3>2
      <3> QED BY <3>3 DEF ValueAt
    <2> QED BY <2>1, <2>2
  <1>7. g = [i \in Nat |-> g[i]]
    OBVIOUS
  <1>8. IsResult(g, ks, st, nm)
    BY <1>6, <1>7 DEF IsResult
  <1> QED BY <1>8

\* The keys ks and ls are the same up to n.
SameTo(ks, ls, n) ==
    /\ \A i \in Int : i <= n => (DigitAt(ks, i) <=> DigitAt(ls, i))
    /\ \A i \in 1 .. n : ks[i] = ls[i]

\* So are the functions g and h.
Agree(g, h, n) == \A i \in 0 .. n : g[i] = h[i]

\* What the three functions are at i.
LEMMA NumberAt ==
    ASSUME NEW g, NEW ks, IsNumber(g, ks), NEW i \in Nat
    PROVE  g[i] = IF DigitAt(ks, i) THEN g[i - 1] * BASE + ks[i].d ELSE 0
  BY DEF IsNumber

LEMMA StartAt ==
    ASSUME NEW g, NEW ks, IsStart(g, ks), NEW i \in Nat
    PROVE  g[i] = IF DigitAt(ks, i - 1) THEN g[i - 1] ELSE i
  BY DEF IsStart

LEMMA ResultAt ==
    ASSUME NEW g, NEW ks, NEW st, NEW nm, IsResult(g, ks, st, nm), NEW i \in Nat
    PROVE  g[i] = ValueAt(g, ks, st, nm, i)
  BY DEF IsResult

LEMMA NumberAgrees ==
    ASSUME NEW ks \in Seq(KeyType), NEW ls \in Seq(KeyType), NEW n \in Nat, SameTo(ks, ls, n),
           NEW g, NEW h, IsNumber(g, ks), IsNumber(h, ls)
    PROVE  Agree(g, h, n)
  <1>1. ASSUME NEW i \in 0 .. n, \A p \in 0 .. i - 1 : g[p] = h[p] PROVE g[i] = h[i]
    <2>1. /\ g[i] = IF DigitAt(ks, i) THEN g[i - 1] * BASE + ks[i].d ELSE 0
          /\ h[i] = IF DigitAt(ls, i) THEN h[i - 1] * BASE + ls[i].d ELSE 0
      BY NumberAt
    <2>2. DigitAt(ks, i) <=> DigitAt(ls, i)
      BY DEF SameTo
    <2>3. ASSUME DigitAt(ks, i) PROVE g[i - 1] = h[i - 1] /\ ks[i] = ls[i]
      <3>1. i \in Nat \ {0}
        BY <2>3, DigitPosition
      <3>2. i - 1 \in 0 .. i - 1 /\ i \in 1 .. n
        BY <3>1
      <3> QED BY <1>1, <3>2 DEF SameTo
    <2> QED BY <2>1, <2>2, <2>3
  <1>2. Alike(g, h, n)
    BY <1>1 DEF Alike
  <1> QED BY <1>2, AlikeAgree DEF Agree

LEMMA StartAgrees ==
    ASSUME NEW ks \in Seq(KeyType), NEW ls \in Seq(KeyType), NEW n \in Nat, SameTo(ks, ls, n),
           NEW g, NEW h, IsStart(g, ks), IsStart(h, ls)
    PROVE  Agree(g, h, n + 1)
  <1>1. ASSUME NEW i \in 0 .. n + 1, \A p \in 0 .. i - 1 : g[p] = h[p] PROVE g[i] = h[i]
    <2>1. /\ g[i] = IF DigitAt(ks, i - 1) THEN g[i - 1] ELSE i
          /\ h[i] = IF DigitAt(ls, i - 1) THEN h[i - 1] ELSE i
      BY StartAt
    <2>2. DigitAt(ks, i - 1) <=> DigitAt(ls, i - 1)
      <3>1. i - 1 \in Int /\ i - 1 <= n
        OBVIOUS
      <3> QED BY <3>1 DEF SameTo
    <2>3. ASSUME DigitAt(ks, i - 1) PROVE g[i - 1] = h[i - 1]
      <3>1. i - 1 \in Nat \ {0}
        BY <2>3, DigitPosition
      <3>2. i - 1 \in 0 .. i - 1
        BY <3>1
      <3> QED BY <1>1, <3>2
    <2> QED BY <2>1, <2>2, <2>3
  <1>2. Alike(g, h, n + 1)
    BY <1>1 DEF Alike
  <1>3. n + 1 \in Nat
    OBVIOUS
  <1> QED BY <1>2, <1>3, AlikeAgree DEF Agree

\* nm is Number of ks, st its Start and rs its Result.
Reference(ks, nm, st, rs) ==
    /\ nm \in [Nat -> Nat] /\ IsNumber(nm, ks)
    /\ st \in [Nat -> Nat] /\ IsStart(st, ks)
    /\ rs \in [Nat -> Int] /\ IsResult(rs, ks, st, nm)

LEMMA ResultAgrees ==
    ASSUME NEW ks \in Seq(KeyType), NEW ls \in Seq(KeyType), NEW n \in Nat, SameTo(ks, ls, n),
           NEW nm, NEW st \in [Nat -> Nat], NEW g, IsStart(st, ks), IsResult(g, ks, st, nm),
           NEW nn, NEW ss, NEW h, IsResult(h, ls, ss, nn),
           Agree(nm, nn, n), Agree(st, ss, n)
    PROVE  Agree(g, h, n + 1)
  <1>1. ASSUME NEW i \in 0 .. n + 1, \A p \in 0 .. i - 1 : g[p] = h[p] PROVE g[i] = h[i]
    <2>0. i \in Nat
      OBVIOUS
    <2>a. g[i] = ValueAt(g, ks, st, nm, i)
      BY <2>0, ResultAt
    <2>b. h[i] = ValueAt(h, ls, ss, nn, i)
      BY <2>0, ResultAt
    <2>1. g[i] = ValueAt(g, ks, st, nm, i) /\ h[i] = ValueAt(h, ls, ss, nn, i)
      BY <2>a, <2>b
    <2>2. CASE i <= 1
      BY <2>1, <2>2 DEF ValueAt
    <2>3. CASE i > 1
      <3>1. i - 1 \in 0 .. n /\ i - 1 \in 0 .. i - 1 /\ i - 1 \in Int /\ i - 1 <= n /\ ~(i <= 1)
            /\ i - 1 \in Nat /\ i - 1 > 0
        BY <2>3
      <3>2. DigitAt(ks, i - 1) <=> DigitAt(ls, i - 1)
        BY <3>1 DEF SameTo
      <3>3. g[i - 1] = h[i - 1] /\ nm[i - 1] = nn[i - 1] /\ st[i - 1] = ss[i - 1]
        BY <1>1, <3>1 DEF Agree
      <3>4. CASE ~DigitAt(ks, i - 1)
        BY <2>1, <3>1, <3>2, <3>3, <3>4 DEF ValueAt
      <3>5. CASE DigitAt(ks, i - 1)
        <4>1. st[i - 1] \in 1 .. i - 1
          BY <3>1, StartBefore
        <4>2. PICK s \in 1 .. i - 1 : st[i - 1] = s
          BY <4>1
        <4> DEFINE b == s - 1
        <4>3. b \in 0 .. i - 1 /\ (b # 0 => b \in 1 .. n)
          OBVIOUS
        <4>4. g[b] = h[b] /\ (b # 0 => ks[b] = ls[b])
          BY <1>1, <4>3 DEF SameTo
        <4>5. st[i - 1] - 1 = b /\ ss[i - 1] - 1 = b
          BY <3>3, <4>2
        <4> HIDE DEF b
        <4>6. g[i] = IF b = 0 \/ ks[b].k = "=" THEN nm[i - 1] ELSE Exact(g[b], ks[b].k, nm[i - 1])
          BY <2>1, <3>1, <3>5, <4>5 DEF ValueAt
        <4>7. h[i] = IF b = 0 \/ ls[b].k = "=" THEN nn[i - 1] ELSE Exact(h[b], ls[b].k, nn[i - 1])
          BY <2>1, <3>1, <3>2, <3>5, <4>5 DEF ValueAt
        <4> QED BY <3>3, <4>4, <4>6, <4>7
      <3> QED BY <3>4, <3>5
    <2> QED BY <2>2, <2>3
  <1>2. Alike(g, h, n + 1)
    BY <1>1 DEF Alike
  <1>3. n + 1 \in Nat
    OBVIOUS
  <1> QED BY <1>2, <1>3, AlikeAgree DEF Agree

LEMMA SameSelf == ASSUME NEW ks, NEW n PROVE SameTo(ks, ks, n)
  BY DEF SameTo

LEMMA NumberChosen ==
    ASSUME NEW ks \in Seq(KeyType)
    PROVE  LET g == CHOOSE g : IsNumber(g, ks) IN g \in [Nat -> Nat] /\ IsNumber(g, ks)
  <1> DEFINE g == CHOOSE g : IsNumber(g, ks)
  <1>1. PICK h \in [Nat -> Nat] : IsNumber(h, ks)
    BY NumberExists
  <1>2. IsNumber(g, ks)
    BY <1>1
  <1> HIDE DEF g
  <1>3. ASSUME NEW i \in Nat PROVE g[i] = h[i]
    <2>1. SameTo(ks, ks, i)
      BY SameSelf
    <2>2. Agree(g, h, i)
      BY <1>1, <1>2, <2>1, NumberAgrees
    <2> QED BY <2>2 DEF Agree
  <1>4. g = [i \in Nat |-> g[i]]
    BY <1>2 DEF IsNumber
  <1>5. h = [i \in Nat |-> h[i]]
    OBVIOUS
  <1>6. g = h
    BY <1>3, <1>4, <1>5
  <1>7. g \in [Nat -> Nat] /\ IsNumber(g, ks)
    BY <1>2, <1>6
  <1> QED BY <1>7 DEF g

LEMMA StartChosen ==
    ASSUME NEW ks \in Seq(KeyType)
    PROVE  LET g == CHOOSE g : IsStart(g, ks) IN g \in [Nat -> Nat] /\ IsStart(g, ks)
  <1> DEFINE g == CHOOSE g : IsStart(g, ks)
  <1>1. PICK h \in [Nat -> Nat] : IsStart(h, ks)
    BY StartExists
  <1>2. IsStart(g, ks)
    BY <1>1
  <1> HIDE DEF g
  <1>3. ASSUME NEW i \in Nat PROVE g[i] = h[i]
    <2>1. SameTo(ks, ks, i)
      BY SameSelf
    <2>2. Agree(g, h, i + 1)
      BY <1>1, <1>2, <2>1, StartAgrees
    <2> QED BY <2>2 DEF Agree
  <1>4. g = [i \in Nat |-> g[i]]
    BY <1>2 DEF IsStart
  <1>5. h = [i \in Nat |-> h[i]]
    OBVIOUS
  <1>6. g = h
    BY <1>3, <1>4, <1>5
  <1>7. g \in [Nat -> Nat] /\ IsStart(g, ks)
    BY <1>2, <1>6
  <1> QED BY <1>7 DEF g

LEMMA ResultChosen ==
    ASSUME NEW ks \in Seq(KeyType), NEW st \in [Nat -> Nat], IsStart(st, ks), NEW nm \in [Nat -> Nat]
    PROVE  LET g == CHOOSE g : IsResult(g, ks, st, nm) IN g \in [Nat -> Int] /\ IsResult(g, ks, st, nm)
  <1> DEFINE g == CHOOSE g : IsResult(g, ks, st, nm)
  <1>1. PICK h \in [Nat -> Int] : IsResult(h, ks, st, nm)
    BY ResultExists
  <1>2. IsResult(g, ks, st, nm)
    BY <1>1
  <1> HIDE DEF g
  <1>3. ASSUME NEW i \in Nat PROVE g[i] = h[i]
    <2>0. Agree(nm, nm, i) /\ Agree(st, st, i)
      BY DEF Agree
    <2>1. SameTo(ks, ks, i)
      BY SameSelf
    <2>2. Agree(g, h, i + 1)
      BY <1>1, <1>2, <2>0, <2>1, ResultAgrees
    <2> QED BY <2>2 DEF Agree
  <1>4. g = [i \in Nat |-> g[i]]
    BY <1>2 DEF IsResult
  <1>5. h = [i \in Nat |-> h[i]]
    OBVIOUS
  <1>6. g = h
    BY <1>3, <1>4, <1>5
  <1>7. g \in [Nat -> Int] /\ IsResult(g, ks, st, nm)
    BY <1>2, <1>6
  <1> QED BY <1>7 DEF g

LEMMA ReferenceNow ==
    ASSUME keys \in Seq(KeyType)
    PROVE  Reference(keys, Number, Start, Result)
  <1>1. Number = CHOOSE g : IsNumber(g, keys)
    BY DEF Number, IsNumber, DigitAt, IsDigit
  <1>2. Start = CHOOSE g : IsStart(g, keys)
    BY DEF Start, IsStart, DigitAt, IsDigit
  <1>3. Result = CHOOSE g : IsResult(g, keys, Start, Number)
    BY DEF Result, IsResult, ValueAt, DigitAt, IsDigit
  <1>4. Number \in [Nat -> Nat] /\ IsNumber(Number, keys)
    BY <1>1, NumberChosen
  <1>5. Start \in [Nat -> Nat] /\ IsStart(Start, keys)
    BY <1>2, StartChosen
  <1>6. Result \in [Nat -> Int] /\ IsResult(Result, keys, Start, Number)
    BY <1>3, <1>4, <1>5, ResultChosen
  <1> QED BY <1>4, <1>5, <1>6 DEF Reference

LEMMA ReferenceNext ==
    ASSUME keys' \in Seq(KeyType)
    PROVE  Reference(keys', Number', Start', Result')
  <1>1. Number' = CHOOSE g : IsNumber(g, keys')
    BY DEF Number, IsNumber, DigitAt, IsDigit
  <1>2. Start' = CHOOSE g : IsStart(g, keys')
    BY DEF Start, IsStart, DigitAt, IsDigit
  <1>3. Result' = CHOOSE g : IsResult(g, keys', Start', Number')
    BY DEF Result, IsResult, ValueAt, DigitAt, IsDigit
  <1>4. Number' \in [Nat -> Nat] /\ IsNumber(Number', keys')
    BY <1>1, NumberChosen
  <1>5. Start' \in [Nat -> Nat] /\ IsStart(Start', keys')
    BY <1>2, StartChosen
  <1>6. Result' \in [Nat -> Int] /\ IsResult(Result', keys', Start', Number')
    BY <1>3, <1>4, <1>5, ResultChosen
  <1> QED BY <1>4, <1>5, <1>6 DEF Reference

----------------------------------------------------------------------------
(* The calculator follows the reference.                                   *)

CalcType ==
    [acc : Int, cur : Int, op : {"none"} \cup Operators, fresh : BOOLEAN, disp : Int]

\* The display that CalcIsReference asks for.
Shown(ks, nm, rs) ==
    LET n == Len(ks) IN IF n = 0 THEN 0 ELSE IF DigitAt(ks, n) THEN nm[n] ELSE rs[n]

\* The last key that is no digit, or 0.
Before(ks, st) == LET n == Len(ks) IN IF DigitAt(ks, n) THEN st[n] - 1 ELSE n

\* The next operator or `=' evaluates what has been typed.
Complete(ks) == Len(ks) = 0 \/ DigitAt(ks, Len(ks)) \/ ks[Len(ks)].k = "="

\* The operator waiting at b and its left operand.
Operand(c, ks, b, rs) ==
    IF b = 0 \/ ks[b].k = "=" THEN c.op = "none" ELSE c.op = ks[b].k /\ c.acc = rs[b]

\* The fields c after the keys ks.
Follows(c, ks, nm, st, rs) ==
    /\ c.fresh = ~DigitAt(ks, Len(ks))
    /\ c.disp = Shown(ks, nm, rs)
    /\ Complete(ks) => c.cur = c.disp
    /\ Operand(c, ks, Before(ks, st), rs)

CalcInv ==
    /\ keys \in Seq(KeyType) /\ calc \in CalcType /\ over \in BOOLEAN /\ trap \in BOOLEAN
    /\ WellFormed /\ ~over => ~trap /\ Follows(calc, keys, Number, Start, Result)

LEMMA BeforeIn ==
    ASSUME NEW ks \in Seq(KeyType), NEW st \in [Nat -> Nat], IsStart(st, ks)
    PROVE  Before(ks, st) \in 0 .. Len(ks)
  <1>0. Len(ks) \in Nat
    OBVIOUS
  <1>1. CASE DigitAt(ks, Len(ks))
    <2>1. Len(ks) > 0
      BY <1>0, <1>1, DigitPosition
    <2>2. PICK s \in 1 .. Len(ks) : st[Len(ks)] = s
      BY <1>0, <2>1, StartBefore
    <2>3. s - 1 \in 0 .. Len(ks)
      BY <1>0
    <2> QED BY <1>1, <2>2, <2>3 DEF Before
  <1>2. CASE ~DigitAt(ks, Len(ks))
    BY <1>0, <1>2 DEF Before
  <1> QED BY <1>1, <1>2

LEMMA KeyAppended ==
    ASSUME NEW ks \in Seq(KeyType), NEW e \in KeyType
    PROVE  /\ Append(ks, e) \in Seq(KeyType) /\ Len(Append(ks, e)) = Len(ks) + 1
           /\ Append(ks, e)[Len(ks) + 1] = e
           /\ DigitAt(Append(ks, e), Len(ks) + 1) <=> e.k = "digit"
           /\ SameTo(ks, Append(ks, e), Len(ks))
  <1> DEFINE ls == Append(ks, e)
             n == Len(ks)
  <1>1. ls \in Seq(KeyType) /\ Len(ls) = n + 1 /\ n \in Nat /\ n + 1 \in 1 .. n + 1
    OBVIOUS
  <1>2. ls[n + 1] = e
    OBVIOUS
  <1>3. \A i \in 1 .. n : ls[i] = ks[i]
    OBVIOUS
  <1>4. DOMAIN ks = 1 .. n /\ DOMAIN ls = 1 .. n + 1
    BY <1>1
  <1> HIDE DEF ls
  <1>5. DigitAt(ls, n + 1) <=> e.k = "digit"
    BY <1>1, <1>2, <1>4 DEF DigitAt
  <1>6. ASSUME NEW i \in Int, i <= n PROVE DigitAt(ks, i) <=> DigitAt(ls, i)
    <2>1. i \in 1 .. n <=> i \in 1 .. n + 1
      BY <1>1, <1>6
    <2> QED BY <1>3, <1>4, <2>1 DEF DigitAt
  <1>7. SameTo(ks, ls, n)
    BY <1>3, <1>6 DEF SameTo
  <1> QED BY <1>1, <1>2, <1>5, <1>7 DEF ls

\* What is known of the reference when a key is added.
LEMMA ReferenceGrows ==
    ASSUME NEW ks \in Seq(KeyType), NEW e \in KeyType,
           NEW nm, NEW st, NEW rs, Reference(ks, nm, st, rs),
           NEW nn, NEW ss, NEW rr, Reference(Append(ks, e), nn, ss, rr)
    PROVE  /\ Agree(nm, nn, Len(ks)) /\ Agree(st, ss, Len(ks) + 1) /\ Agree(rs, rr, Len(ks) + 1)
  <1> DEFINE ls == Append(ks, e)
             n == Len(ks)
  <1>0. n \in Nat /\ ls \in Seq(KeyType) /\ SameTo(ks, ls, n)
    BY KeyAppended
  <1>1. /\ IsNumber(nm, ks) /\ st \in [Nat -> Nat] /\ IsStart(st, ks) /\ IsResult(rs, ks, st, nm)
        /\ IsNumber(nn, ls) /\ IsStart(ss, ls) /\ IsResult(rr, ls, ss, nn)
    BY DEF Reference
  <1> HIDE DEF ls, n
  <1>2. Agree(nm, nn, n)
    BY <1>0, <1>1, NumberAgrees
  <1>3. Agree(st, ss, n + 1)
    BY <1>0, <1>1, StartAgrees
  <1>4. Agree(st, ss, n)
    BY <1>0, <1>3 DEF Agree
  <1>5. Agree(rs, rr, n + 1)
    BY <1>0, <1>1, <1>2, <1>4, ResultAgrees
  <1> QED BY <1>2, <1>3, <1>5 DEF n

LEMMA PendingValue ==
    ASSUME NEW ks \in Seq(KeyType), NEW nm, NEW st, NEW rs, Reference(ks, nm, st, rs),
           NEW c \in CalcType, Follows(c, ks, nm, st, rs), Complete(ks)
    PROVE  (IF c.op = "none" THEN c.cur ELSE Exact(c.acc, c.op, c.cur)) = rs[Len(ks) + 1]
  <1> DEFINE n == Len(ks)
             b == Before(ks, st)
  <1>0. n \in Nat
    OBVIOUS
  <1>1. /\ c.disp = Shown(ks, nm, rs) /\ c.cur = c.disp /\ Operand(c, ks, b, rs)
        /\ st \in [Nat -> Nat] /\ IsStart(st, ks)
    BY DEF Follows, Reference
  <1>2. rs[n + 1] = ValueAt(rs, ks, st, nm, n + 1)
    <2>1. n + 1 \in Nat
      BY <1>0
    <2> QED BY <2>1, ResultAt DEF Reference
  <1>3. n + 1 - 1 = n /\ (n + 1 <= 1 <=> n = 0)
    BY <1>0
  <1>4. b \in 0 .. n
    BY <1>1, BeforeIn
  <1>5. CASE n = 0
    <2>1. ~DigitAt(ks, 0)
      BY DigitPosition
    <2>2. b = 0 /\ c.disp = 0
      BY <1>1, <1>5, <2>1 DEF Before, Shown
    <2>3. c.op = "none"
      BY <1>1, <2>2 DEF Operand
    <2>4. rs[n + 1] = 0
      BY <1>2, <1>3, <1>5 DEF ValueAt
    <2> QED BY <1>1, <2>2, <2>3, <2>4
  <1>6. CASE n # 0 /\ ~DigitAt(ks, n)
    <2>1. ks[n].k = "="
      BY <1>6 DEF Complete
    <2>2. b = n /\ c.disp = rs[n]
      BY <1>1, <1>6 DEF Before, Shown
    <2>3. c.op = "none"
      BY <1>1, <2>1, <2>2 DEF Operand
    <2>4. rs[n + 1] = rs[n]
      BY <1>2, <1>3, <1>6 DEF ValueAt
    <2> QED BY <1>1, <2>2, <2>3, <2>4
  <1>7. CASE n # 0 /\ DigitAt(ks, n)
    <2>1. c.cur = nm[n] /\ b = st[n] - 1
      BY <1>1, <1>7 DEF Before, Shown
    <2> HIDE DEF b
    <2>2. rs[n + 1] = IF b = 0 \/ ks[b].k = "=" THEN nm[n] ELSE Exact(rs[b], ks[b].k, nm[n])
      BY <1>2, <1>3, <1>7, <2>1 DEF ValueAt
    <2>3. CASE b = 0 \/ ks[b].k = "="
      BY <1>1, <2>1, <2>2, <2>3 DEF Operand
    <2>4. CASE ~(b = 0 \/ ks[b].k = "=")
      <3>1. c.op = ks[b].k /\ c.acc = rs[b]
        BY <1>1, <2>4 DEF Operand
      <3>2. b \in 1 .. n
        BY <1>4, <2>4
      <3>3. ks[b] \in KeyType
        BY <3>2
      <3>4. ks[b].k # "none"
        BY <3>3, CalcAssumption DEF KeyType
      <3> QED BY <2>1, <2>2, <2>4, <3>1, <3>4
    <2> QED BY <2>3, <2>4
  <1> QED BY <1>5, <1>6, <1>7

LEMMA DigitFollows ==
    ASSUME NEW ks \in Seq(KeyType), NEW nm, NEW st, NEW rs, Reference(ks, nm, st, rs),
           NEW c, Follows(c, ks, nm, st, rs),
           NEW e \in KeyType, e.k = "digit",
           NEW nn, NEW ss, NEW rr, Reference(Append(ks, e), nn, ss, rr),
           NEW c2, c2.fresh = FALSE, c2.op = c.op, c2.acc = c.acc, c2.cur = c2.disp,
           c2.disp = (IF c.fresh THEN 0 ELSE c.cur) * BASE + e.d
    PROVE  Follows(c2, Append(ks, e), nn, ss, rr)
  <1> DEFINE ls == Append(ks, e)
             n == Len(ks)
             b == Before(ks, st)
  <1>0. /\ n \in Nat /\ ls \in Seq(KeyType) /\ SameTo(ks, ls, n)
        /\ Len(ls) = n + 1 /\ ls[n + 1] = e /\ DigitAt(ls, n + 1)
    BY KeyAppended
  <1>1. Agree(nm, nn, n) /\ Agree(st, ss, n + 1) /\ Agree(rs, rr, n + 1)
    BY ReferenceGrows
  <1>2. /\ IsNumber(nm, ks) /\ st \in [Nat -> Nat] /\ IsStart(st, ks)
        /\ IsNumber(nn, ls) /\ IsStart(ss, ls)
    BY DEF Reference
  <1>3. b \in 0 .. n
    BY <1>2, BeforeIn
  <1> HIDE DEF ls
  <1>4. n + 1 \in Nat /\ n + 1 - 1 = n /\ n \in 0 .. n /\ n + 1 # 0
    BY <1>0
  <1>5. DigitAt(ls, n) <=> DigitAt(ks, n)
    BY <1>0, <1>4 DEF SameTo
  <1>6. nn[n + 1] = nm[n] * BASE + e.d
    <2>0. nn[n + 1] = IF DigitAt(ls, n + 1) THEN nn[n + 1 - 1] * BASE + ls[n + 1].d ELSE 0
      BY <1>2, <1>4, NumberAt
    <2>1. nn[n + 1] = nn[n + 1 - 1] * BASE + ls[n + 1].d
      BY <1>0, <2>0
    <2>2. nn[n] = nm[n]
      BY <1>1, <1>4 DEF Agree
    <2> QED BY <1>0, <1>4, <2>1, <2>2
  <1>7. c2.disp = nn[n + 1]
    <2>0. c.fresh = ~DigitAt(ks, n)
      BY DEF Follows
    <2>1. CASE DigitAt(ks, n)
      <3>1. n # 0
        BY <1>0, <2>1, DigitPosition
      <3>2. c.cur = nm[n]
        BY <2>1, <3>1 DEF Follows, Complete, Shown
      <3> QED BY <1>6, <2>0, <2>1, <3>2
    <2>2. CASE ~DigitAt(ks, n)
      <3>1. nm[n] = 0
        BY <1>0, <1>2, <2>2, NumberAt
      <3> QED BY <1>6, <2>0, <2>2, <3>1
    <2> QED BY <2>1, <2>2
  <1>8. ss[n + 1] = IF DigitAt(ks, n) THEN st[n] ELSE n + 1
    <2>1. ss[n + 1] = IF DigitAt(ls, n + 1 - 1) THEN ss[n + 1 - 1] ELSE n + 1
      BY <1>2, <1>4, StartAt
    <2>2. ss[n] = st[n]
      <3>1. n \in 0 .. n + 1
        BY <1>0
      <3> QED BY <1>1, <3>1 DEF Agree
    <2> QED BY <1>4, <1>5, <2>1, <2>2
  <1>9. Before(ls, ss) = b
    <2>1. Before(ls, ss) = ss[n + 1] - 1
      BY <1>0 DEF Before
    <2>2. CASE DigitAt(ks, n)
      BY <1>8, <2>1, <2>2 DEF Before
    <2>3. CASE ~DigitAt(ks, n)
      BY <1>4, <1>8, <2>1, <2>3 DEF Before
    <2> QED BY <2>2, <2>3
  <1>10. Operand(c2, ls, b, rr)
    <2>1. Operand(c, ks, b, rs)
      BY DEF Follows
    <2> HIDE DEF b
    <2>2. b # 0 => ks[b] = ls[b]
      <3>1. b # 0 => b \in 1 .. n
        BY <1>3
      <3> QED BY <1>0, <3>1 DEF SameTo
    <2>3. rs[b] = rr[b]
      <3>1. b \in 0 .. n + 1
        BY <1>0, <1>3
      <3> QED BY <1>1, <3>1 DEF Agree
    <2> QED BY <2>1, <2>2, <2>3 DEF Operand
  <1>11. c2.disp = Shown(ls, nn, rr)
    BY <1>0, <1>4, <1>7 DEF Shown
  <1>12. Follows(c2, ls, nn, ss, rr)
    BY <1>0, <1>9, <1>10, <1>11 DEF Follows
  <1> QED BY <1>12 DEF ls

LEMMA EvaluatedFollows ==
    ASSUME NEW ks \in Seq(KeyType), NEW nm, NEW st, NEW rs, Reference(ks, nm, st, rs),
           NEW e \in KeyType, e.k # "digit",
           NEW nn, NEW ss, NEW rr, Reference(Append(ks, e), nn, ss, rr),
           NEW c2, c2.fresh = TRUE, c2.disp = rs[Len(ks) + 1],
           IF e.k = "=" THEN c2.op = "none" /\ c2.cur = c2.disp
           ELSE c2.op = e.k /\ c2.acc = c2.disp
    PROVE  Follows(c2, Append(ks, e), nn, ss, rr)
  <1> DEFINE ls == Append(ks, e)
             n == Len(ks)
  <1>0. /\ n \in Nat /\ Len(ls) = n + 1 /\ ls[n + 1] = e /\ ~DigitAt(ls, n + 1)
    BY KeyAppended
  <1>1. Agree(rs, rr, n + 1)
    BY ReferenceGrows
  <1> HIDE DEF ls
  <1>2. n + 1 # 0 /\ n + 1 \in 0 .. n + 1
    BY <1>0
  <1>3. rr[n + 1] = rs[n + 1]
    BY <1>1, <1>2 DEF Agree
  <1>4. c2.disp = Shown(ls, nn, rr) /\ c2.disp = rr[n + 1]
    BY <1>0, <1>2, <1>3 DEF Shown
  <1>5. Before(ls, ss) = n + 1
    BY <1>0 DEF Before
  <1>6. Complete(ls) <=> e.k = "="
    BY <1>0, <1>2 DEF Complete
  <1>7. Operand(c2, ls, n + 1, rr)
    BY <1>0, <1>2, <1>4 DEF Operand
  <1>8. Follows(c2, ls, nn, ss, rr)
    BY <1>0, <1>4, <1>5, <1>6, <1>7 DEF Follows
  <1> QED BY <1>8 DEF ls

LEMMA CalcRead == CalcInv => CalcIsReference
  <1> SUFFICES ASSUME CalcInv, WellFormed, ~over
               PROVE  ~trap /\ calc.disp = LET n == Len(keys) IN IF n = 0 THEN 0
                                           ELSE IF IsDigit(n) THEN Number[n] ELSE Result[n]
    BY DEF CalcIsReference
  <1>1. ~trap /\ calc.disp = Shown(keys, Number, Result)
    BY DEF CalcInv, Follows
  <1> QED BY <1>1 DEF Shown, DigitAt, IsDigit

LEMMA ClearedFollows ==
    ASSUME NEW nm, NEW st, NEW rs
    PROVE  Follows(Cleared, <<>>, nm, st, rs) /\ Cleared \in CalcType
  <1>1. Len(<<>>) = 0 /\ ~DigitAt(<<>>, 0)
    BY DEF DigitAt
  <1>2. Before(<<>>, st) = 0 /\ Shown(<<>>, nm, rs) = 0
    BY <1>1 DEF Before, Shown
  <1>3. /\ Cleared.fresh = TRUE /\ Cleared.disp = 0 /\ Cleared.cur = 0 /\ Cleared.op = "none"
        /\ Cleared \in CalcType
    BY DEF Cleared, CalcType
  <1> QED BY <1>1, <1>2, <1>3 DEF Follows, Operand

LEMMA ClearedInv ==
    ASSUME calc' = Cleared, keys' = <<>>, over' = FALSE, trap' = FALSE
    PROVE  CalcInv'
  <1>1. <<>> \in Seq(KeyType) /\ FALSE \in BOOLEAN
    OBVIOUS
  <1> QED BY <1>1, ClearedFollows DEF CalcInv

LEMMA WrapIn == ASSUME NEW n \in Int PROVE Wrap(n) \in Int /\ Wrap(n) <= MAX
  <1>0. MAX \in Nat /\ MIN = -MAX - 1
    BY CalcAssumption DEF MIN
  <1> DEFINE m == 2 * MAX + 2
             x == n - MIN
             r == x % m
  <1>1. m \in Nat \ {0} /\ x \in Int
    BY <1>0
  <1>2. r \in 0 .. m - 1
    <2> HIDE DEF m, x
    <2> QED BY <1>1
  <1>3. Wrap(n) = r + MIN
    BY DEF Wrap
  <1> HIDE DEF r, x
  <1> QED BY <1>0, <1>2, <1>3

\* MIN / -1 overflows.
LEMMA TrapOverflows ==
    ASSUME NEW b \in Int, b + 1 = 0
    PROVE  Exact(MIN, "/", b) # Wrap(Exact(MIN, "/", b))
  <1>0. MAX \in Nat /\ MIN = -MAX - 1
    BY CalcAssumption DEF MIN
  <1>1. Quotient(MIN, b) = MAX + 1
    <2>1. MIN < 0 /\ -MIN = MAX + 1
      BY <1>0
    <2>2. (MAX + 1) \div 1 = MAX + 1
      BY <1>0
    <2>3. b < 0 /\ -b = 1
      OBVIOUS
    <2> QED BY <2>1, <2>2, <2>3 DEF Quotient
  <1>2. Exact(MIN, "/", b) = MAX + 1
    BY <1>1 DEF Exact
  <1>3. Wrap(MAX + 1) <= MAX /\ Wrap(MAX + 1) \in Int
    BY <1>0, WrapIn
  <1> QED BY <1>0, <1>2, <1>3

LEMMA CalcChanges ==
    ASSUME NEW c \in CalcType
    PROVE  /\ \A a \in Int : [c EXCEPT !.acc = a] \in CalcType
           /\ \A a \in Int : [c EXCEPT !.cur = a] \in CalcType
           /\ \A a \in {"none"} \cup Operators : [c EXCEPT !.op = a] \in CalcType
           /\ \A a \in BOOLEAN : [c EXCEPT !.fresh = a] \in CalcType
           /\ \A a \in Int : [c EXCEPT !.disp = a] \in CalcType
  BY DEF CalcType

\* A well-formed calculation was well-formed before its last key, and ended
\* with a number or `=' when that key is no digit.
LEMMA WellFormedBefore ==
    ASSUME keys \in Seq(KeyType), NEW e \in KeyType, keys' = Append(keys, e), WellFormed'
    PROVE  WellFormed /\ (e.k # "digit" => Complete(keys))
  <1> DEFINE n == Len(keys)
             ls == keys'
  <1>0. /\ n \in Nat /\ Len(ls) = n + 1 /\ ls[n + 1] = e /\ SameTo(keys, ls, n)
        /\ (DigitAt(ls, n + 1) <=> e.k = "digit")
    BY KeyAppended
  <1>1. \A i \in 2 .. n + 1 : ~DigitAt(ls, i) => DigitAt(ls, i - 1) \/ ls[i - 1].k = "="
    BY <1>0 DEF WellFormed, IsDigit, DigitAt
  <1> HIDE DEF ls
  <1>2. ASSUME NEW i \in 2 .. n, ~DigitAt(keys, i)
        PROVE  DigitAt(keys, i - 1) \/ keys[i - 1].k = "="
    <2>1. i \in 2 .. n + 1 /\ i \in Int /\ i <= n /\ i - 1 \in Int /\ i - 1 <= n /\ i - 1 \in 1 .. n
      BY <1>0
    <2>2. /\ ~DigitAt(ls, i) /\ (DigitAt(keys, i - 1) <=> DigitAt(ls, i - 1))
          /\ keys[i - 1] = ls[i - 1]
      BY <1>0, <1>2, <2>1 DEF SameTo
    <2> QED BY <1>1, <2>1, <2>2
  <1>3. WellFormed
    BY <1>2 DEF WellFormed, IsDigit, DigitAt
  <1>4. ASSUME e.k # "digit" PROVE Complete(keys)
    <2>1. CASE n = 0
      BY <2>1 DEF Complete
    <2>2. CASE n # 0
      <3>1. n + 1 \in 2 .. n + 1 /\ n + 1 - 1 = n /\ n \in Int /\ n <= n /\ n \in 1 .. n
        BY <1>0, <2>2
      <3>2. DigitAt(ls, n) \/ ls[n].k = "="
        BY <1>0, <1>1, <1>4, <3>1
      <3>3. (DigitAt(keys, n) <=> DigitAt(ls, n)) /\ keys[n] = ls[n]
        BY <1>0, <3>1 DEF SameTo
      <3> QED BY <3>2, <3>3 DEF Complete
    <2> QED BY <2>1, <2>2
  <1> QED BY <1>3, <1>4

LEMMA CalcFields ==
    ASSUME NEW c \in CalcType
    PROVE  /\ c.acc \in Int /\ c.cur \in Int /\ c.op \in {"none"} \cup Operators
           /\ c.fresh \in BOOLEAN /\ c.disp \in Int
  BY DEF CalcType

LEMMA DigitStep ==
    ASSUME CalcInv, NEW d \in Digits, key_digit(d)
    PROVE  CalcInv'
  <1> DEFINE e == [k |-> "digit", d |-> d]
             n == (IF calc.fresh THEN 0 ELSE calc.cur) * BASE + d
             w == Wrap(n)
             c1 == [calc EXCEPT !.cur = w]
             c2 == [c1 EXCEPT !.fresh = FALSE]
             c3 == [c2 EXCEPT !.disp = w]
  <1>0. keys \in Seq(KeyType) /\ calc \in CalcType /\ over \in BOOLEAN /\ trap \in BOOLEAN
    BY DEF CalcInv
  <1>1. /\ keys' = Append(keys, e) /\ over' = (over \/ n # w) /\ trap' = trap /\ ~trap
        /\ calc' = [calc EXCEPT !.cur = w, !.fresh = FALSE, !.disp = w]
    BY DEF key_digit, typed
  <1>2. BASE \in Nat /\ d \in Nat
    BY CalcAssumption
  <1>3. e \in KeyType /\ e.k = "digit" /\ e.d = d
    BY <1>2 DEF KeyType
  <1>4. n \in Int
    <2>1. (IF calc.fresh THEN 0 ELSE calc.cur) \in Int
      BY <1>0, CalcFields
    <2> QED BY <1>2, <2>1
  <1>5. w \in Int
    <2> HIDE DEF n
    <2> QED BY <1>4, WrapIn
  <1>6. calc' = c3
    <2> HIDE DEF w
    <2> QED BY <1>0, <1>1 DEF CalcType
  <1>7. c3 \in CalcType
    <2> HIDE DEF w
    <2>1. c1 \in CalcType
      BY <1>0, <1>5, CalcChanges
    <2> HIDE DEF c1
    <2>2. c2 \in CalcType
      BY <2>1, CalcChanges
    <2> HIDE DEF c2
    <2> QED BY <1>5, <2>2, CalcChanges
  <1>8. c3.cur = w /\ c3.fresh = FALSE /\ c3.disp = w /\ c3.op = calc.op /\ c3.acc = calc.acc
    <2> HIDE DEF w
    <2> QED BY <1>0 DEF CalcType
  <1>9. keys' \in Seq(KeyType)
    BY <1>0, <1>1, <1>3, KeyAppended
  <1>10. ASSUME WellFormed', ~over'
         PROVE  ~trap' /\ Follows(calc', keys', Number', Start', Result')
    <2>1. WellFormed
      BY <1>0, <1>1, <1>3, <1>10, WellFormedBefore
    <2>2. ~over /\ n = w
      BY <1>1, <1>10
    <2>3. Follows(calc, keys, Number, Start, Result)
      BY <2>1, <2>2 DEF CalcInv
    <2>4. Reference(keys, Number, Start, Result)
      BY <1>0, ReferenceNow
    <2>5. Reference(Append(keys, e), Number', Start', Result')
      BY <1>1, <1>9, ReferenceNext
    <2>6. calc'.disp = (IF calc.fresh THEN 0 ELSE calc.cur) * BASE + e.d
      <3>1. calc'.disp = n
        BY <1>6, <1>8, <2>2
      <3> QED BY <1>3, <3>1
    <2>7. calc'.fresh = FALSE /\ calc'.op = calc.op /\ calc'.acc = calc.acc /\ calc'.cur = calc'.disp
      BY <1>6, <1>8
    <2> HIDE DEF e
    <2>8. Follows(calc', Append(keys, e), Number', Start', Result')
      BY <1>0, <1>3, <2>3, <2>4, <2>5, <2>6, <2>7, DigitFollows
    <2> QED BY <1>1, <2>8
  <1>11. over' \in BOOLEAN /\ trap' \in BOOLEAN
    BY <1>0, <1>1
  <1>12. calc' \in CalcType
    BY <1>6, <1>7
  <1> QED BY <1>9, <1>10, <1>11, <1>12 DEF CalcInv

\* An operator or `=', the key e, whose fields c are what it leaves.
LEMMA EvaluateStep ==
    ASSUME CalcInv, NEW e \in KeyType, e.k # "digit", typed(e.k, e.d, Pending), trap' = Traps,
           NEW c \in CalcType, calc' = (IF Traps THEN calc ELSE c),
           c.fresh = TRUE, c.disp = Wrap(Pending),
           IF e.k = "=" THEN c.op = "none" /\ c.cur = c.disp ELSE c.op = e.k /\ c.acc = c.disp
    PROVE  CalcInv'
  <1>0. keys \in Seq(KeyType) /\ calc \in CalcType /\ over \in BOOLEAN /\ trap \in BOOLEAN
    BY DEF CalcInv
  <1>1. keys' = Append(keys, e) /\ over' = (over \/ Pending # Wrap(Pending))
    <2>1. e = [k |-> e.k, d |-> e.d]
      BY DEF KeyType
    <2> QED BY <2>1 DEF typed
  <1>2. keys' \in Seq(KeyType)
    BY <1>0, <1>1, KeyAppended
  <1>3. over' \in BOOLEAN /\ trap' \in BOOLEAN /\ calc' \in CalcType
    BY <1>0, <1>1 DEF Traps
  <1>4. ASSUME WellFormed', ~over'
        PROVE  ~trap' /\ Follows(calc', keys', Number', Start', Result')
    <2>1. WellFormed /\ Complete(keys)
      BY <1>0, <1>1, <1>4, WellFormedBefore
    <2>2. ~over /\ Pending = Wrap(Pending)
      BY <1>1, <1>4
    <2>3. Follows(calc, keys, Number, Start, Result)
      BY <2>1, <2>2 DEF CalcInv
    <2>4. Reference(keys, Number, Start, Result)
      BY <1>0, ReferenceNow
    <2>5. Reference(Append(keys, e), Number', Start', Result')
      BY <1>1, <1>2, ReferenceNext
    <2>6. ~Traps
      <3> SUFFICES ASSUME Traps PROVE FALSE
        OBVIOUS
      <3>1. Pending = Exact(MIN, "/", calc.cur) /\ calc.cur = -1
        BY DEF Traps, Pending
      <3>2. calc.cur \in Int
        BY <1>0, CalcFields
      <3>3. calc.cur + 1 = 0
        BY <3>1
      <3> QED BY <2>2, <3>1, <3>2, <3>3, TrapOverflows
    <2>7. Pending = Result[Len(keys) + 1]
      BY <1>0, <2>1, <2>3, <2>4, PendingValue DEF Pending
    <2>8. c.disp = Result[Len(keys) + 1]
      BY <2>2, <2>7
    <2>9. Follows(c, Append(keys, e), Number', Start', Result')
      BY <1>0, <2>4, <2>5, <2>8, EvaluatedFollows
    <2> QED BY <1>1, <2>6, <2>9
  <1> QED BY <1>2, <1>3, <1>4 DEF CalcInv

LEMMA PendingInt == CalcInv => Pending \in Int /\ Wrap(Pending) \in Int
  <1> SUFFICES ASSUME CalcInv PROVE Pending \in Int /\ Wrap(Pending) \in Int
    OBVIOUS
  <1>1. calc.cur \in Int /\ calc.acc \in Int
    BY CalcFields DEF CalcInv
  <1>2. Exact(calc.acc, calc.op, calc.cur) \in Int
    BY <1>1, ExactInt
  <1>3. Pending \in Int
    BY <1>1, <1>2 DEF Pending
  <1> QED BY <1>3, WrapIn

LEMMA OperatorStep ==
    ASSUME CalcInv, NEW op \in Operators, key_operator(op)
    PROVE  CalcInv'
  <1> DEFINE e == [k |-> op, d |-> 0]
             w == Wrap(Pending)
             c1 == [calc EXCEPT !.acc = w]
             c2 == [c1 EXCEPT !.op = op]
             c3 == [c2 EXCEPT !.fresh = TRUE]
             c4 == [c3 EXCEPT !.disp = w]
  <1>0. calc \in CalcType /\ w \in Int
    BY PendingInt DEF CalcInv
  <1>1. op \notin {"digit", "=", "none"}
    BY CalcAssumption
  <1>2. e \in KeyType /\ e.k = op /\ e.d = 0
    BY DEF KeyType
  <1>3. /\ typed(op, 0, Pending) /\ trap' = Traps
        /\ calc' = IF Traps THEN calc
                   ELSE [calc EXCEPT !.acc = w, !.op = op, !.fresh = TRUE, !.disp = w]
    BY DEF key_operator
  <1> HIDE DEF w
  <1>4. calc' = IF Traps THEN calc ELSE c4
    <2>1. [calc EXCEPT !.acc = w, !.op = op, !.fresh = TRUE, !.disp = w] = c4
      BY <1>0 DEF CalcType
    <2> QED BY <1>3, <2>1
  <1>5. c4 \in CalcType
    <2>1. c1 \in CalcType
      BY <1>0, CalcChanges
    <2> HIDE DEF c1
    <2>2. c2 \in CalcType
      BY <2>1, CalcChanges
    <2> HIDE DEF c2
    <2>3. c3 \in CalcType
      BY <2>2, CalcChanges
    <2> HIDE DEF c3
    <2> QED BY <1>0, <2>3, CalcChanges
  <1>6. c4.fresh = TRUE /\ c4.disp = w /\ c4.op = op /\ c4.acc = w
    BY <1>0 DEF CalcType
  <1> HIDE DEF e, c4
  <1> QED BY <1>1, <1>2, <1>3, <1>4, <1>5, <1>6, EvaluateStep DEF w

LEMMA EqualsStep == CalcInv /\ key_equals => CalcInv'
  <1> SUFFICES ASSUME CalcInv, key_equals PROVE CalcInv'
    OBVIOUS
  <1> DEFINE e == [k |-> "=", d |-> 0]
             w == Wrap(Pending)
             c == [acc |-> w, cur |-> w, op |-> "none", fresh |-> TRUE, disp |-> w]
  <1>0. w \in Int
    BY PendingInt
  <1>1. e \in KeyType /\ e.k = "=" /\ e.d = 0
    BY DEF KeyType
  <1>2. typed("=", 0, Pending) /\ trap' = Traps /\ calc' = IF Traps THEN calc ELSE c
    BY DEF key_equals
  <1> HIDE DEF w
  <1>3. c \in CalcType /\ c.fresh = TRUE /\ c.disp = w /\ c.op = "none" /\ c.cur = w
    BY <1>0 DEF CalcType
  <1> HIDE DEF e, c
  <1> QED BY <1>1, <1>2, <1>3, EvaluateStep DEF w

\* While no value overflows and every operator has its operands, the display is
\* the number being typed or the value of the calculation, applied from left to
\* right, and no division traps: for every base, width of `long' and number of
\* keys (calc_apply and app_calc_key of apps.c).
THEOREM CalcFollowsReference == AppsSpec => []CalcIsReference
  <1>1. AppsInit => CalcInv
    <2> SUFFICES ASSUME AppsInit PROVE CalcInv
      OBVIOUS
    <2>1. calc = Cleared /\ over = FALSE /\ trap = FALSE /\ keys = <<>>
      BY DEF AppsInit, CalcInit
    <2>2. <<>> \in Seq(KeyType) /\ FALSE \in BOOLEAN
      OBVIOUS
    <2> QED BY <2>1, <2>2, ClearedFollows DEF CalcInv
  <1>2. CalcInv /\ [AppsNext]_appVars => CalcInv'
    <2> SUFFICES ASSUME CalcInv, [AppsNext]_appVars PROVE CalcInv'
      OBVIOUS
    <2>1. ASSUME UNCHANGED calcVars PROVE CalcInv'
      <3>1. keys' = keys /\ calc' = calc /\ over' = over /\ trap' = trap
        BY <2>1 DEF calcVars
      <3>2. Number' = Number /\ Start' = Start /\ Result' = Result /\ WellFormed' = WellFormed
        BY <3>1 DEF Number, Start, Result, WellFormed, IsDigit
      <3> QED BY <3>1, <3>2 DEF CalcInv
    <2>2. ASSUME app_calc_open PROVE CalcInv'
      <3>1. trap' = FALSE
        BY <2>2 DEF app_calc_open, CalcInv
      <3> QED BY <2>2, <3>1, ClearedInv DEF app_calc_open
    <2>3. CASE CalcNext
      BY <2>1, <2>2, <2>3, DigitStep, OperatorStep, EqualsStep DEF CalcNext, key_clear, halted
    <2> QED BY <2>1, <2>2, <2>3 DEF AppsNext, appVars
  <1>3. CalcInv => CalcIsReference
    BY CalcRead
  <1> QED BY <1>1, <1>2, <1>3, PTL DEF AppsSpec
=============================================================================
